------------------------------ MODULE Terrain ------------------------------
(***************************************************************************)
(* Terrain for the vehicle: the service that answers its requests          *)
(* (terrain-service.ts) from the decoded tiles that the elevation provider *)
(* remembers (geo/terrain/provider.ts).  Several requests are answered at  *)
(* once; each awaits one tile after the other.                             *)
(***************************************************************************)
EXTENDS Naturals, Sequences, FiniteSets

CONSTANTS
    Requests,     \* the requests of a behaviour
    Plans,        \* what one may ask for: blocks of posts, each between corner tiles
    MaxDecoded,   \* tiles that are remembered
    MaxFailures   \* (bound) fetches that fail

VARIABLES
    request,      \* handleRequest of each request
    decoded,      \* tilePixels: what is remembered, the oldest first
    disposed,
    fetched, failed   \* history: tiles that were got, and that were not

vars == <<request, decoded, disposed, fetched, failed>>

Missing == 0
Idle == [step |-> "none", plan |-> <<>>, sent |-> <<>>, data |-> <<>>, corners |-> <<>>]

Init ==
    /\ request = [r \in Requests |-> Idle] /\ decoded = <<>> /\ disposed = FALSE
    /\ fetched = {} /\ failed = {}

-----------------------------------------------------------------------------
Block(q) == q.plan[Len(q.sent) + 1]
Post(q) == Block(q)[Len(q.data) + 1]
Tile(q) == Post(q)[Len(q.corners) + 1]

\* sampleElevation: between all corners, or else the nearest one there is.
Elevation(corners) ==
    LET found == SelectSeq(corners, LAMBDA c : c # Missing)
    IN  CASE found = <<>> -> <<>>
         [] Len(found) = Len(corners) -> corners
         [] OTHER -> <<found[1]>>

\* The pixels of one corner were awaited: the next corner, post, or block.
Looked(q, pixels) ==
    LET corners == Append(q.corners, pixels)
        data == Append(q.data, Elevation(corners))
    IN  IF Len(corners) < Len(Post(q)) THEN [q EXCEPT !.step = "look", !.corners = corners]
        ELSE [q EXCEPT !.step = IF Len(data) < Len(Block(q)) THEN "look" ELSE "send",
                       !.data = data, !.corners = <<>>]

Others(tile) == SelectSeq(decoded, LAMBDA d : d.tile # tile)
\* A plausible mistake: the row alone is the key.
FoundInRow(tile) == decoded
Found(tile) == SelectSeq(decoded, LAMBDA d : d.tile = tile)

After(q) == IF Len(q.sent) < Len(q.plan) THEN "look" ELSE "done"

\* TERRAIN_REQUEST.
Receive(r) ==
    /\ request[r].step = "none" /\ ~disposed
    /\ \E plan \in Plans :
         LET q == [Idle EXCEPT !.plan = plan]
         IN  request' = [request EXCEPT ![r] = [q EXCEPT !.step = After(q)]]
    /\ UNCHANGED <<decoded, disposed, fetched, failed>>

\* tilePixels: what is remembered, a failure too, is moved to the young end; anything
\* else is fetched.
Look(r) ==
    LET q == request[r]
        hit == Found(Tile(q))
    IN  /\ q.step = "look"
        /\ IF hit = <<>>
           THEN request' = [request EXCEPT ![r].step = "fetch"] /\ UNCHANGED decoded
           ELSE /\ request' = [request EXCEPT ![r] = Looked(q, hit[1].pixels)]
                /\ decoded' = Append(Others(hit[1].tile), hit[1])
        /\ UNCHANGED <<disposed, fetched, failed>>

\* The tile came, or did not; it keeps its place if another request brought it.
Remember(tile, pixels) ==
    LET new == [tile |-> tile, pixels |-> pixels]
        all == IF Found(tile) = <<>> THEN Append(decoded, new)
               ELSE [i \in 1..Len(decoded) |-> IF decoded[i].tile = tile THEN new ELSE decoded[i]]
    IN  IF Len(all) > MaxDecoded THEN Tail(all) ELSE all
Fetched(r) ==
    LET q == request[r]
    IN  /\ q.step = "fetch"
        /\ \E pixels \in {Tile(q)} \cup (IF Cardinality(failed) < MaxFailures THEN {Missing} ELSE {}) :
             /\ decoded' = Remember(Tile(q), pixels)
             /\ request' = [request EXCEPT ![r] = Looked(q, pixels)]
             /\ fetched' = fetched \cup ({pixels} \ {Missing})
             /\ failed' = IF pixels = Missing THEN failed \cup {Tile(q)} ELSE failed
        /\ UNCHANGED disposed

\* One TERRAIN_DATA per block, unless the service was disposed meanwhile.
Send(r) ==
    LET q == request[r]
        next == [q EXCEPT !.sent = Append(@, q.data), !.data = <<>>]
    IN  /\ q.step = "send"
        /\ request' = [request EXCEPT ![r] =
             IF disposed THEN [q EXCEPT !.step = "gone"]
             ELSE [next EXCEPT !.step = After(next)]]
        /\ UNCHANGED <<decoded, disposed, fetched, failed>>

Dispose == ~disposed /\ disposed' = TRUE /\ UNCHANGED <<request, decoded, fetched, failed>>

Next ==
    \/ \E r \in Requests : Receive(r) \/ Look(r) \/ Fetched(r) \/ Send(r)
    \/ Dispose

Fairness == \A r \in Requests : WF_vars(Look(r)) /\ WF_vars(Fetched(r)) /\ WF_vars(Send(r))
Spec == Init /\ [][Next]_vars /\ Fairness

-----------------------------------------------------------------------------
TypeOK ==
    /\ \A r \in Requests : LET q == request[r] IN
         /\ q.step \in {"none", "look", "fetch", "send", "done", "gone"}
         /\ q.plan \in Plans \cup {<<>>} /\ Len(q.sent) <= Len(q.plan)
         /\ q.step \in {"look", "fetch"} => Len(q.data) < Len(Block(q)) /\ Len(q.corners) < Len(Post(q))
    /\ Len(decoded) <= MaxDecoded /\ disposed \in BOOLEAN

\* Every TERRAIN_DATA is of the block that was asked for, in its turn; a post is worked
\* out of its own corners only, of all of them unless a fetch of one failed, and is left
\* empty only if the fetches of all failed, whatever the requests share and forget.
HeightsAreTrue ==
    \A r \in Requests : LET q == request[r] IN \A b \in 1..Len(q.sent) :
      /\ Len(q.sent[b]) = Len(q.plan[b])
      /\ \A i \in 1..Len(q.sent[b]) :
           LET post == q.plan[b][i]  value == q.sent[b][i]
               tiles == {post[k] : k \in 1..Len(post)}
           IN  /\ \A k \in 1..Len(value) : value[k] \in tiles \cap fetched
               /\ value = post \/ tiles \cap failed # {}
               /\ value # <<>> \/ tiles \subseteq failed

\* Nothing is sent once the service is disposed.
SilentAfterDispose ==
    [][disposed => \A r \in Requests : request'[r].sent = request[r].sent]_vars

\* Every request is answered in full, or the service is disposed.
RequestsEnd ==
    \A r \in Requests : request[r].step # "none" ~> (request[r].step = "done" \/ disposed)
=============================================================================
