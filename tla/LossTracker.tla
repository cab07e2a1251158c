----------------------------- MODULE LossTracker ----------------------------
(***************************************************************************)
(* src/src/mavlink/registry/loss.ts: packet loss of one source, counted    *)
(* from sequence numbers of eight bits.  The source numbers its frames     *)
(* 0, 1, 2, ...; the link loses, repeats and reorders them, and what       *)
(* arrives is the number of a frame modulo 256.                            *)
(***************************************************************************)
EXTENDS Integers

CONSTANTS
    Starts,     \* (bound) which frame is heard first
    Jumps,      \* (bound) how far a frame may lie from the newest one that was heard
    MaxFrames   \* (bound)

\* Frames may be lost, repeated and late, but by less than half of the numbers.
Near == Jumps \cap (-127..128)

VARIABLES
    lastSeq,    \* -1 before the first frame
    received, lost, duplicates, outOfOrder,
    first, newest   \* (history) numbers of the first and of the newest frame heard

vars == <<lastSeq, received, lost, duplicates, outOfOrder, first, newest>>

TypeOK ==
    /\ lastSeq \in -1..255 /\ first \in Nat /\ newest \in Nat
    /\ received \in Nat /\ lost \in Nat /\ duplicates \in Nat /\ outOfOrder \in Nat

Init ==
    /\ first \in Starts \cap Nat /\ newest = first /\ lastSeq = -1
    /\ received = 0 /\ lost = 0 /\ duplicates = 0 /\ outOfOrder = 0

-----------------------------------------------------------------------------
\* observe: how far s is ahead of the newest frame, and what follows from it.
Delta(s) == (s - lastSeq) % 256
\* A plausible mistake: half of the numbers are ahead, but not 128 itself.
AheadShort(delta) == delta \in 1..127
Ahead(delta) == delta \in 1..128

First(s) == lastSeq < 0 /\ lastSeq' = s /\ UNCHANGED <<lost, duplicates, outOfOrder>>
Duplicate(s) ==
    /\ lastSeq >= 0 /\ Delta(s) = 0
    /\ duplicates' = duplicates + 1 /\ UNCHANGED <<lastSeq, lost, outOfOrder>>
Forward(s) ==
    /\ lastSeq >= 0 /\ Ahead(Delta(s))
    /\ lost' = lost + Delta(s) - 1 /\ lastSeq' = s /\ UNCHANGED <<duplicates, outOfOrder>>
Late(s) ==
    /\ lastSeq >= 0 /\ Delta(s) # 0 /\ ~Ahead(Delta(s))
    /\ outOfOrder' = outOfOrder + 1 /\ UNCHANGED <<lastSeq, lost, duplicates>>

Observe(s) == received' = received + 1 /\ (First(s) \/ Duplicate(s) \/ Forward(s) \/ Late(s))

\* Frame k arrives: the first one, or one near the newest.
Arrives(k) ==
    /\ received < MaxFrames /\ k >= 0
    /\ IF received = 0 THEN k = first ELSE k - newest \in Near
    /\ Observe(k % 256)
    /\ newest' = IF k > newest THEN k ELSE newest
    /\ UNCHANGED first

\* The registry's clear(): nothing is known of the source any more.
Clear(k) ==
    /\ k \in Starts \cap Nat /\ received > 0
    /\ first' = k /\ newest' = k /\ lastSeq' = -1
    /\ received' = 0 /\ lost' = 0 /\ duplicates' = 0 /\ outOfOrder' = 0

Next == (\E j \in Near \cup {0} : Arrives(newest + j)) \/ (\E k \in Starts : Clear(k))
Spec == Init /\ [][Next]_vars

-----------------------------------------------------------------------------
\* The counters account for every frame between the first and the newest: each was
\* received in its turn or is counted as lost; repeated and late frames change nothing
\* of that, and nothing is counted because the numbers wrap.
Counted ==
    received > 0 =>
        /\ lastSeq = newest % 256 /\ newest >= first
        /\ received + lost = (newest - first + 1) + duplicates + outOfOrder
=============================================================================
