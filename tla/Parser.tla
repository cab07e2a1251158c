------------------------------- MODULE Parser -------------------------------
(***************************************************************************)
(* src/src/mavlink/codec/parser.ts: bytes arrive in chunks of any size and *)
(* are searched for frames.  A frame is a magic byte, the length of its    *)
(* payload, flags (version 2 only), a message id, the payload, a checksum  *)
(* and, when the flags say so, a signature; each field is one small byte   *)
(* here.  What cannot be a frame is skipped byte by byte.                  *)
(***************************************************************************)
EXTENDS Naturals, Sequences, SequencesExt, FiniteSetsExt, Functions

CONSTANTS
    Streams,      \* what a link may carry, garbage included
    MaxChunk,     \* (bound) bytes per read
    MaxRestarts   \* (bound)

V1 == 5
V2 == 6
Signed == 1       \* the one known flag
Known == {0, 1}   \* message ids of the dialects
Genuine == 3      \* a signature made with the key
Bytes == 0..6

VARIABLES
    coming,     \* what the link still has to give
    signing,    \* "off", "strict" or "lenient" (unsigned frames allowed)
    buf,        \* bytes kept between two reads
    out,        \* frames delivered since the parser was made
    arrived,    \* (history) bytes since the parser was made
    restarts

vars == <<coming, signing, buf, out, arrived, restarts>>

Modes == {"off", "strict", "lenient"}
TypeOK ==
    /\ coming \in Seq(Bytes) /\ buf \in Seq(Bytes) /\ arrived \in Seq(Bytes)
    /\ signing \in Modes /\ restarts \in 0..MaxRestarts
    /\ \A n \in 1..Len(out) : out[n].bytes \in Seq(Bytes) /\ out[n].trusted \in BOOLEAN

Init ==
    /\ coming \in Streams /\ signing \in {"off", "strict"}
    /\ buf = <<>> /\ out = <<>> /\ arrived = <<>> /\ restarts = 0

-----------------------------------------------------------------------------
\* What the bytes of s from i on say of a frame that begins there.
Left(s, i) == Len(s) - i + 1
Header(s, i) == IF s[i] = V2 THEN 4 ELSE 3
Sizeable(s, i) == Left(s, i) >= (IF s[i] = V2 THEN 3 ELSE 2)
Flags(s, i) == IF s[i] = V2 THEN s[i + 2] ELSE 0
Possible(s, i) == Flags(s, i) \in {0, Signed}
End(s, i) == i + Header(s, i) + s[i + 1]                  \* of the payload: the checksum
FrameLen(s, i) == Header(s, i) + s[i + 1] + 1 + Flags(s, i)

Begins(s, i) == s[i] \in {V1, V2}
Partial(s, i) ==
    /\ Begins(s, i)
    /\ Sizeable(s, i) => Possible(s, i) /\ Left(s, i) < FrameLen(s, i)
Complete(s, i) ==
    /\ Begins(s, i) /\ Sizeable(s, i) /\ Possible(s, i) /\ Left(s, i) >= FrameLen(s, i)

\* tryDecode: a known message, its checksum, and the signature when there is a key.
MsgId(s, i) == s[i + Header(s, i) - 1]
Checksum(s, i) == FoldLeft(+, MsgId(s, i) + 1, SubSeq(s, i + 1, End(s, i) - 1)) % 7
Trusts(s, i, mode) ==
    CASE mode = "off" -> TRUE
      [] Flags(s, i) = Signed -> s[End(s, i) + 1] = Genuine
      [] OTHER -> mode = "lenient"
Decodes(s, i, mode) ==
    /\ Complete(s, i) /\ MsgId(s, i) \in Known
    /\ s[End(s, i)] = Checksum(s, i) /\ Trusts(s, i, mode)
Frame(s, i, mode) ==
    [bytes |-> SubSeq(s, i, i + FrameLen(s, i) - 1), trusted |-> mode # "off" /\ Flags(s, i) = Signed]

\* Where the frames are that one scan of s delivers, in their order, and the first
\* byte after them from which a frame may still become complete.
Found(s, mode) ==
    LET from[i \in 1..(Len(s) + 1)] ==
          IF i > Len(s) THEN <<>>
          ELSE IF Decodes(s, i, mode) THEN <<i>> \o from[i + FrameLen(s, i)]
          ELSE from[i + 1]
    IN from[1]
\* Mutant: the scan does not go on behind the last frame.
ConsumedNothing(s, found) == 0
Consumed(s, found) == IF found = <<>> THEN 0 ELSE Last(found) + FrameLen(s, Last(found)) - 1
Waiting(s, found) == {i \in (Consumed(s, found) + 1)..Len(s) : Partial(s, i)}
Retained(s, found) ==
    IF Waiting(s, found) = {} THEN <<>> ELSE SubSeq(s, Min(Waiting(s, found)), Len(s))

\* push
Push(n) ==
    /\ n <= Len(coming)
    /\ LET s == buf \o SubSeq(coming, 1, n)
           found == Found(s, signing)
       IN /\ out' = out \o [k \in 1..Len(found) |-> Frame(s, found[k], signing)]
          /\ buf' = Retained(s, found)
    /\ arrived' = arrived \o SubSeq(coming, 1, n)
    /\ coming' = SubSeq(coming, n + 1, Len(coming))
    /\ UNCHANGED <<signing, restarts>>

\* The session's setSigning() and reset(): a new or an emptied parser.
Restart(mode) ==
    /\ restarts < MaxRestarts /\ restarts' = restarts + 1
    /\ signing' = mode /\ buf' = <<>> /\ out' = <<>> /\ arrived' = <<>> /\ UNCHANGED coming

Next == (\E n \in 1..MaxChunk : Push(n)) \/ (\E mode \in Modes : Restart(mode))
Spec == Init /\ [][Next]_vars

-----------------------------------------------------------------------------
\* Where a frame is that the parser has to take, whatever is around it.
Frames(s, mode) == {i \in 1..Len(s) : Decodes(s, i, mode)}
\* No frame lies within another: then the order in which they are found is their own.
Apart(s, mode) ==
    \A i, j \in Frames(s, mode) : i < j => i + FrameLen(s, i) <= j

\* However the bytes are cut into chunks, and whatever garbage is between them,
\* exactly the frames that have arrived are delivered, in their order, each with what
\* is known of its signature.  Not when one frame lies within another: cut inside the
\* outer one, the inner one is delivered and the outer one lost.
ParsesWhatArrived ==
    Apart(arrived, signing) =>
        out = LET at == SetToSortSeq(Frames(arrived, signing), <)
              IN [k \in 1..Len(at) |-> Frame(arrived, at[k], signing)]
=============================================================================
