------------------------------ MODULE Recorder ------------------------------
(***************************************************************************)
(* src/src/data/tlog/recorder.ts: frames are buffered at once and written  *)
(* in chunks behind a chain of promises; start, stop, export and dispose   *)
(* meet writes that are still under way or have failed.                    *)
(***************************************************************************)
EXTENDS Naturals, Sequences, SequencesExt

CONSTANTS
    MaxRecordings,  \* (bound)
    MaxFrames,      \* frames of one recording (bound)
    ChunkFrames,    \* frames of a full chunk
    MaxExports      \* (bound)

Recordings == 1..MaxRecordings

VARIABLES
    recording,   \* the flag
    id,          \* recordingId, 0 for undefined
    pending,     \* frames not yet handed to the chain
    keys,        \* chunkKeys: the frames of each chunk of the recording
    count,       \* frameCount of the recording
    chain,       \* per recording, chunks still to be written
    stored,      \* per recording, the chunks that were written: sequence of flags, in key order
    flushError,  \* the recording whose write failed first, 0 for undefined
    stopping,    \* per recording: its stop() is "none", "waiting", "told" or "silent"
    export,      \* the export() that waits, or None
    exports, disposed

vars == <<recording, id, pending, keys, count, chain, stored, flushError, stopping, export, exports, disposed>>

None == [id |-> 0, keys |-> <<>>, tail |-> <<>>, asked |-> 0, result |-> <<0>>]
Frames(first, last) == [i \in 1..(last + 1 - first) |-> first + i - 1]

TypeOK ==
    /\ recording \in BOOLEAN /\ id \in 0..MaxRecordings /\ disposed \in BOOLEAN
    /\ pending \in Seq(1..MaxFrames) /\ count \in 0..MaxFrames
    /\ \A r \in Recordings : chain[r] \in 0..MaxFrames /\ stored[r] \in Seq(BOOLEAN)
    /\ flushError \in 0..MaxRecordings
    /\ stopping \in [Recordings -> {"none", "waiting", "told", "silent"}] /\ exports \in 0..MaxExports

Init ==
    /\ recording = FALSE /\ id = 0 /\ pending = <<>> /\ keys = <<>> /\ count = 0
    /\ chain = [r \in Recordings |-> 0] /\ stored = [r \in Recordings |-> <<>>] /\ flushError = 0
    /\ stopping = [r \in Recordings |-> "none"] /\ export = None /\ exports = 0 /\ disposed = FALSE

\* flush: the chunk gets its place before the write; the buffer is empty at once.
Flush(buffer) ==
    IF buffer = <<>> THEN pending' = <<>> /\ UNCHANGED <<keys, chain>>
    ELSE /\ pending' = <<>> /\ keys' = Append(keys, buffer)
         /\ chain' = [chain EXCEPT ![id] = @ + 1]

-----------------------------------------------------------------------------
\* start(): also when the link opens. The chain and the error are new ones.
Start ==
    /\ ~disposed /\ ~recording /\ id < MaxRecordings
    /\ id' = id + 1 /\ recording' = TRUE /\ pending' = <<>> /\ keys' = <<>> /\ count' = 0 /\ flushError' = 0
    /\ UNCHANGED <<chain, stored, stopping, export, exports, disposed>>

OnFrame ==
    /\ recording /\ ~disposed /\ count < MaxFrames /\ count' = count + 1
    /\ LET buffer == Append(pending, count + 1) IN
       IF Len(buffer) >= ChunkFrames THEN Flush(buffer)
       ELSE pending' = buffer /\ UNCHANGED <<keys, chain>>
    /\ UNCHANGED <<recording, id, stored, flushError, stopping, export, exports, disposed>>

\* Mutant: what is not a full chunk is dropped.
DropAtEnd == pending' = <<>> /\ UNCHANGED <<keys, chain>>
FlushAtEnd == Flush(pending)

\* stop(): also when the link closes or fails. dispose() flushes too, and tells nothing.
Stop ==
    /\ recording /\ recording' = FALSE /\ FlushAtEnd
    /\ stopping' = [stopping EXCEPT ![id] = "waiting"]
    /\ UNCHANGED <<id, count, stored, flushError, export, exports, disposed>>
Dispose ==
    /\ ~disposed /\ disposed' = TRUE /\ recording' = FALSE
    /\ IF recording THEN FlushAtEnd ELSE UNCHANGED <<pending, keys, chain>>
    /\ UNCHANGED <<id, count, stored, flushError, stopping, export, exports>>

\* Mutant: the first error is forgotten.
Forgets(r) == 0
\* The write at the head of a chain ends; its failure becomes the first error.
Keeps(r) == IF flushError = 0 THEN r ELSE flushError
Write(r, ok) ==
    /\ chain[r] > 0 /\ chain' = [chain EXCEPT ![r] = @ - 1]
    /\ stored' = [stored EXCEPT ![r] = Append(@, ok)]
    /\ flushError' = IF ok THEN flushError ELSE Keeps(r)
    /\ UNCHANGED <<recording, id, pending, keys, count, stopping, export, exports, disposed>>

\* stop() goes on after the chain it awaited, and looks at the error of today.
Stopped(r) ==
    /\ stopping[r] = "waiting" /\ chain[r] = 0
    /\ stopping' = [stopping EXCEPT ![r] = IF flushError # 0 THEN "told" ELSE "silent"]
    /\ UNCHANGED <<recording, id, pending, keys, count, chain, stored, flushError, export, exports, disposed>>

\* export() takes the keys and the tail when it is called, and waits for the
\* writes of then; a chunk that is not there fails it.
Export ==
    /\ (export.id = 0 \/ export.result # <<0>>) /\ id # 0 /\ exports < MaxExports
    /\ exports' = exports + 1
    /\ export' = [id |-> id, keys |-> keys, tail |-> pending, asked |-> count, result |-> <<0>>]
    /\ UNCHANGED <<recording, id, pending, keys, count, chain, stored, flushError, stopping, disposed>>
\* Mutant: the frames of the tail are taken at the end.
TailAtEnd(e) == pending
TailOf(e) == e.tail
Exported ==
    /\ export.id # 0 /\ export.result = <<0>> /\ Len(stored[export.id]) >= Len(export.keys)
    /\ export' = IF flushError = 0 /\ \A k \in 1..Len(export.keys) : stored[export.id][k]
                 THEN [export EXCEPT !.result = FlattenSeq(export.keys) \o TailOf(export)]
                 ELSE None
    /\ UNCHANGED <<recording, id, pending, keys, count, chain, stored, flushError, stopping, exports, disposed>>

Next ==
    \/ Start \/ OnFrame \/ Stop \/ Dispose \/ Export \/ Exported
    \/ \E r \in Recordings : Stopped(r) \/ \E ok \in BOOLEAN : Write(r, ok)
Spec == Init /\ [][Next]_vars

-----------------------------------------------------------------------------
Lost(r) == \E k \in 1..Len(stored[r]) : ~stored[r][k]

\* "Never drop": what was received is in the chunks or in the buffer, each frame
\* once and in order; when a recording ends nothing is left in the buffer.
NothingDropped == /\ FlattenSeq(keys) \o pending = Frames(1, count)
                  /\ recording \/ pending = <<>>

\* An export is the whole recording as it was when it was asked for, whatever is
\* received, flushed, stopped and started until the writes have ended.
ExportIsWhole == export.result # <<0>> => export.result = Frames(1, export.asked)

\* A stop() that reports no error has written every chunk, unless a new recording
\* began meanwhile, which forgets the error.
StopTells == \A r \in Recordings : stopping[r] = "silent" /\ Lost(r) => id > r
=============================================================================
