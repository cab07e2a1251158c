------------------------------- MODULE FtpClient -------------------------------
(***************************************************************************)
(* FtpClient: list, read, write and remove of files on the vehicle over    *)
(* FILE_TRANSFER_PROTOCOL.  Operations run one after the other; each is a  *)
(* series of transactions, a request sent again until its reply comes, and *)
(* a burst read takes many replies.  The link is first in first out and    *)
(* loses messages, and its delay is unbounded, so a reply may come after   *)
(* the timer gave its request up.                                          *)
(*                                                                         *)
(* What follows a settled promise runs before the next event, so a reply   *)
(* and the request it leads to are one action.                             *)
(***************************************************************************)
EXTENDS Naturals, Sequences, FiniteSets

CONSTANTS
    Ops,          \* calls of the public operations
    Kinds,        \* the operations called
    Sizes,        \* lengths of the file on the server and of the data written
    Chunk,        \* chunkSize, in bytes
    MaxRetries,   \* maxRetries
    SeqRange,     \* number of sequence numbers, 2^16 in the code
    MaxBurst,     \* frames the server sends at most for one burst request
    Servers,      \* kinds of server, see Server
    MaxFlight     \* bound: requests in flight when a timer sends one again

\* One file path; its bytes are "old" from the start and "new" once written.
Entries == 2      \* entries of the directory listed, one per page

VARIABLES
    op,         \* the calls: kind, length of the data, status, bytes or entries got
    queue,      \* opQueue: the running call first
    aborted,    \* calls whose signal is aborted
    run,        \* the local variables of the running call
    tx,         \* the transaction in flight (pending and its closure)
    seq,        \* next sequence number
    disposed,
    server,     \* external: the vehicle's file server
    toServer, toClient  \* external: the link

vars == <<op, queue, aborted, run, tx, seq, disposed, server, toServer, toClient>>

Contents == UNION {[1 .. n -> {"old", "new"}] : n \in Sizes}
Opcodes == {"open", "create", "list", "remove", "burst", "read", "write", "end"}
NoTx == [opcode |-> "none", offset |-> 0, data |-> <<>>, expected |-> 0, highest |-> 0,
         attempts |-> 0, frames |-> {}]
NoRun == [offset |-> 0, data |-> <<>>, size |-> 0, stalls |-> 0, outcome |-> "none"]

Init ==
    /\ op = [o \in Ops |-> [kind |-> "none", length |-> 0, status |-> "new", got |-> <<>>]]
    /\ queue = <<>> /\ aborted = {}
    /\ run = NoRun /\ tx = NoTx /\ seq = 0 /\ disposed = FALSE
    /\ \E s \in Servers, n \in Sizes :
          server = [traits |-> s, exists |-> TRUE, file |-> [i \in 1 .. n |-> "old"]]
    /\ toServer = <<>> /\ toClient = <<>>

Lesser(m, n) == IF m < n THEN m ELSE n
Plus(s, n) == (s + n) % SeqRange
Ahead(base, s) == (s + SeqRange - base) % SeqRange
SeqAtOrAfter(base, s) == Ahead(base, s) < SeqRange \div 2
SeqAfter(base, s) == Ahead(base, s) > 0 /\ SeqAtOrAfter(base, s)

-----------------------------------------------------------------------------
(* Where the running call goes next.  A step is a request to send, or the  *)
(* end of the call.                                                        *)

Request(opcode, r, offset, data) ==
    [done |-> FALSE, opcode |-> opcode, run |-> r, offset |-> offset, data |-> data]
End(r, status) == [done |-> TRUE, run |-> r, status |-> status]

\* finally { await this.terminate(session) }, with the outcome it leaves behind.
Finally(r, status) == Request("end", [r EXCEPT !.outcome = status], 0, <<>>)

First(o) ==
    Request(CASE op[o].kind = "read" -> "open" [] op[o].kind = "write" -> "create"
              [] OTHER -> op[o].kind, NoRun, 0, <<>>)

\* The for loop of writeInner.
WriteFrom(o, r) ==
    IF r.offset >= op[o].length THEN Finally(r, "done")
    ELSE Request("write", r, r.offset,
                 [i \in 1 .. Lesser(Chunk, op[o].length - r.offset) |-> "new"])

Covered(r) == r.size > 0 /\ r.offset >= r.size
BurstFrom(r) == IF Covered(r) THEN Finally(r, "done") ELSE Request("burst", r, r.offset, <<>>)
ReadFrom(r) == Request("read", r, r.offset, <<>>)

\* appendContiguousBurstFrames: the bytes of the frames that follow on one
\* another from the offset of r, and whether they reach the end of the file.
Contiguous(frames, r) ==
    LET from[i \in Nat] ==
            IF \A f \in frames : f.offset # i THEN [data |-> <<>>, eof |-> FALSE]
            ELSE LET f == CHOOSE f \in frames : f.offset = i
                     next == i + Len(f.data)
                 IN  IF Len(f.data) < Chunk \/ (r.size > 0 /\ next >= r.size)
                     THEN [data |-> f.data, eof |-> TRUE]
                     ELSE [data |-> f.data \o from[next].data, eof |-> from[next].eof]
    IN  from[r.offset]

\* Mutant: the bytes of a frame are taken whatever its offset is.
AfterBurstAnyOffset(r, frames, complete) ==
    LET bytes == IF frames = {} THEN <<>> ELSE (CHOOSE f \in frames : TRUE).data
        q == [r EXCEPT !.data = @ \o bytes, !.offset = @ + Len(bytes)]
    IN  IF Len(bytes) < Chunk THEN Finally(q, "done") ELSE BurstFrom(q)

\* Without progress a round counts once, or twice if the timer ended it.
\* Mutant: only the timer counts.
StallsByTimer(r, new, complete) == IF new # <<>> THEN 0 ELSE r.stalls + (IF complete THEN 0 ELSE 2)
Stalls(r, new, complete) == IF new # <<>> THEN 0 ELSE r.stalls + (IF complete THEN 1 ELSE 2)

\* A burst request ended with these frames, complete or by the timer.
AfterBurst(r, frames, complete) ==
    LET new == Contiguous(frames, r)
        q == [r EXCEPT !.data = @ \o new.data, !.offset = @ + Len(new.data),
                       !.stalls = Stalls(r, new.data, complete)]
    IN  IF new.eof \/ Covered(q) THEN Finally(q, "done")
        ELSE IF q.stalls > MaxRetries + 1 THEN ReadFrom(q)
        ELSE BurstFrom(q)

\* A burst request ended without data: by a NAK, the timer or an abort.  The
\* frames that came before a NAK are not used.
BurstRefused(r, code) ==
    CASE code = "eof" -> Finally(r, "done")
      [] code \in {"unknown", "timeout"} /\ r.offset = 0 -> ReadFrom(r)
      [] OTHER -> Finally(r, "failed")

\* readSequential after an ACK with some data.
AfterRead(r, data) ==
    LET q == [r EXCEPT !.data = @ \o data, !.offset = @ + Len(data)]
    IN  IF Len(data) < Chunk \/ Covered(q) THEN Finally(q, "done") ELSE ReadFrom(q)

\* What the running call o does with the outcome of a transaction other than a
\* burst: the code of the reply, or "timeout", "aborted" or "send-failed", and
\* its data; the reply to an open has the size of the file as its data.
After(o, opcode, code, data) ==
    CASE opcode = "end" -> End(run, run.outcome)
      [] opcode = "open" -> IF code = "ack" THEN BurstFrom([run EXCEPT !.size = Len(data)])
                            ELSE End(run, "failed")
      [] opcode = "create" -> IF code = "ack" THEN WriteFrom(o, run) ELSE End(run, "failed")
      [] opcode = "write" ->
            IF code = "ack"
            THEN WriteFrom(o, [run EXCEPT !.offset = @ + Chunk])
            ELSE Finally(run, "failed")
      [] opcode = "read" -> IF code = "ack" THEN AfterRead(run, data)
                            ELSE Finally(run, IF code = "eof" THEN "done" ELSE "failed")
      [] opcode = "list" ->
            IF code = "ack" /\ data # <<>>
            THEN LET r == [run EXCEPT !.offset = @ + Len(data), !.data = @ \o data]
                 IN  Request("list", r, r.offset, <<>>)
            ELSE End(run, IF code \in {"ack", "eof"} THEN "done" ELSE "failed")
      [] opcode = "remove" -> End(run, IF code = "ack" THEN "done" ELSE "failed")

-----------------------------------------------------------------------------
(* transact() and transactBurst().                                         *)

Idle == tx = NoTx
Current == Head(queue)
Message(t) == [opcode |-> t.opcode, offset |-> t.offset, data |-> t.data, expected |-> t.expected]

\* The next sequence number once this transaction is over: a burst moves it
\* past every number the server used (advanceSeqPast).
Passed(t) ==
    IF t.opcode = "burst" /\ SeqAtOrAfter(seq, t.highest) THEN Plus(t.highest, 1) ELSE seq

\* Send the request of a step, or end the running call.  Replies of the server
\* answer the sequence number of the request plus one.
Follow(step, s) ==
    IF step.done
    THEN /\ op' = [op EXCEPT ![Current] = [@ EXCEPT !.status = step.status, !.got = step.run.data]]
         /\ queue' = Tail(queue)
         /\ run' = NoRun /\ tx' = NoTx /\ seq' = s
         /\ UNCHANGED toServer
    ELSE LET t == [opcode |-> step.opcode, offset |-> step.offset, data |-> step.data,
                   expected |-> Plus(s, 1), highest |-> Plus(s, 1), attempts |-> 1, frames |-> {}]
         IN  /\ tx' = t /\ run' = step.run /\ seq' = Plus(s, 2)
             /\ toServer' = Append(toServer, Message(t))
             /\ UNCHANGED <<op, queue>>

\* A call of list, read, write or remove joins the queue.
Call(o, k, n) ==
    /\ op[o].status = "new"
    /\ op' = [op EXCEPT ![o] = [kind |-> k, length |-> n, status |-> "called", got |-> <<>>]]
    /\ queue' = Append(queue, o)
    /\ UNCHANGED <<aborted, run, tx, seq, disposed, server, toServer, toClient>>

\* The call at the head of the queue starts; it fails at once after dispose(),
\* or, having taken a pair of numbers, when its signal is aborted.
Start ==
    /\ Idle /\ queue # <<>>
    /\ IF disposed THEN Follow(End(NoRun, "failed"), seq)
       ELSE IF Current \in aborted THEN Follow(End(NoRun, "failed"), Plus(seq, 2))
       ELSE Follow(First(Current), seq)
    /\ UNCHANGED <<aborted, disposed, server, toClient>>

\* The transaction in flight ends without its reply.  A burst that got frames
\* before its timer is a part of the answer.
Fails(reason) ==
    Follow(IF tx.opcode = "burst"
           THEN BurstRefused(run, reason)
           ELSE After(Current, tx.opcode, reason, <<>>), Passed(tx))

Timer ==
    /\ ~Idle
    /\ IF tx.opcode = "burst" /\ tx.frames # {}
       THEN Follow(AfterBurst(run, tx.frames, FALSE), Passed(tx))
       ELSE IF tx.attempts > MaxRetries THEN Fails("timeout")
       ELSE /\ Len(toServer) < MaxFlight
            /\ tx' = [tx EXCEPT !.attempts = @ + 1]
            /\ toServer' = Append(toServer, Message(tx))
            /\ UNCHANGED <<op, queue, run, seq>>
    /\ UNCHANGED <<aborted, disposed, server, toClient>>

\* The host rejects the send: the transaction fails, whatever is in flight.
SendFails ==
    /\ ~Idle
    /\ Fails("send-failed")
    /\ UNCHANGED <<aborted, disposed, server, toClient>>

\* The signal of a call is aborted.  list() has no signal, and the terminating
\* transaction does not look at it.
Abort(o) ==
    /\ op[o].status = "called" /\ op[o].kind # "list" /\ o \notin aborted
    /\ aborted' = aborted \cup {o}
    /\ IF ~Idle /\ Current = o /\ tx.opcode # "end" THEN Fails("aborted")
       ELSE UNCHANGED <<op, queue, run, tx, seq, toServer>>
    /\ UNCHANGED <<disposed, server, toClient>>

\* dispose() ends the transaction in flight; a session is terminated all the
\* same, with no one to hear the answer.
Dispose ==
    /\ ~disposed
    /\ disposed' = TRUE
    /\ IF Idle THEN UNCHANGED <<op, queue, run, tx, seq, toServer>> ELSE Fails("aborted")
    /\ UNCHANGED <<aborted, server, toClient>>

\* Mutant: replies are told apart by their opcode alone.
MatchesOpcode(r) == ~disposed /\ ~Idle /\ r.opcode = tx.opcode

\* onReply: the reply must answer the opcode in flight and carry the number
\* awaited; a burst takes every number from there on.
Matches(r) ==
    /\ ~disposed /\ ~Idle
    /\ r.opcode = tx.opcode
    /\ IF tx.opcode = "burst" THEN SeqAtOrAfter(tx.expected, r.seq) ELSE r.seq = tx.expected

\* A frame of a burst is kept; the last one, or one without data, ends it.
BurstReply(r) ==
    LET t == [tx EXCEPT !.highest = IF SeqAfter(@, r.seq) THEN r.seq ELSE @,
                        !.frames = IF r.code = "ack"
                                   THEN @ \cup {[offset |-> r.offset, data |-> r.data]} ELSE @]
    IN  CASE r.code # "ack" -> Follow(BurstRefused(run, r.code), Passed(t))
          [] r.code = "ack" /\ (r.complete \/ r.data = <<>>) ->
                Follow(AfterBurst(run, t.frames, TRUE), Passed(t))
          [] OTHER -> tx' = t /\ UNCHANGED <<op, queue, run, seq, toServer>>

OnReply ==
    /\ toClient # <<>>
    /\ toClient' = Tail(toClient)
    /\ LET r == Head(toClient) IN
       IF ~Matches(r) THEN UNCHANGED <<op, queue, run, tx, seq, toServer>>
       ELSE IF tx.opcode = "burst" THEN BurstReply(r)
       ELSE Follow(After(Current, r.opcode, r.code, r.data), seq)
    /\ UNCHANGED <<aborted, disposed, server>>

-----------------------------------------------------------------------------
(* External: the server and the link.                                      *)

\* traits of a server: how it reports the end of the file in a burst, "flag" in
\* the last frame or "nak" by an EndOfFile of its own, or "none" if it knows no
\* burst; whether the frames of a burst count their numbers up; and whether it
\* tells the size of the file.
Reply(m, code, i, data, complete) ==
    [opcode |-> m.opcode, code |-> code, seq |-> Plus(m.expected, IF server.traits.counts THEN i ELSE 0),
     offset |-> m.offset + i * Chunk, data |-> data, complete |-> complete]
Bytes(offset) == SubSeq(server.file, offset + 1, Lesser(offset + Chunk, Len(server.file)))

\* The frames of a burst of at most MaxBurst frames.
Frames(m) ==
    LET size == Len(server.file)
        total == ((size - m.offset) + Chunk - 1) \div Chunk
        n == Lesser(MaxBurst, total)
        flagged == server.traits.burst = "flag" \/ n < total
        frame(i) == Reply(m, "ack", i - 1, Bytes(m.offset + (i - 1) * Chunk), flagged /\ i = n)
    IN  [i \in 1 .. n |-> frame(i)] \o (IF flagged THEN <<>> ELSE <<Reply(m, "eof", n, <<>>, TRUE)>>)

\* What the server answers to a request it can serve.
Served(m) ==
    LET one(code, data) == <<Reply(m, code, 0, data, FALSE)>>
        past == m.offset >= Len(server.file)
    IN  CASE m.opcode = "open" /\ server.exists ->
                one("ack", IF server.traits.tells THEN server.file ELSE <<>>)
          [] m.opcode = "list" -> IF m.offset >= Entries THEN one("eof", <<>>) ELSE one("ack", <<"entry">>)
          [] m.opcode = "burst" /\ server.traits.burst = "none" -> one("unknown", <<>>)
          [] m.opcode = "burst" /\ server.traits.burst # "none" -> IF past THEN one("eof", <<>>) ELSE Frames(m)
          [] m.opcode = "read" -> IF past THEN one("eof", <<>>) ELSE one("ack", Bytes(m.offset))
          [] m.opcode \in {"open", "remove"} /\ ~server.exists -> one("fail", <<>>)
          [] OTHER -> one("ack", <<>>)

\* The server carries a request out, or refuses it.
Serve ==
    /\ toServer # <<>>
    /\ toServer' = Tail(toServer)
    /\ LET m == Head(toServer) IN
       \/ /\ toClient' = toClient \o Served(m)
          /\ server' =
               CASE m.opcode = "create" -> [server EXCEPT !.exists = TRUE, !.file = <<>>]
                 [] m.opcode = "remove" -> [server EXCEPT !.exists = FALSE, !.file = <<>>]
                 [] m.opcode = "write" ->
                       [server EXCEPT !.file = SubSeq(@, 1, m.offset) \o m.data
                                               \o SubSeq(@, m.offset + Len(m.data) + 1, Len(@))]
                 [] OTHER -> server
       \/ /\ toClient' = Append(toClient, Reply(m, "fail", 0, <<>>, FALSE))
          /\ UNCHANGED server
    /\ UNCHANGED <<op, queue, aborted, run, tx, seq, disposed>>

LoseRequest ==
    /\ toServer # <<>> /\ toServer' = Tail(toServer)
    /\ UNCHANGED <<op, queue, aborted, run, tx, seq, disposed, server, toClient>>
LoseReply ==
    /\ toClient # <<>> /\ toClient' = Tail(toClient)
    /\ UNCHANGED <<op, queue, aborted, run, tx, seq, disposed, server, toServer>>

-----------------------------------------------------------------------------
TypeOK ==
    /\ op \in [Ops -> [kind : Kinds \cup {"none"}, length : Sizes \cup {0},
                       status : {"new", "called", "done", "failed"},
                       got : Contents \cup Seq({"old", "new", "entry"})]]
    /\ queue \in Seq(Ops) /\ aborted \subseteq Ops
    /\ tx.opcode \in Opcodes \cup {"none"} /\ tx.attempts \in 0 .. MaxRetries + 1
    /\ tx # NoTx => queue # <<>> /\ tx.expected \in 0 .. SeqRange - 1
    /\ seq \in 0 .. SeqRange - 1
    /\ run.outcome # "none" => tx.opcode = "end"
    /\ run.data # <<>> => Len(run.data) = run.offset

\* A read that resolves gives the bytes of the file from its start on, without
\* gap, repetition or another file's bytes, and all of them if the server ends
\* its bursts with a flag.
Resolves(o, k) == op[o].kind = k /\ op[o].status = "called" /\ op'[o].status = "done"
ReadStep ==
    \A o \in Ops : Resolves(o, "read") =>
        /\ op'[o].got = SubSeq(server.file, 1, Len(op'[o].got))
        /\ server.traits.burst # "nak" => op'[o].got = server.file

\* A write, a removal or a list that resolves is what the server holds.
DoneStep ==
    \A o \in Ops :
        /\ Resolves(o, "write") => server.exists /\ server.file = [i \in 1 .. op[o].length |-> "new"]
        /\ Resolves(o, "remove") => ~server.exists
        /\ Resolves(o, "list") => Len(op'[o].got) = Entries

Next ==
    \/ \E o \in Ops, k \in Kinds, n \in Sizes \cup {0} : (k # "write" <=> n = 0) /\ Call(o, k, n)
    \/ Start \/ Timer \/ SendFails \/ OnReply \/ Dispose
    \/ \E o \in Ops : Abort(o)
    \/ Serve \/ LoseRequest \/ LoseReply

Spec == Init /\ [][Next]_vars

\* Promises go on, the link delivers or loses, and a timer fires when nothing is under
\* way any more; as long as something is, it may be set again and again.
Fairness ==
    /\ WF_vars(Start) /\ WF_vars(Serve \/ LoseRequest) /\ WF_vars(OnReply \/ LoseReply)
    /\ WF_vars(Timer /\ toServer = <<>> /\ toClient = <<>>)

\* Every call of an operation ends.
EveryCallEnds == \A o \in Ops : (op[o].status = "called") ~> (op[o].status \in {"done", "failed"})
=============================================================================
