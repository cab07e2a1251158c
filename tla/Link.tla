-------------------------------- MODULE Link --------------------------------
(***************************************************************************)
(* The life of a MAVLink link: the connection drawer and ConnectionManager *)
(* drive MavlinkHost on the main thread; the host owns the transport and   *)
(* relays bytes to and from the worker over PostMessageRpc, one FIFO       *)
(* channel each way; the worker holds the session and the outgoing sink.   *)
(*                                                                         *)
(* connect() and disconnect() are asynchronous: `at' is the await they     *)
(* stand at, and everything else runs in between.  What JavaScript runs    *)
(* without returning to its event loop is one action.                      *)
(*                                                                         *)
(* A transport is a number, in order of creation; the vehicles heard       *)
(* through it, the RPC streams and the frames of its time carry that       *)
(* number.  Kinds: "serial", "websocket" and "replay".                     *)
(***************************************************************************)
EXTENDS Naturals, Sequences, FiniteSets

CONSTANTS
    Kinds,          \* the kinds of transport the operator may choose
    MaxTransports,  \* bound: transports created
    MaxSends,       \* bound: sendMessage() calls of the microservices
    MaxQueue        \* bound: messages to the main thread and unfinished writes when a timer adds one

ASSUME LinkAssumption ==
    /\ Kinds \subseteq {"serial", "websocket", "replay"}
    /\ MaxTransports \in Nat \ {0} /\ MaxSends \in Nat /\ MaxQueue \in Nat \ {0}

VARIABLES
    busy,       \* the drawer's handler in progress: "no", "connect" or "disconnect"
    ui,         \* the manager: state shown, vehicle rows, default stream request
    at,         \* where the operator's call and dispose() stand
    held,       \* disconnect()'s local copy of the transport
    host,       \* the fields of MavlinkHost
    link,       \* the transports
    worker,     \* the fields of the worker
    toWorker, toMain,   \* the two directions of the RPC channel
    sends,      \* sendMessage() calls of the microservices so far
    placed      \* history: transports a message was asked for and put on

vars == <<busy, ui, at, held, host, link, worker, toWorker, toMain, sends, placed>>

Transports == 1 .. MaxTransports
Nobody == 0
Processes == {"operator", "dispose"}
ConnStates == {"closed", "opening", "open", "reconnecting", "error"}

\* Request, stream and answer envelopes, with the transport they belong to.
Requests == {"reset", "ingest", "send", "defaults", "telemetry", "outgoing",
             "cancel telemetry", "cancel outgoing"}
Answers == {"reset", "ingested", "refused", "sent", "snapshot", "frame"}

UiRecords ==
    [shown : ConnStates, rows : SUBSET Transports, defaults : {"none", "asked", "sent", "refused"}]
HostRecords ==
    [transport : Transports \cup {Nobody}, streams : Transports \cup {Nobody},
     reader : Transports \cup {Nobody}, pumping : BOOLEAN,
     writer : Transports \cup {Nobody}, closing : BOOLEAN, chain : Nat,
     orphan : Transports \cup {Nobody}]    \* history: what connect() created after dispose() had begun
LinkRecords ==
    [kind : Kinds \cup {"none"}, state : ConnStates, up : BOOLEAN,
     tx : {"flowing", "room", "stuck"}, unread : BOOLEAN]
WorkerRecords ==
    [sink : Transports \cup {Nobody}, beating : SUBSET Transports, ticking : SUBSET Transports,
     stale : SUBSET Transports, heard : SUBSET Transports]
RequestRecords == [m : Requests, of : Transports \cup {Nobody}]
AnswerRecords == [m : Answers, of : Transports \cup {Nobody}, heard : SUBSET Transports]

TypeOK ==
    /\ busy \in {"no", "connect", "disconnect"}
    /\ ui \in UiRecords
    /\ at \in [Processes -> {"idle", "reset", "open", "writer", "transport", "done"}]
    /\ held \in [Processes -> Transports \cup {Nobody}]
    /\ host \in HostRecords
    /\ link \in [Transports -> LinkRecords]
    /\ worker \in WorkerRecords
    /\ toWorker \in Seq(RequestRecords) /\ toMain \in Seq(AnswerRecords)
    /\ sends \in 0 .. MaxSends
    /\ placed \subseteq (Transports \cup {Nobody}) \X Transports

NoSession == [sink |-> Nobody, beating |-> {}, ticking |-> {}, stale |-> {}, heard |-> {}]

Init ==
    /\ busy = "no"
    /\ ui = [shown |-> "closed", rows |-> {}, defaults |-> "none"]
    /\ at = [p \in Processes |-> "idle"]
    /\ held = [p \in Processes |-> Nobody]
    /\ host = [transport |-> Nobody, streams |-> Nobody, reader |-> Nobody,
               pumping |-> FALSE, writer |-> Nobody, closing |-> FALSE, chain |-> 0,
               orphan |-> Nobody]
    /\ link = [t \in Transports |->
                  [kind |-> "none", state |-> "closed", up |-> FALSE,
                   tx |-> "flowing", unread |-> FALSE]]
    /\ worker = NoSession
    /\ toWorker = <<>> /\ toMain = <<>>
    /\ sends = 0 /\ placed = {}

Request(m, t) == <<[m |-> m, of |-> t]>>
Answer(m, t) == <<[m |-> m, of |-> t, heard |-> {}]>>
Created == {t \in Transports : link[t].kind # "none"}
Disposed == at["dispose"] # "idle"

-----------------------------------------------------------------------------
(* The manager.                                                            *)

\* onHostState(s) of record u, which the manager has unsubscribed in dispose().
\* The first "open" of a session asks for the default stream set.
Shows(u, s) ==
    IF Disposed THEN u
    ELSE CASE s = "closed" -> [u EXCEPT !.shown = s, !.rows = {}, !.defaults = "none"]
           [] s = "open" /\ u.defaults = "none" ->
                 [u EXCEPT !.shown = s, !.defaults = "asked"]
           [] OTHER -> [u EXCEPT !.shown = s]

\* The message that requestDefaultSet sends when state s is shown.
Defaults(s, t) ==
    IF s = "open" /\ ui.defaults = "none" /\ ~Disposed THEN Request("defaults", t) ELSE <<>>

\* A state of transport t reaches the manager while the host is subscribed to it.
Emit(t, s) ==
    IF t = host.transport
    THEN ui' = Shows(ui, s) /\ toWorker' = toWorker \o Defaults(s, t)
    ELSE UNCHANGED <<ui, toWorker>>

-----------------------------------------------------------------------------
(* MavlinkHost.disconnect(), run by the operator's call or by dispose().   *)

\* Both RPC streams are aborted: their envelopes are dropped from now on, and
\* the worker is told.
Cancels ==
    IF host.streams = Nobody THEN <<>>
    ELSE Request("cancel telemetry", host.streams) \o Request("cancel outgoing", host.streams)

\* Cancelling the reader closes a websocket or replay transport at once.
ClosedByCancel == {t \in {host.reader} \cap Transports : link[t].kind # "serial"}

ClosedLink(t) ==
    [link[t] EXCEPT !.state = "closed", !.up = FALSE, !.unread = FALSE,
                    !.tx = IF link[t].kind = "serial" /\ @ = "flowing" THEN "room" ELSE @]
LinkWithout(S) == [t \in Transports |-> IF t \in S THEN ClosedLink(t) ELSE link[t]]

\* The transport t that connect() continues with, of the kind the operator
\* chose: its state is reported on subscription, then "opening", and the worker
\* is asked to forget the last link.  connect() has looked at `disposed' before it
\* left the earlier transport and does not look again; once dispose() has ended
\* the request goes nowhere.
Create(h, u, w, l) ==
    \E t \in Transports \ Created, k \in Kinds :
        /\ \A s \in Transports \ Created : t <= s
        /\ link' = [l EXCEPT ![t].kind = k]
        /\ host' = [h EXCEPT !.transport = t, !.orphan = IF Disposed THEN t ELSE @]
        /\ ui' = Shows(Shows(u, "closed"), "opening")
        /\ at' = [at EXCEPT !["operator"] = "reset"]
        /\ held' = [held EXCEPT !["operator"] = t]
        /\ toWorker' = w \o (IF at["dispose"] = "done" THEN <<>> ELSE Request("reset", t))
        /\ busy' = "connect"
        /\ UNCHANGED <<worker, toMain>>

\* Mutant: the pending call is not rejected.
DropChannelKeepsCall(h, l) ==
    /\ at' = [at EXCEPT !["dispose"] = "done"]
    /\ toWorker' = <<>> /\ toMain' = <<>>
    /\ worker' = NoSession
    /\ host' = h /\ link' = l
    /\ UNCHANGED <<ui, held, busy>>

\* rpc.dispose() rejects a connect() that awaits an answer, which closes its
\* transport again; the worker is gone.
DropChannel(h, l) ==
    LET rejected == at["operator"] = "reset" IN
    /\ at' = [at EXCEPT !["dispose"] = "done",
                        !["operator"] = IF rejected THEN "idle" ELSE @]
    /\ busy' = IF rejected THEN "no" ELSE busy
    /\ toWorker' = <<>> /\ toMain' = <<>>
    /\ worker' = NoSession
    /\ host' = IF rejected THEN [h EXCEPT !.transport = Nobody] ELSE h
    /\ link' = l
    /\ UNCHANGED <<ui, held>>

\* The end of disconnect(): "closed" is shown, connect() or dispose() goes on.
Finish(p, doing, h, u, w, l) ==
    CASE p = "operator" /\ doing = "connect" -> Create(h, u, w, l)
      [] p = "operator" /\ doing = "disconnect" ->
            /\ ui' = Shows(u, "closed")
            /\ at' = [at EXCEPT ![p] = "idle"] /\ busy' = "no"
            /\ host' = h /\ link' = l /\ toWorker' = w
            /\ UNCHANGED <<held, worker, toMain>>
      [] p = "dispose" -> DropChannel(h, l)

\* After the writer: the host lets go of its transport and closes it.  Only an
\* open serial port makes it wait.
LetGo(p, doing, h, u, w, l) ==
    LET t == host.transport
        gone == [h EXCEPT !.transport = Nobody]
    IN  IF t # Nobody /\ link[t].kind = "serial" /\ link[t].up
        THEN /\ at' = [at EXCEPT ![p] = "transport"] /\ held' = [held EXCEPT ![p] = t]
             /\ host' = gone /\ ui' = u /\ toWorker' = w /\ link' = l
             /\ busy' = doing
             /\ UNCHANGED <<worker, toMain>>
        ELSE Finish(p, doing, gone, u, w,
                    IF t = Nobody THEN l ELSE [l EXCEPT ![t] = ClosedLink(t)])

\* Up to the await of writer.close(), on which a second caller does not wait.
StartDisconnect(p, doing) ==
    LET h == [host EXCEPT !.streams = Nobody, !.reader = Nobody, !.pumping = FALSE]
        u == IF p = "dispose" \/ ClosedByCancel = {} THEN ui ELSE Shows(ui, "closed")
        w == toWorker \o Cancels
        l == LinkWithout(ClosedByCancel)
    IN  IF host.writer # Nobody /\ ~host.closing
        THEN /\ at' = [at EXCEPT ![p] = "writer"]
             /\ host' = [h EXCEPT !.closing = TRUE]
             /\ ui' = u /\ toWorker' = w /\ link' = l
             /\ busy' = doing
             /\ UNCHANGED <<held, worker, toMain>>
        ELSE LetGo(p, doing, h, u, w, l)

\* writer.close() resolves once the writes before it are done.
WriterClosed(p) ==
    /\ at[p] = "writer" /\ host.chain = 0
    /\ LetGo(p, busy, [host EXCEPT !.writer = Nobody, !.closing = FALSE], ui, toWorker, link)
    /\ UNCHANGED <<sends, placed>>

\* transport.close() of a serial port resolves.
PortClosed(p) ==
    /\ at[p] = "transport"
    /\ Finish(p, busy, host, ui, toWorker, LinkWithout({held[p]}))
    /\ UNCHANGED <<sends, placed>>

-----------------------------------------------------------------------------
(* The drawer's buttons, and the unmounting of the provider.               *)

Connected == ui.shown \in {"open", "opening", "reconnecting"}

\* Mutant: a transport left behind by an error is forgotten.
ConnectOverOld ==
    /\ busy = "no" /\ ~Connected /\ ~Disposed /\ Created # Transports
    /\ Create(host, ui, toWorker, link)
    /\ UNCHANGED <<sends, placed>>

\* Connect: an error or a finished replay may have left a transport behind.
Connect ==
    /\ busy = "no" /\ ~Connected /\ ~Disposed /\ Created # Transports
    /\ IF host.transport = Nobody THEN Create(host, ui, toWorker, link)
       ELSE StartDisconnect("operator", "connect")
    /\ UNCHANGED <<sends, placed>>

Disconnect ==
    /\ busy = "no" /\ Connected /\ ~Disposed
    /\ StartDisconnect("operator", "disconnect")
    /\ UNCHANGED <<sends, placed>>

\* It comes wherever connect() and disconnect() stand.
Dispose ==
    /\ ~Disposed
    /\ StartDisconnect("dispose", busy)
    /\ UNCHANGED <<sends, placed>>

\* A microservice sends a message, whatever the state of the link.
Send ==
    /\ sends < MaxSends /\ sends' = sends + 1
    /\ ~Disposed
    /\ toWorker' = toWorker \o Request("send", host.transport)
    /\ UNCHANGED <<busy, ui, at, held, host, link, worker, toMain, placed>>

-----------------------------------------------------------------------------
(* connect(), while it waits for transport.open().                         *)

Opening(t) == at["operator"] = "open" /\ t = held["operator"]

\* Mutant: it opens although it was closed meanwhile.
OpenedAfterClose(t) ==
    /\ Opening(t)
    /\ link' = [link EXCEPT ![t].state = "open", ![t].up = TRUE]
    /\ at' = [at EXCEPT !["operator"] = "idle"] /\ busy' = "no"
    /\ UNCHANGED <<ui, held, host, worker, toWorker, toMain, sends, placed>>

\* The transport opens, unless it was closed meanwhile: the manager is shown
\* "open" first, then the telemetry and outgoing streams are requested and the
\* reader is started.
Opened(t) ==
    /\ Opening(t) /\ link[t].state = "opening"
    /\ link' = [link EXCEPT ![t].state = "open", ![t].up = TRUE]
    /\ ui' = IF t = host.transport THEN Shows(ui, "open") ELSE ui
    /\ toWorker' = IF at["dispose"] = "done" THEN toWorker
                   ELSE toWorker \o Defaults("open", t)
                            \o Request("telemetry", t) \o Request("outgoing", t)
    /\ host' = [host EXCEPT !.streams = t, !.reader = t, !.writer = t, !.closing = FALSE]
    /\ at' = [at EXCEPT !["operator"] = "idle"] /\ busy' = "no"
    /\ UNCHANGED <<held, worker, toMain, sends, placed>>

\* Mutant: the failure is not shown.
OpenFailsSilently(t) ==
    /\ Opening(t)
    /\ link' = [link EXCEPT ![t] = ClosedLink(t)]
    /\ host' = [host EXCEPT !.transport = Nobody]
    /\ at' = [at EXCEPT !["operator"] = "idle"] /\ busy' = "no"
    /\ UNCHANGED <<ui, held, worker, toWorker, toMain, sends, placed>>

\* It does not open, or was closed meanwhile.
OpenFails(t) ==
    /\ Opening(t)
    /\ link' = [link EXCEPT ![t] = ClosedLink(t)]
    /\ ui' = Shows(ui, "error")
    /\ host' = [host EXCEPT !.transport = Nobody]
    /\ at' = [at EXCEPT !["operator"] = "idle"] /\ busy' = "no"
    /\ UNCHANGED <<held, worker, toWorker, toMain, sends, placed>>

-----------------------------------------------------------------------------
(* The worker.                                                             *)

\* The streams of transport t start and stop; the stop function of an outgoing
\* stream detaches its own sink only.
Attached(t) == [worker EXCEPT !.beating = @ \cup {t}, !.sink = t]
\* Mutant: the sink stays attached.
DetachedKeepsSink(t) == [worker EXCEPT !.beating = @ \ {t}]
Detached(t) == [worker EXCEPT !.beating = @ \ {t}, !.sink = IF @ = t THEN Nobody ELSE @]

\* Mutant: the vehicles of the last link are kept.
ForgottenNothing == [worker EXCEPT !.stale = worker.ticking]
\* session.reset(): the vehicles heard are forgotten, which the next snapshot tells.
Forgotten == [worker EXCEPT !.heard = {}, !.stale = worker.ticking]

\* The worker after request r.
WorkerAfter(r) ==
    CASE r.m = "reset" -> Forgotten
      [] r.m = "ingest" -> [worker EXCEPT !.heard = @ \cup {r.of}, !.stale = worker.ticking]
      [] r.m = "telemetry" -> [worker EXCEPT !.ticking = @ \cup {r.of}, !.stale = @ \cup {r.of}]
      [] r.m = "outgoing" -> Attached(r.of)
      [] r.m = "cancel telemetry" ->
            [worker EXCEPT !.ticking = @ \ {r.of}, !.stale = @ \ {r.of}]
      [] r.m = "cancel outgoing" -> Detached(r.of)
      [] OTHER -> worker

\* What it answers: a message is put on the outgoing stream, if one is attached.
Answered(r) ==
    CASE r.m = "reset" -> Answer("reset", r.of)
      [] r.m = "ingest" -> Answer("ingested", r.of)
      [] r.m \in {"send", "defaults"} /\ worker.sink # Nobody ->
            Answer("frame", worker.sink)
              \o (IF r.m = "defaults" THEN Answer("sent", r.of) ELSE <<>>)
      [] r.m = "defaults" /\ worker.sink = Nobody -> Answer("refused", r.of)
      [] OTHER -> <<>>

WorkerReceives ==
    /\ toWorker # <<>> /\ toWorker' = Tail(toWorker)
    /\ LET r == Head(toWorker) IN
           /\ worker' = WorkerAfter(r)
           /\ toMain' = toMain \o Answered(r)
           /\ placed' = IF r.m \in {"send", "defaults"} /\ worker.sink # Nobody
                        THEN placed \cup {<<r.of, worker.sink>>} ELSE placed
    /\ UNCHANGED <<busy, ui, at, held, host, link, sends>>

\* The heartbeat timer of an outgoing stream.
Beat(t) ==
    /\ t \in worker.beating /\ Len(toMain) + host.chain < MaxQueue
    /\ toMain' = toMain \o Answer("frame", t)
    /\ UNCHANGED <<busy, ui, at, held, host, link, worker, toWorker, sends, placed>>

\* The timer of a telemetry stream, after a change.
Snapshot(t) ==
    /\ t \in worker.ticking \cap worker.stale /\ Len(toMain) < MaxQueue
    /\ toMain' = Append(toMain, [m |-> "snapshot", of |-> t, heard |-> worker.heard])
    /\ worker' = [worker EXCEPT !.stale = @ \ {t}]
    /\ UNCHANGED <<busy, ui, at, held, host, link, toWorker, sends, placed>>

-----------------------------------------------------------------------------
(* The main thread receives.                                               *)

\* rpc.call(RPC_RESET) resolves and connect() opens the transport.
OnReset(r) ==
    /\ at["operator"] = "reset" /\ r.of = held["operator"]
    /\ at' = [at EXCEPT !["operator"] = "open"]
    /\ link' = [link EXCEPT ![r.of].state = "opening"]
    /\ UNCHANGED <<ui, host>>

\* A stream envelope counts only while its stream is not aborted.
OnStream(r) ==
    /\ IF r.m = "snapshot" /\ r.of = host.streams /\ ~Disposed
       THEN ui' = [ui EXCEPT !.rows = r.heard] ELSE UNCHANGED ui
    /\ IF r.m = "frame" /\ r.of = host.streams
       THEN host' = [host EXCEPT !.chain = @ + 1] ELSE UNCHANGED host
    /\ UNCHANGED <<at, link>>

OnDefaults(r) ==
    /\ ui' = IF ui.defaults = "asked" /\ r.of = host.transport
             THEN [ui EXCEPT !.defaults = r.m] ELSE ui
    /\ UNCHANGED <<at, host, link>>

\* The inbound pump may read on.
OnIngested(r) ==
    /\ host' = IF r.of = host.reader THEN [host EXCEPT !.pumping = FALSE] ELSE host
    /\ UNCHANGED <<ui, at, link>>

MainReceives ==
    /\ toMain # <<>> /\ toMain' = Tail(toMain)
    /\ LET r == Head(toMain) IN
           \/ r.m = "reset" /\ OnReset(r)
           \/ r.m \in {"snapshot", "frame"} /\ OnStream(r)
           \/ r.m \in {"sent", "refused"} /\ OnDefaults(r)
           \/ r.m = "ingested" /\ OnIngested(r)
    /\ UNCHANGED <<busy, held, worker, toWorker, sends, placed>>

-----------------------------------------------------------------------------
(* The byte relays and the transports.                                     *)

\* pumpInbound hands one chunk at a time to the worker.
Pump(t) ==
    /\ t = host.reader /\ ~host.pumping /\ link[t].unread
    /\ host' = [host EXCEPT !.pumping = TRUE]
    /\ link' = [link EXCEPT ![t].unread = FALSE]
    /\ toWorker' = IF at["dispose"] = "done" THEN toWorker ELSE toWorker \o Request("ingest", t)
    /\ UNCHANGED <<busy, ui, at, held, worker, toMain, sends, placed>>

\* Mutant: a write nobody queued is counted.
WriteDoneUnqueued(t) ==
    /\ t = host.writer /\ link[t].tx # "stuck"
    /\ host' = [host EXCEPT !.chain = @ - 1]
    /\ UNCHANGED <<busy, ui, at, held, link, worker, toWorker, toMain, sends, placed>>

\* The first write of the chain is accepted.  Once writer.close() was called the
\* writes after it are rejected, which shows an error.  A serial port whose
\* outgoing pipe has stopped takes one more frame into the TransformStream.
WriteDone(t) ==
    /\ t = host.writer /\ host.chain > 0 /\ link[t].tx # "stuck"
    /\ link' = [link EXCEPT ![t].tx = IF @ = "room" THEN "stuck" ELSE @]
    /\ host' = [host EXCEPT !.chain = IF host.closing THEN 0 ELSE @ - 1]
    /\ ui' = IF host.closing /\ host.chain > 1 /\ host.transport # Nobody
             THEN Shows(ui, "error") ELSE ui
    /\ UNCHANGED <<busy, at, held, worker, toWorker, toMain, sends, placed>>

\* A transport changes state on its own.
Changes(t, record) ==
    /\ link' = [link EXCEPT ![t] = record]
    /\ Emit(t, record.state)
    /\ UNCHANGED <<busy, at, held, host, worker, toMain, sends, placed>>

Chunk(t) ==
    /\ link[t].up /\ ~link[t].unread
    /\ link' = [link EXCEPT ![t].unread = TRUE]
    /\ UNCHANGED <<busy, ui, at, held, host, worker, toWorker, toMain, sends, placed>>

\* websocket: an error event comes before the close event; the socket drops, and
\* a later attempt succeeds.
SocketError(t) ==
    /\ link[t].kind = "websocket" /\ link[t].state \in {"opening", "open"}
    /\ Changes(t, [link[t] EXCEPT !.state = "error"])
Drop(t) ==
    /\ link[t].kind = "websocket" /\ link[t].up
    /\ Changes(t, [link[t] EXCEPT !.state = "reconnecting", !.up = FALSE])
Reconnect(t) ==
    /\ link[t].kind = "websocket" /\ link[t].state = "reconnecting"
    /\ Changes(t, [link[t] EXCEPT !.state = "open", !.up = TRUE])

\* The outgoing side when its pipe has stopped, as it was waiting for a frame or not.
Stopped(t) == IF link[t].tx = "flowing" THEN {"room", "stuck"} ELSE {link[t].tx}

\* serial: a pipe fails, or the port is unplugged.
PipeError(t) ==
    /\ link[t].kind = "serial" /\ link[t].up
    /\ \E tx \in {link[t].tx} \cup Stopped(t) :
          Changes(t, [link[t] EXCEPT !.state = "error", !.tx = tx])
Unplug(t) ==
    /\ link[t].kind = "serial" /\ link[t].up
    /\ \E tx \in Stopped(t) :
          Changes(t, [link[t] EXCEPT !.state = "error", !.up = FALSE, !.tx = tx])

\* replay: the log ends.
End(t) ==
    /\ link[t].kind = "replay" /\ link[t].state = "open"
    /\ Changes(t, [link[t] EXCEPT !.state = "closed", !.up = FALSE])

-----------------------------------------------------------------------------

Operator == Connect \/ Disconnect \/ Dispose \/ Send
Calls == \E p \in Processes : WriterClosed(p) \/ PortClosed(p)
Worker == WorkerReceives \/ \E t \in Transports : Beat(t) \/ Snapshot(t)
Transport ==
    \E t \in Transports :
        \/ Opened(t) \/ OpenFails(t)
        \/ Pump(t) \/ WriteDone(t) \/ Chunk(t)
        \/ SocketError(t) \/ Drop(t) \/ Reconnect(t) \/ PipeError(t) \/ Unplug(t) \/ End(t)

Next == Operator \/ Calls \/ Worker \/ MainReceives \/ Transport

Spec == Init /\ [][Next]_vars

\* Both event loops turn; a write that can be accepted is, transport.open()
\* and transport.close() come to an end.
Fairness ==
    /\ WF_vars(WorkerReceives) /\ WF_vars(MainReceives)
    /\ \A p \in Processes : WF_vars(WriterClosed(p)) /\ WF_vars(PortClosed(p))
    /\ \A t \in Transports : WF_vars(WriteDone(t)) /\ WF_vars(Opened(t) \/ OpenFails(t))

FairSpec == Spec /\ Fairness

-----------------------------------------------------------------------------
(* Properties.                                                             *)

\* The vehicles listed were heard through the transport the host holds: nothing
\* of an earlier link survives the reset, or arrives late (connect, abort of the
\* telemetry stream, RPC_RESET).
RowsAreOfThisLink ==
    Disposed \/ at["operator"] \in {"writer", "transport"} \/ ui.rows \subseteq {host.transport}

\* A message is put on the link it was asked for on, never on an earlier or a
\* later one (outgoingSend, the cancel of RPC_OUTGOING).
SentOnThisLink == \A s \in placed : s[1] = s[2]

\* Two devices are never open at once, and no device is left open by a call that
\* has ended (connect, disconnect).  A device that connect() opens after dispose()
\* has begun is not counted.
OneOpenDevice ==
    LET open == {t \in Transports \ {host.orphan} : link[t].up} IN
    /\ Cardinality(open) <= 1
    /\ busy = "no" /\ ~Disposed => open \subseteq {host.transport}

\* dispose() leaves no device open, also when a connect() was asking the worker or
\* opening its port.  It does leave one open when connect() was still leaving an
\* earlier link: connect() then goes on and opens another (the orphan).
NothingOpenAfterDispose ==
    at["dispose"] = "done" /\ busy = "no" => \A t \in Transports \ {host.orphan} : ~link[t].up

\* One device is open at a time, and none after dispose(), but for the one that a
\* connect() goes on to when dispose() found it leaving an earlier link.
DevicesAreLetGo == OneOpenDevice /\ NothingOpenAfterDispose

\* Between calls the state shown to the operator is that of the transport.
ShownIsTheLinkState ==
    busy = "no" /\ ~Disposed =>
        IF host.transport # Nobody THEN ui.shown = link[host.transport].state
        ELSE ui.shown \in {"closed", "error"}

\* What is shown is true: the rows are of this link, the state is the link's.
ShownIsTrue == RowsAreOfThisLink /\ ShownIsTheLinkState

\* The writable of a serial port that takes no more frames.
Stuck == host.writer # Nobody /\ host.chain > 0 /\ link[host.writer].tx = "stuck"

\* A connect() that dispose() found leaving an earlier link, and that has asked the
\* worker after rpc.dispose(): nobody answers or rejects it.
Unheard == at["operator"] = "reset" /\ at["dispose"] = "done" /\ host.orphan # Nobody

\* connect() and disconnect() come to an end, also when the provider unmounts
\* while they ask the worker, open the port or close it (host.ts), but for two
\* cases: the writable of a failed serial port is stuck, and a connect() unheard.
CallsEndUnlessStuck == busy # "no" ~> busy = "no" \/ Stuck \/ Unheard

\* connect() and disconnect() come to an end (host.ts: "Safe to call when not
\* connected", and the operator can always connect again).
CallsEnd == busy # "no" ~> busy = "no"

\* An open link has asked its vehicle for the default message set.
DefaultSetIsRequested ==
    host.streams # Nobody /\ ui.shown = "open" /\ toWorker = <<>> /\ toMain = <<>>
        => ui.defaults = "sent"
=============================================================================
