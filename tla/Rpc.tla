-------------------------------- MODULE Rpc --------------------------------
(***************************************************************************)
(* src/src/core/bus/rpc.ts: calls and streams between the page and the     *)
(* worker over a message port that keeps their order.                      *)
(***************************************************************************)
EXTENDS Naturals, Sequences, FiniteSets

CONSTANTS
    Ids,        \* requests, in the order of their ids
    MaxMsgs,    \* messages a stream handler sends (bound)
    Streams     \* the requests that are streams

VARIABLES
    call,       \* per request: "none", "pending" (calls or streams holds it), "done", "failed", "aborted", "disposed"
    handler,    \* per request at the peer: "none", "running" (inbound holds it), "aborted" (still
                \* runs), "over", "lost" (over, and nobody is told)
    sent,       \* messages its handler has sent
    heard,      \* the messages onMsg got
    toPeer, toCaller,        \* envelopes on the way
    disposed    \* the sides that are disposed

vars == <<call, handler, sent, heard, toPeer, toCaller, disposed>>

Envelope == [t : {"req", "cancel", "res", "msg", "end", "err"}, id : Ids, n : 0..MaxMsgs]
Env(t, id) == [t |-> t, id |-> id, n |-> 0]

TypeOK ==
    /\ call \in [Ids -> {"none", "pending", "done", "failed", "aborted", "disposed"}]
    /\ handler \in [Ids -> {"none", "running", "aborted", "over", "lost"}]
    /\ sent \in [Ids -> 0..MaxMsgs] /\ heard \in [Ids -> Seq(1..MaxMsgs)]
    /\ toPeer \in Seq(Envelope) /\ toCaller \in Seq(Envelope)
    /\ disposed \subseteq {"caller", "peer"}

Init ==
    /\ call = [i \in Ids |-> "none"] /\ handler = [i \in Ids |-> "none"]
    /\ sent = [i \in Ids |-> 0] /\ heard = [i \in Ids |-> <<>>]
    /\ toPeer = <<>> /\ toCaller = <<>> /\ disposed = {}

\* A disposed side posts nothing.
Post(side, queue, envelope) == IF side \in disposed THEN queue ELSE Append(queue, envelope)

-----------------------------------------------------------------------------
\* call() and stream(). The request may not be cloneable: the call fails at once.
\* A request of a side that is disposed is registered and never posted.
Call(i) ==
    /\ call[i] = "none" /\ \A j \in Ids : j < i => call[j] # "none"
    /\ \/ call' = [call EXCEPT ![i] = "pending"] /\ toPeer' = Post("caller", toPeer, Env("req", i))
       \/ "caller" \notin disposed /\ call' = [call EXCEPT ![i] = "failed"] /\ UNCHANGED toPeer
    /\ UNCHANGED <<handler, sent, heard, toCaller, disposed>>

\* The signal of the caller fires.
Abort(i) ==
    /\ call[i] = "pending" /\ call' = [call EXCEPT ![i] = "aborted"]
    /\ toPeer' = Post("caller", toPeer, Env("cancel", i))
    /\ UNCHANGED <<handler, sent, heard, toCaller, disposed>>

DisposeCaller ==
    /\ "caller" \notin disposed /\ disposed' = disposed \cup {"caller"}
    /\ call' = [i \in Ids |-> IF call[i] = "pending" THEN "disposed" ELSE call[i]]
    /\ UNCHANGED <<handler, sent, heard, toPeer, toCaller>>
DisposePeer ==
    /\ "peer" \notin disposed /\ disposed' = disposed \cup {"peer"}
    /\ handler' = [i \in Ids |-> IF handler[i] = "running" THEN "aborted" ELSE handler[i]]
    /\ UNCHANGED <<call, sent, heard, toPeer, toCaller>>

-----------------------------------------------------------------------------
\* Mutant: the handler is not told.
CancelUnheard(h) == h
\* onCancel: the handler is told, and still runs.
Cancelled(h) == IF h = "running" THEN "aborted" ELSE h

\* onRequest and onCancel. A method without a handler fails at once; what a handler throws
\* before it has returned its promise is not caught, and no answer is sent.
OnPeer ==
    /\ toPeer # <<>> /\ toPeer' = Tail(toPeer)
    /\ LET m == Head(toPeer) IN
       IF "peer" \in disposed THEN UNCHANGED <<handler, toCaller>>
       ELSE CASE m.t = "req" ->
                   \/ handler' = [handler EXCEPT ![m.id] = "running"] /\ UNCHANGED toCaller
                   \/ /\ handler' = [handler EXCEPT ![m.id] = "over"]
                      /\ toCaller' = Append(toCaller, Env("err", m.id))
                   \/ handler' = [handler EXCEPT ![m.id] = "lost"] /\ UNCHANGED toCaller
              [] m.t = "cancel" ->
                   /\ handler' = [handler EXCEPT ![m.id] = Cancelled(@)]
                   /\ UNCHANGED toCaller
    /\ UNCHANGED <<call, sent, heard, disposed>>

\* A handler sends a message, which a caller that has cancelled does not get.
Send(i) ==
    /\ i \in Streams /\ handler[i] \in {"running", "aborted"} /\ sent[i] < MaxMsgs
    /\ sent' = [sent EXCEPT ![i] = @ + 1]
    /\ toCaller' = IF handler[i] = "aborted" THEN toCaller
                   ELSE Post("peer", toCaller, [t |-> "msg", id |-> i, n |-> sent[i] + 1])
    /\ UNCHANGED <<call, handler, heard, toPeer, disposed>>

\* A handler ends, and answers unless it was cancelled. Posting the answer may throw (a
\* result that cannot be cloned, an endpoint that is dead), and nobody catches that.
Answers == {"ok", "err"}
AnswerIsEnd(i, a) == IF a = "err" THEN "err" ELSE IF i \in Streams THEN "end" ELSE "res"
Finish(i, a) ==
    /\ handler[i] \in {"running", "aborted"}
    /\ \/ /\ handler' = [handler EXCEPT ![i] = "over"]
          /\ toCaller' = IF handler[i] = "aborted" THEN toCaller
                         ELSE Post("peer", toCaller, Env(AnswerIsEnd(i, a), i))
       \/ /\ handler[i] = "running" /\ "peer" \notin disposed
          /\ handler' = [handler EXCEPT ![i] = "lost"] /\ UNCHANGED toCaller
    /\ UNCHANGED <<call, sent, heard, toPeer, disposed>>

\* onResult, onStreamMsg, onStreamEnd, onFailure: for a request that is pending.
Settles(t) == CASE t \in {"res", "end"} -> "done" [] t = "err" -> "failed" [] OTHER -> "pending"
OnCaller ==
    /\ toCaller # <<>> /\ toCaller' = Tail(toCaller)
    /\ LET m == Head(toCaller) IN
       IF "caller" \in disposed \/ call[m.id] # "pending" THEN UNCHANGED <<call, heard>>
       ELSE /\ call' = [call EXCEPT ![m.id] = Settles(m.t)]
            /\ heard' = IF m.t = "msg" THEN [heard EXCEPT ![m.id] = Append(@, m.n)] ELSE heard
    /\ UNCHANGED <<handler, sent, toPeer, disposed>>

Next ==
    \/ OnPeer \/ OnCaller \/ DisposeCaller \/ DisposePeer
    \/ \E i \in Ids : Call(i) \/ Abort(i) \/ Send(i) \/ \E a \in Answers : Finish(i, a)

\* The port delivers, and handlers end.
Fairness ==
    /\ WF_vars(OnPeer) /\ WF_vars(OnCaller)
    /\ \A i \in Ids : WF_vars(\E a \in Answers : Finish(i, a))
Spec == Init /\ [][Next]_vars /\ Fairness

-----------------------------------------------------------------------------
\* A stream that ends has delivered every message its handler sent, in order, and
\* a caller that is not served any more hears nothing.
StreamIsWhole == \A i \in Streams :
    /\ \A n \in 1..Len(heard[i]) : heard[i][n] = n
    /\ call[i] = "done" => Len(heard[i]) = sent[i]

\* A caller that gives up stops the work: no handler runs on for a call that was
\* aborted, once its cancellation is delivered.
CancelReaches == \A i \in Ids :
    call[i] = "aborted" /\ handler[i] = "running" => \E k \in 1..Len(toPeer) : toPeer[k] = Env("cancel", i)
                                                     \/ "caller" \in disposed

\* Every call is answered, as long as neither side has gone, unless its handler threw at
\* once or its answer could not be posted: then the caller waits until it gives up.
EveryCallEnds == \A i \in Ids :
    (call[i] = "pending") ~> (call[i] # "pending" \/ disposed # {} \/ handler[i] = "lost")
=============================================================================
