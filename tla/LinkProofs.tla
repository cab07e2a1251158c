----------------------------- MODULE LinkProofs -----------------------------
(***************************************************************************)
(* Proofs about Link for any number of transports, messages and failures,  *)
(* and any delay of the RPC channel.                                       *)
(***************************************************************************)
EXTENDS Link, FiniteSetTheorems, SequenceTheorems, TLAPS

\* Where the operator's call and dispose() may stand, and the host with them.
Phases ==
    /\ busy = "no" <=> at["operator"] = "idle"
    /\ at["operator"] # "done" /\ at["dispose"] \notin {"reset", "open"}
    /\ at["operator"] \in {"reset", "open"} =>
          busy = "connect" /\ host.writer = Nobody /\ held["operator"] # Nobody
    /\ at["operator"] \in {"reset", "open"} /\ (~Disposed \/ host.orphan # Nobody) =>
          host.transport = held["operator"]
    /\ Disposed /\ at["operator"] \in {"reset", "open"} =>
          host.orphan # Nobody \/ (at["operator"] = "open" /\ at["dispose"] = "done")
    /\ at["dispose"] = "done" => host.transport \in {Nobody, host.orphan}
    /\ at["dispose"] = "writer" => at["operator"] = "idle"
    /\ \A p \in Processes : at[p] = "writer" => host.closing
    /\ \A p \in Processes : at[p] = "transport" => host.transport \in {Nobody, host.orphan}
    /\ \A p, q \in Processes : at[p] \in {"writer", "transport"} /\ at[q] = at[p] => p = q

\* What connect() went on to after dispose() had begun: nothing disconnects it again.
Orphaned ==
    host.orphan # Nobody =>
        /\ Disposed /\ at["dispose"] # "writer" /\ at["operator"] \notin {"writer", "transport"}
        /\ host.transport \in {Nobody, host.orphan}

\* The streams, the reader and the writer are those of the host's transport, until the
\* host lets them go; only the writer may be left when a disconnect() waits for it.
Relays ==
    /\ host.reader = host.streams
    /\ host.closing => host.writer # Nobody /\ \E p \in Processes : at[p] = "writer"
    /\ host.streams # Nobody => host.transport = host.streams
    /\ host.writer # Nobody => IF host.closing THEN host.streams = Nobody ELSE host.streams = host.writer
    /\ host.writer = Nobody => host.streams = Nobody

\* A transport that nobody has yet to close is closed.
Held(t) == t = host.transport \/ \E p \in Processes : at[p] = "transport" /\ held[p] = t
Closed(r) == r.state = "closed" /\ ~r.up
Devices ==
    /\ \A t \in Transports : ~Held(t) => Closed(link[t])
    /\ at["operator"] \in {"reset", "open"} =>
          LET r == link[held["operator"]]
          IN  ~r.up /\ r.state \in {"closed", "opening", "error"}
    /\ at["operator"] = "reset" => Closed(link[held["operator"]])
    /\ \A p \in Processes :
          at[p] = "transport" => held[p] \in Transports /\ link[held[p]].kind = "serial"

\* Only a message of a microservice may be asked for while there is no transport.
AddressedRequests == {r \in RequestRecords : r.m # "send" => r.of # Nobody}
Addressed == toWorker \in Seq(AddressedRequests)

Order == TypeOK /\ Phases /\ Orphaned /\ Relays /\ Devices /\ Addressed

-----------------------------------------------------------------------------
(* Records.                                                                *)

LEMMA Constants == 0 \notin Transports /\ Transports \subseteq Nat
BY LinkAssumption DEF Transports

LEMMA RequestTyped ==
    ASSUME NEW m \in Requests \ {"send"}, NEW t \in Transports
    PROVE  Request(m, t) \in Seq(AddressedRequests)
BY Constants DEF Request, AddressedRequests, RequestRecords, Nobody

LEMMA ShowsTyped ==
    ASSUME NEW u \in UiRecords, NEW s \in ConnStates
    PROVE  Shows(u, s) \in UiRecords
<1>1. u.shown \in ConnStates /\ u.rows \in SUBSET Transports
  BY DEF UiRecords
<1>2. /\ [u EXCEPT !.shown = s, !.rows = {}, !.defaults = "none"] \in UiRecords
      /\ [u EXCEPT !.shown = s, !.defaults = "asked"] \in UiRecords
      /\ [u EXCEPT !.shown = s] \in UiRecords
  BY DEF UiRecords
<1> QED
  BY <1>2 DEF Shows

LEMMA DefaultsTyped ==
    ASSUME NEW s, NEW t \in Transports
    PROVE  Defaults(s, t) \in Seq(AddressedRequests)
<1>1. Request("defaults", t) \in Seq(AddressedRequests)
  BY RequestTyped DEF Requests
<1>2. <<>> \in Seq(AddressedRequests)
  OBVIOUS
<1> QED
  BY <1>1, <1>2 DEF Defaults

LEMMA ClosedTyped ==
    ASSUME TypeOK, NEW t \in Transports
    PROVE  ClosedLink(t) \in LinkRecords /\ Closed(ClosedLink(t)) /\ ClosedLink(t).kind = link[t].kind
<1>1. link[t] \in LinkRecords
  BY DEF TypeOK
<1>2. ClosedLink(t) =
        [link[t] EXCEPT !.state = "closed", !.up = FALSE, !.unread = FALSE,
                        !.tx = IF link[t].kind = "serial" /\ link[t].tx = "flowing" THEN "room" ELSE link[t].tx]
  BY <1>1 DEF ClosedLink, LinkRecords
<1> QED
  BY <1>1, <1>2 DEF LinkRecords, ConnStates, Closed

LEMMA CancelsTyped ==
    ASSUME TypeOK
    PROVE  Cancels \in Seq(AddressedRequests)
<1>1. host.streams \in Transports \cup {Nobody}
  BY DEF TypeOK, HostRecords
<1>2. host.streams \in Transports =>
        /\ Request("cancel telemetry", host.streams) \in Seq(AddressedRequests)
        /\ Request("cancel outgoing", host.streams) \in Seq(AddressedRequests)
  BY RequestTyped DEF Requests
<1>3. \A a, b \in Seq(AddressedRequests) : a \o b \in Seq(AddressedRequests)
  OBVIOUS
<1>4. <<>> \in Seq(AddressedRequests)
  OBVIOUS
<1> QED
  BY <1>1, <1>2, <1>3, <1>4 DEF Cancels

-----------------------------------------------------------------------------
(* The end of disconnect().                                                *)

\* What disconnect() has done when it ends: the host has let go of everything but a
\* writer that the other call waits for, and what that call holds is all that may be open.
LetsGo(p, doing, h, u, w, l) ==
    /\ h \in HostRecords /\ u \in UiRecords /\ w \in Seq(AddressedRequests)
    /\ l \in [Transports -> LinkRecords] /\ \A t \in Transports : l[t].kind = link[t].kind
    /\ h.transport = Nobody /\ h.streams = Nobody /\ h.reader = Nobody
    /\ host.orphan = Nobody /\ h.orphan = Nobody
    /\ IF \E q \in Processes \ {p} : at[q] = "writer" THEN h.closing /\ h.writer # Nobody
       ELSE ~h.closing /\ h.writer = Nobody
    /\ \A t \in Transports :
          (\A q \in Processes \ {p} : ~(at[q] = "transport" /\ held[q] = t)) => Closed(l[t])
    /\ p = "operator" => /\ at["operator"] \notin {"reset", "open"} /\ doing \in {"connect", "disconnect"}
                         /\ at["dispose"] # "writer"
    /\ p = "dispose" => at["dispose"] # "done" /\ doing = busy

LEMMA CreateOrder ==
    ASSUME Order, NEW h, NEW u, NEW w, NEW l, LetsGo("operator", "connect", h, u, w, l),
           Create(h, u, w, l), UNCHANGED <<sends, placed>>
    PROVE  Order'
<1> USE DEF Order
<1>0. PICK t \in Transports, k \in Kinds :
        /\ link' = [l EXCEPT ![t].kind = k]
        /\ host' = [h EXCEPT !.transport = t, !.orphan = IF Disposed THEN t ELSE h.orphan]
        /\ ui' = Shows(Shows(u, "closed"), "opening")
        /\ at' = [at EXCEPT !["operator"] = "reset"]
        /\ held' = [held EXCEPT !["operator"] = t]
        /\ toWorker' = w \o (IF at["dispose"] = "done" THEN <<>> ELSE Request("reset", t))
        /\ busy' = "connect" /\ link[t].kind = "none"
        /\ UNCHANGED <<worker, toMain>>
  BY DEF Create, Created
<1>1. at["dispose"] \in {"idle", "transport", "done"} /\ \A q \in Processes \ {"operator"} : q = "dispose"
  BY DEF LetsGo, Phases, TypeOK, Processes
<1>2. /\ at' \in [Processes -> {"idle", "reset", "open", "writer", "transport", "done"}]
      /\ held' \in [Processes -> Transports \cup {Nobody}]
      /\ at'["operator"] = "reset" /\ at'["dispose"] = at["dispose"]
      /\ held'["operator"] = t /\ held'["dispose"] = held["dispose"]
  BY <1>0, <1>1 DEF TypeOK, Processes
<1>3. /\ host' \in HostRecords /\ host'.transport = t /\ host'.streams = Nobody
      /\ host'.reader = Nobody /\ host'.writer = Nobody /\ ~host'.closing
      /\ host'.orphan = IF Disposed THEN t ELSE Nobody
  <2>1. /\ h \in HostRecords /\ h.streams = Nobody /\ h.reader = Nobody /\ ~h.closing /\ h.writer = Nobody
        /\ h.orphan = Nobody
    BY <1>1 DEF LetsGo
  <2> QED
    BY <1>0, <2>1 DEF HostRecords
<1>4. /\ link' \in [Transports -> LinkRecords] /\ Closed(link'[t])
      /\ \A s \in Transports \ {t} : link'[s] = l[s]
      /\ \A s \in Transports : at["dispose"] # "transport" \/ held["dispose"] # s => Closed(link'[s])
  <2>1. /\ l \in [Transports -> LinkRecords]
        /\ \A s \in Transports : at["dispose"] # "transport" \/ held["dispose"] # s => Closed(l[s])
    BY <1>1 DEF LetsGo
  <2>2. \A r \in LinkRecords : Closed(r) => [r EXCEPT !.kind = k] \in LinkRecords /\ Closed([r EXCEPT !.kind = k])
    BY DEF LinkRecords, Closed
  <2>3. link' = [l EXCEPT ![t] = [l[t] EXCEPT !.kind = k]]
    BY <1>0
  <2>4. at["dispose"] = "transport" => held["dispose"] # t
    BY <1>0 DEF Devices, Processes
  <2>5. Closed(l[t])
    BY <2>1, <2>4
  <2> QED
    BY <2>1, <2>2, <2>3, <2>5
<1>5. ui' \in UiRecords /\ toWorker' \in Seq(AddressedRequests)
  <2>1. Request("reset", t) \in Seq(AddressedRequests)
    BY RequestTyped DEF Requests
  <2>2. Shows(u, "closed") \in UiRecords
    BY ShowsTyped DEF LetsGo, ConnStates
  <2> QED
    BY <1>0, <2>1, <2>2, ShowsTyped DEF LetsGo, ConnStates
<1>6. TypeOK' /\ Addressed'
  BY <1>0, <1>2, <1>3, <1>4, <1>5 DEF TypeOK, Addressed, AddressedRequests
<1>7. Phases' /\ Orphaned'
  BY <1>0, <1>1, <1>2, <1>3, Constants DEF Phases, Orphaned, Disposed, Processes, Nobody
<1>8. Relays'
  BY <1>3 DEF Relays
<1>9. Devices'
  <2>1. \A s \in Transports : ~Held(s)' => Closed(link'[s])
    BY <1>2, <1>4 DEF Held, Processes
  <2>2. at["dispose"] = "transport" =>
          /\ held["dispose"] \in Transports /\ link[held["dispose"]].kind = "serial"
          /\ held["dispose"] # t /\ l[held["dispose"]].kind = link[held["dispose"]].kind
    BY <1>0 DEF LetsGo, Devices, Processes
  <2> QED
    BY <1>2, <1>4, <2>1, <2>2 DEF Devices, Closed, Processes
<1> QED
  BY <1>6, <1>7, <1>8, <1>9

LEMMA FinishOrder ==
    ASSUME Order, NEW p \in Processes, NEW doing, NEW h, NEW u, NEW w, NEW l,
           LetsGo(p, doing, h, u, w, l), Finish(p, doing, h, u, w, l), UNCHANGED <<sends, placed>>
    PROVE  Order'
<1> USE DEF Order
<1>1. CASE p = "operator" /\ doing = "connect"
  BY <1>1, CreateOrder DEF Finish
<1>2. CASE p = "operator" /\ doing = "disconnect"
  <2>0. /\ ui' = Shows(u, "closed")
        /\ at' = [at EXCEPT !["operator"] = "idle"] /\ busy' = "no"
        /\ host' = h /\ link' = l /\ toWorker' = w
        /\ UNCHANGED <<held, worker, toMain>>
    BY <1>2 DEF Finish
  <2>1. /\ at' \in [Processes -> {"idle", "reset", "open", "writer", "transport", "done"}]
        /\ at'["operator"] = "idle" /\ at'["dispose"] = at["dispose"]
    BY <2>0 DEF TypeOK, Processes
  <2>2. TypeOK' /\ Addressed'
    <3>1. ui' \in UiRecords
      BY <2>0, ShowsTyped DEF LetsGo, ConnStates
    <3> QED
      BY <2>0, <2>1, <3>1 DEF LetsGo, TypeOK, Addressed, AddressedRequests
  <2>3. Phases' /\ Orphaned'
    BY <1>2, <2>0, <2>1 DEF LetsGo, Phases, Orphaned, Disposed, Processes, Nobody
  <2>4. Relays'
    BY <1>2, <2>0, <2>1 DEF LetsGo, Relays, Processes
  <2>5. Devices'
    BY <1>2, <2>0, <2>1 DEF LetsGo, Devices, Held, Processes
  <2> QED
    BY <2>2, <2>3, <2>4, <2>5
<1>3. CASE p = "dispose"
  <2>0. /\ at' = [at EXCEPT !["dispose"] = "done",
                            !["operator"] = IF at["operator"] = "reset" THEN "idle" ELSE @]
        /\ busy' = IF at["operator"] = "reset" THEN "no" ELSE busy
        /\ toWorker' = <<>> /\ toMain' = <<>>
        /\ worker' = NoSession
        /\ host' = h /\ link' = l
        /\ UNCHANGED <<ui, held>>
    <3>1. h.transport = Nobody => [h EXCEPT !.transport = Nobody] = h
      BY DEF LetsGo, HostRecords
    <3> QED
      BY <1>3, <3>1 DEF Finish, DropChannel, LetsGo
  <2>1. /\ at' \in [Processes -> {"idle", "reset", "open", "writer", "transport", "done"}]
        /\ at'["dispose"] = "done"
        /\ at'["operator"] = IF at["operator"] = "reset" THEN "idle" ELSE at["operator"]
    BY <2>0 DEF TypeOK, Processes
  <2>2. TypeOK' /\ Addressed'
    <3>1. NoSession \in WorkerRecords
      BY DEF NoSession, WorkerRecords
    <3>2. <<>> \in Seq(AddressedRequests) /\ <<>> \in Seq(AnswerRecords) /\ <<>> \in Seq(RequestRecords)
      OBVIOUS
    <3>3. busy' \in {"no", "connect", "disconnect"} /\ host' \in HostRecords /\ link' \in [Transports -> LinkRecords]
      BY <2>0 DEF LetsGo, TypeOK
    <3> QED
      BY <2>0, <2>1, <3>1, <3>2, <3>3 DEF TypeOK, Addressed
  <2>3. Phases' /\ Orphaned'
    BY <1>3, <2>0, <2>1 DEF LetsGo, Phases, Orphaned, TypeOK, Disposed, Processes, Nobody
  <2>4. Relays'
    BY <1>3, <2>0, <2>1 DEF LetsGo, Relays, Processes
  <2>5. Devices'
    <3>1. \A t \in Transports : ~Held(t)' => Closed(link'[t])
      BY <1>3, <2>0, <2>1 DEF LetsGo, Held, Processes
    <3>2. at'["operator"] \in {"reset", "open"} => at["operator"] = "open"
      BY <2>1
    <3>3. at["operator"] = "open" => Closed(link'[held["operator"]])
      BY <2>0, <1>3 DEF LetsGo, Phases, Processes, TypeOK
    <3>4. \A q \in Processes :
            at'[q] = "transport" => held'[q] \in Transports /\ link'[held'[q]].kind = "serial"
      BY <1>3, <2>0, <2>1 DEF LetsGo, Devices, Processes
    <3> QED
      BY <2>0, <2>1, <3>1, <3>2, <3>3, <3>4 DEF Devices, Closed
  <2> QED
    BY <2>2, <2>3, <2>4, <2>5
<1> QED
  BY <1>1, <1>2, <1>3 DEF LetsGo, Processes

-----------------------------------------------------------------------------
(* The way to the end of disconnect().                                     *)

\* The state of a disconnect() that has still to close the transport.
Leaves(p, doing, h, u, w, l) ==
    /\ h \in HostRecords /\ u \in UiRecords /\ w \in Seq(AddressedRequests)
    /\ l \in [Transports -> LinkRecords] /\ \A t \in Transports : l[t].kind = link[t].kind
    /\ h.transport = host.transport /\ h.streams = Nobody /\ h.reader = Nobody
    /\ host.orphan = Nobody /\ h.orphan = Nobody
    /\ IF \E q \in Processes \ {p} : at[q] = "writer" THEN h.closing /\ h.writer # Nobody
       ELSE ~h.closing /\ h.writer = Nobody
    /\ \A t \in Transports :
          t # host.transport /\ (\A q \in Processes \ {p} : ~(at[q] = "transport" /\ held[q] = t)) => Closed(l[t])
    /\ p = "operator" => /\ at["operator"] \notin {"reset", "open"} /\ doing \in {"connect", "disconnect"}
                         /\ at["dispose"] # "writer"
    /\ p = "dispose" => at["dispose"] \in {"idle", "writer"} /\ doing = busy

LEMMA LetGoOrder ==
    ASSUME Order, NEW p \in Processes, NEW doing, NEW h, NEW u, NEW w, NEW l,
           Leaves(p, doing, h, u, w, l), LetGo(p, doing, h, u, w, l), UNCHANGED <<sends, placed>>
    PROVE  Order'
<1> USE DEF Order
<1> DEFINE t == host.transport
           gone == [h EXCEPT !.transport = Nobody]
<1>1. /\ gone \in HostRecords /\ gone.transport = Nobody /\ gone.streams = Nobody /\ gone.reader = Nobody
      /\ gone.closing = h.closing /\ gone.writer = h.writer /\ gone.orphan = h.orphan
  BY DEF Leaves, HostRecords
<1>2. t \in Transports \cup {Nobody}
  BY DEF TypeOK, HostRecords
<1>3. CASE t # Nobody /\ link[t].kind = "serial" /\ link[t].up
  <2>0. /\ at' = [at EXCEPT ![p] = "transport"] /\ held' = [held EXCEPT ![p] = t]
        /\ host' = gone /\ ui' = u /\ toWorker' = w /\ link' = l
        /\ busy' = doing
        /\ UNCHANGED <<worker, toMain>>
    BY <1>3 DEF LetGo
  <2> HIDE DEF gone
  <2>1. /\ at' \in [Processes -> {"idle", "reset", "open", "writer", "transport", "done"}]
        /\ held' \in [Processes -> Transports \cup {Nobody}]
        /\ at'[p] = "transport" /\ held'[p] = t
        /\ \A q \in Processes \ {p} : at'[q] = at[q] /\ held'[q] = held[q]
    BY <1>2, <2>0 DEF TypeOK
  <2>2. \A q \in Processes : at[q] # "transport"
    BY <1>3 DEF Leaves, Phases
  <2>3. at["operator"] \notin {"reset", "open"}
    BY <1>3 DEF Leaves, Phases, Devices, Disposed, Processes
  <2>4. TypeOK' /\ Addressed'
    <3>1. busy' \in {"no", "connect", "disconnect"}
      BY <2>0 DEF Leaves, TypeOK, Processes
    <3> QED
      BY <1>1, <2>0, <2>1, <3>1 DEF Leaves, TypeOK, Addressed, AddressedRequests
  <2>5. Phases' /\ Orphaned'
    BY <1>1, <2>0, <2>1, <2>2, <2>3 DEF Leaves, Phases, Orphaned, Disposed, Processes
  <2>6. Relays'
    BY <1>1, <2>0, <2>1 DEF Leaves, Relays, Processes
  <2>7. Devices'
    <3>1. \A s \in Transports : ~Held(s)' => Closed(link'[s])
      BY <1>1, <2>0, <2>1 DEF Leaves, Held
    <3>2. at'["operator"] \notin {"reset", "open"}
      BY <2>1, <2>3 DEF Processes
    <3>3. link'[t].kind = "serial" /\ t \in Transports
      BY <1>2, <1>3, <2>0 DEF Leaves
    <3> QED
      BY <2>1, <2>2, <3>1, <3>2, <3>3 DEF Devices
  <2> QED
    BY <2>4, <2>5, <2>6, <2>7
<1>4. CASE ~(t # Nobody /\ link[t].kind = "serial" /\ link[t].up)
  <2> DEFINE l2 == IF t = Nobody THEN l ELSE [l EXCEPT ![t] = ClosedLink(t)]
  <2>1. Finish(p, doing, gone, u, w, l2)
    BY <1>4 DEF LetGo
  <2>2. /\ l2 \in [Transports -> LinkRecords]
        /\ \A s \in Transports : l2[s].kind = link[s].kind
        /\ \A s \in Transports :
             (\A q \in Processes \ {p} : ~(at[q] = "transport" /\ held[q] = s)) => Closed(l2[s])
    <3>1. l \in [Transports -> LinkRecords] /\ \A s \in Transports : l[s].kind = link[s].kind
      BY DEF Leaves
    <3>2. CASE t = Nobody
      BY <3>1, <3>2, Constants DEF Leaves, Nobody
    <3>3. CASE t # Nobody
      <4>1. ClosedLink(t) \in LinkRecords /\ Closed(ClosedLink(t)) /\ ClosedLink(t).kind = link[t].kind
        BY <1>2, <3>3, ClosedTyped
      <4> QED
        BY <1>2, <3>1, <3>3, <4>1 DEF Leaves
    <3> QED
      BY <3>2, <3>3
  <2> HIDE DEF gone, l2, t
  <2>3. LetsGo(p, doing, gone, u, w, l2)
    BY <1>1, <2>2 DEF Leaves, LetsGo
  <2> QED
    BY <2>1, <2>3, FinishOrder
<1> QED
  BY <1>3, <1>4

\* The links after some of them are closed.
LEMMA WithoutTyped ==
    ASSUME TypeOK, NEW S \in SUBSET Transports
    PROVE  /\ LinkWithout(S) \in [Transports -> LinkRecords]
           /\ \A t \in S : Closed(LinkWithout(S)[t])
           /\ \A t \in Transports \ S : LinkWithout(S)[t] = link[t]
           /\ \A t \in Transports : LinkWithout(S)[t].kind = link[t].kind
BY ClosedTyped DEF LinkWithout, TypeOK

LEMMA StartOrder ==
    ASSUME Order, NEW p \in Processes, NEW doing, StartDisconnect(p, doing), UNCHANGED <<sends, placed>>,
           ~Disposed,
           p = "operator" => at["operator"] = "idle" /\ doing \in {"connect", "disconnect"},
           p = "dispose" => doing = busy
    PROVE  Order'
<1> USE DEF Order
<1> DEFINE h == [host EXCEPT !.streams = Nobody, !.reader = Nobody, !.pumping = FALSE]
           h2 == [h EXCEPT !.closing = TRUE]
           u == IF p = "dispose" \/ ClosedByCancel = {} THEN ui ELSE Shows(ui, "closed")
           w == toWorker \o Cancels
           l == LinkWithout(ClosedByCancel)
<1>0. host.orphan = Nobody
  BY DEF Orphaned
<1>1. /\ h \in HostRecords /\ h.transport = host.transport /\ h.streams = Nobody /\ h.reader = Nobody
      /\ h.closing = host.closing /\ h.writer = host.writer /\ h.orphan = host.orphan
  BY DEF TypeOK, HostRecords
<1>2. /\ h2 \in HostRecords /\ h2.transport = host.transport /\ h2.streams = Nobody /\ h2.reader = Nobody
      /\ h2.closing /\ h2.writer = host.writer /\ h2.orphan = host.orphan
  BY DEF TypeOK, HostRecords
<1>3. u \in UiRecords
  BY ShowsTyped DEF TypeOK, ConnStates
<1>4. w \in Seq(AddressedRequests)
  BY CancelsTyped DEF Addressed
<1>5. ClosedByCancel \in SUBSET Transports
  BY DEF ClosedByCancel
<1>6. /\ l \in [Transports -> LinkRecords]
      /\ \A t \in ClosedByCancel : Closed(l[t])
      /\ \A t \in Transports \ ClosedByCancel : l[t] = link[t]
      /\ \A t \in Transports : l[t].kind = link[t].kind
  BY <1>5, WithoutTyped
<1>7. at[p] = "idle"
  BY DEF Disposed, Processes
<1>8. CASE host.writer # Nobody /\ ~host.closing
  <2>0. /\ at' = [at EXCEPT ![p] = "writer"] /\ host' = h2
        /\ ui' = u /\ toWorker' = w /\ link' = l /\ busy' = doing
        /\ UNCHANGED <<held, worker, toMain>>
    BY <1>8 DEF StartDisconnect
  <2> HIDE DEF h, h2, u, w, l
  <2>1. /\ at' \in [Processes -> {"idle", "reset", "open", "writer", "transport", "done"}]
        /\ at'[p] = "writer" /\ \A q \in Processes \ {p} : at'[q] = at[q]
    BY <2>0 DEF TypeOK
  <2>2. at["operator"] = "idle"
    BY <1>0, <1>8 DEF Phases, Relays, TypeOK, Processes
  <2>3. TypeOK' /\ Addressed'
    <3>1. busy' \in {"no", "connect", "disconnect"}
      BY <2>0 DEF TypeOK, Processes
    <3> QED
      BY <1>2, <1>3, <1>4, <1>6, <2>0, <2>1, <3>1 DEF TypeOK, Addressed, AddressedRequests
  <2>4. Phases' /\ Orphaned'
    BY <1>0, <1>2, <1>7, <1>8, <2>0, <2>1, <2>2 DEF Phases, Orphaned, Disposed, Processes
  <2>5. Relays'
    BY <1>2, <1>8, <2>0, <2>1 DEF Relays, Processes
  <2>6. Devices'
    <3>1. \A t \in Transports : ~Held(t)' => Closed(link'[t])
      BY <1>2, <1>6, <1>7, <2>0, <2>1 DEF Devices, Held
    <3>2. at'["operator"] \notin {"reset", "open"}
      BY <2>1, <2>2 DEF Processes
    <3>3. \A q \in Processes :
            at'[q] = "transport" => held'[q] \in Transports /\ link'[held'[q]].kind = "serial"
      BY <1>6, <2>0, <2>1 DEF Devices
    <3> QED
      BY <3>1, <3>2, <3>3 DEF Devices
  <2> QED
    BY <2>3, <2>4, <2>5, <2>6
<1>9. CASE ~(host.writer # Nobody /\ ~host.closing)
  <2>1. LetGo(p, doing, h, u, w, l)
    BY <1>9 DEF StartDisconnect
  <2> HIDE DEF h, h2, u, w, l
  <2>2. IF \E q \in Processes \ {p} : at[q] = "writer" THEN h.closing /\ h.writer # Nobody
        ELSE ~h.closing /\ h.writer = Nobody
    BY <1>1, <1>7, <1>9 DEF Phases, Relays
  <2>3. \A t \in Transports :
          t # host.transport /\ (\A q \in Processes \ {p} : ~(at[q] = "transport" /\ held[q] = t)) => Closed(l[t])
    BY <1>6, <1>7 DEF Devices, Held
  <2>4. Leaves(p, doing, h, u, w, l)
    BY <1>0, <1>1, <1>3, <1>4, <1>6, <1>7, <2>2, <2>3 DEF Leaves, Disposed, Processes
  <2> QED
    BY <2>1, <2>4, LetGoOrder
<1> QED
  BY <1>8, <1>9

LEMMA WriterClosedOrder == ASSUME Order, NEW p \in Processes, WriterClosed(p) PROVE Order'
<1> USE DEF Order
<1> DEFINE h == [host EXCEPT !.writer = Nobody, !.closing = FALSE]
<1>1. at[p] = "writer" /\ host.closing /\ host.streams = Nobody /\ host.reader = Nobody
      /\ \A q \in Processes \ {p} : at[q] # "writer"
  BY DEF WriterClosed, Phases, Relays
<1>0. host.orphan = Nobody
  BY <1>1 DEF Orphaned, Processes
<1>2. /\ h \in HostRecords /\ h.transport = host.transport /\ h.streams = Nobody /\ h.reader = Nobody
      /\ ~h.closing /\ h.writer = Nobody /\ h.orphan = host.orphan
  BY <1>1 DEF TypeOK, HostRecords
<1>3. LetGo(p, busy, h, ui, toWorker, link) /\ UNCHANGED <<sends, placed>>
  BY DEF WriterClosed
<1> HIDE DEF h
<1>4. \A t \in Transports :
          t # host.transport /\ (\A q \in Processes \ {p} : ~(at[q] = "transport" /\ held[q] = t)) => Closed(link[t])
  BY <1>1 DEF Devices, Held
<1>5. p = "operator" => busy \in {"connect", "disconnect"} /\ at["dispose"] # "writer"
  BY <1>1 DEF TypeOK, Phases
<1>6. Leaves(p, busy, h, ui, toWorker, link)
  BY <1>0, <1>1, <1>2, <1>4, <1>5 DEF Leaves, TypeOK, Addressed
<1> QED
  BY <1>3, <1>6, LetGoOrder

\* dispose() ends while connect() is, or was, at a transport of its own.
LEMMA OrphanStays == ASSUME Order, PortClosed("dispose"), host.orphan # Nobody PROVE Order'
<1> USE DEF Order
<1> DEFINE l == LinkWithout({held["dispose"]})
           rejected == at["operator"] = "reset"
           gone == [host EXCEPT !.transport = Nobody]
<1>1. /\ at["dispose"] = "transport" /\ held["dispose"] \in Transports
      /\ at["operator"] \in {"idle", "reset", "open"}
      /\ host.transport \in {Nobody, host.orphan}
      /\ at["operator"] \in {"reset", "open"} => host.transport = held["operator"]
  BY DEF PortClosed, Devices, Orphaned, Phases, TypeOK, Processes
<1>2. /\ at' = [at EXCEPT !["dispose"] = "done",
                          !["operator"] = IF rejected THEN "idle" ELSE at["operator"]]
      /\ busy' = IF rejected THEN "no" ELSE busy
      /\ toWorker' = <<>> /\ toMain' = <<>>
      /\ worker' = NoSession
      /\ host' = IF rejected THEN gone ELSE host
      /\ link' = l
      /\ UNCHANGED <<ui, held, sends, placed>>
  BY <1>1 DEF PortClosed, Finish, DropChannel
<1>3. /\ at' \in [Processes -> {"idle", "reset", "open", "writer", "transport", "done"}]
      /\ at'["dispose"] = "done" /\ at'["operator"] = IF rejected THEN "idle" ELSE at["operator"]
  BY <1>2 DEF TypeOK, Processes
<1>4. /\ host' \in HostRecords /\ host'.streams = host.streams /\ host'.reader = host.reader
      /\ host'.writer = host.writer /\ host'.closing = host.closing /\ host'.orphan = host.orphan
      /\ host'.transport = IF rejected THEN Nobody ELSE host.transport
  <2>1. /\ gone \in HostRecords /\ gone.streams = host.streams /\ gone.reader = host.reader
        /\ gone.writer = host.writer /\ gone.closing = host.closing /\ gone.orphan = host.orphan
        /\ gone.transport = Nobody
    BY DEF TypeOK, HostRecords
  <2> HIDE DEF gone
  <2> QED
    BY <1>2, <2>1 DEF TypeOK
<1>5. /\ link' \in [Transports -> LinkRecords] /\ Closed(link'[held["dispose"]])
      /\ \A t \in Transports \ {held["dispose"]} : link'[t] = link[t]
  <2>1. {held["dispose"]} \in SUBSET Transports
    BY <1>1
  <2> QED
    BY <1>2, <2>1, WithoutTyped
<1> HIDE DEF gone, l
<1>6. TypeOK' /\ Addressed'
  <2>1. NoSession \in WorkerRecords
    BY DEF NoSession, WorkerRecords
  <2>2. <<>> \in Seq(AddressedRequests) /\ <<>> \in Seq(AnswerRecords) /\ <<>> \in Seq(RequestRecords)
    OBVIOUS
  <2> QED
    BY <1>2, <1>3, <1>4, <1>5, <2>1, <2>2 DEF TypeOK, Addressed
<1>7. Phases' /\ Orphaned'
  BY <1>1, <1>2, <1>3, <1>4 DEF Phases, Orphaned, Disposed, Processes
<1>8. Relays'
  BY <1>1, <1>3, <1>4 DEF Phases, Relays, Processes
<1>9. Devices'
  <2>1. ASSUME NEW t \in Transports, ~Held(t)' PROVE Closed(link'[t])
    <3>1. CASE t = held["dispose"]
      BY <1>5, <3>1
    <3>2. CASE t # held["dispose"] /\ rejected /\ t = held["operator"]
      BY <1>5, <3>2 DEF Devices
    <3>3. CASE t # held["dispose"] /\ ~(rejected /\ t = held["operator"])
      <4>1. ~Held(t)
        BY <1>1, <1>2, <1>3, <1>4, <2>1, <3>3 DEF Held, Processes
      <4> QED
        BY <1>5, <3>3, <4>1 DEF Devices
    <3> QED
      BY <3>1, <3>2, <3>3
  <2>2. at'["operator"] \in {"reset", "open"} => at["operator"] = "open" /\ held["operator"] \in Transports
    BY <1>1, <1>3 DEF Phases, TypeOK, Processes
  <2>3. at'["operator"] \in {"reset", "open"} =>
           ~link'[held["operator"]].up /\ link'[held["operator"]].state \in {"closed", "opening", "error"}
    BY <1>5, <2>2 DEF Devices, Closed
  <2> QED
    BY <1>1, <1>2, <1>3, <2>1, <2>2, <2>3 DEF Devices, Processes
<1> QED
  BY <1>6, <1>7, <1>8, <1>9

LEMMA PortClosedOrder == ASSUME Order, NEW p \in Processes, PortClosed(p) PROVE Order'
<1> USE DEF Order
<1> DEFINE l == LinkWithout({held[p]})
<1>0. CASE host.orphan # Nobody
  BY <1>0, OrphanStays DEF PortClosed, Orphaned, Processes
<1>1. CASE host.orphan = Nobody
  <2>1. at[p] = "transport" /\ host.transport = Nobody /\ host.streams = Nobody /\ host.reader = Nobody
        /\ \A q \in Processes \ {p} : at[q] # "transport"
    BY <1>1 DEF PortClosed, Phases, Relays
  <2>2. Finish(p, busy, host, ui, toWorker, l) /\ UNCHANGED <<sends, placed>>
    BY DEF PortClosed
  <2>3. /\ l \in [Transports -> LinkRecords] /\ \A t \in Transports : Closed(l[t])
        /\ \A t \in Transports : l[t].kind = link[t].kind
    <3>1. held[p] \in Transports
      BY <2>1 DEF Devices
    <3>2. {held[p]} \in SUBSET Transports
      BY <3>1
    <3>3. \A t \in Transports \ {held[p]} : Closed(link[t])
      BY <2>1, Constants DEF Devices, Held, Nobody
    <3> QED
      BY <3>2, <3>3, WithoutTyped
  <2> HIDE DEF l
  <2>4. p = "operator" => busy \in {"connect", "disconnect"} /\ at["dispose"] # "writer"
    BY <2>1 DEF TypeOK, Phases
  <2>5. IF \E q \in Processes \ {p} : at[q] = "writer" THEN host.closing /\ host.writer # Nobody
        ELSE ~host.closing /\ host.writer = Nobody
    BY <2>1 DEF Phases, Relays
  <2>6. LetsGo(p, busy, host, ui, toWorker, l)
    BY <1>1, <2>1, <2>3, <2>4, <2>5 DEF LetsGo, TypeOK, Addressed
  <2> QED
    BY <2>2, <2>6, FinishOrder
<1> QED
  BY <1>0, <1>1

-----------------------------------------------------------------------------
(* Steps of one party.                                                     *)

\* A step that moves no call and no transport keeps their order.
LEMMA QuietOrder ==
    ASSUME Phases, Orphaned, Relays, Devices, UNCHANGED <<busy, at, held>>,
           host'.transport = host.transport, host'.streams = host.streams, host'.reader = host.reader,
           host'.writer = host.writer, host'.closing = host.closing, host'.orphan = host.orphan,
           \A t \in Transports : /\ link'[t].state = link[t].state /\ link'[t].up = link[t].up
                                 /\ link'[t].kind = link[t].kind,
           at["operator"] \in {"reset", "open"} => held["operator"] \in Transports
    PROVE  Phases' /\ Orphaned' /\ Relays' /\ Devices'
<1>1. Phases' /\ Orphaned'
  BY DEF Phases, Orphaned, Disposed
<1>2. Relays'
  BY DEF Relays
<1>3. Devices'
  BY DEF Devices, Held, Closed
<1> QED
  BY <1>1, <1>2, <1>3

LEMMA HeldTyped ==
    ASSUME Order
    PROVE  at["operator"] \in {"reset", "open"} => held["operator"] \in Transports
BY DEF Order, Phases, TypeOK, Processes

LEMMA HeadTyped ==
    ASSUME Order
    PROVE  /\ toWorker # <<>> => Head(toWorker) \in AddressedRequests /\ Tail(toWorker) \in Seq(AddressedRequests)
           /\ toMain # <<>> => Head(toMain) \in AnswerRecords /\ Tail(toMain) \in Seq(AnswerRecords)
BY DEF Order, Addressed, TypeOK

LEMMA AnswerTyped ==
    ASSUME NEW m \in Answers, NEW t \in Transports \cup {Nobody}
    PROVE  Answer(m, t) \in Seq(AnswerRecords)
BY DEF Answer, AnswerRecords

\* A message to the worker, whoever sends it.
LEMMA SendOrder == ASSUME Order, Send PROVE Order'
<1> USE DEF Order
<1>1. Request("send", host.transport) \in Seq(AddressedRequests)
  <2>1. host.transport \in Transports \cup {Nobody}
    BY DEF TypeOK, HostRecords
  <2>2. [m |-> "send", of |-> host.transport] \in AddressedRequests
    BY <2>1 DEF AddressedRequests, RequestRecords, Requests
  <2> QED
    BY <2>2 DEF Request
<1>2. toWorker' \in Seq(AddressedRequests) /\ sends' \in 0 .. MaxSends
  BY <1>1, LinkAssumption DEF Send, Addressed, TypeOK
<1>3. Phases' /\ Orphaned' /\ Relays' /\ Devices'
  BY HeldTyped, QuietOrder DEF Send
<1> QED
  BY <1>2, <1>3 DEF Send, TypeOK, Addressed, AddressedRequests

LEMMA WorkerReceivesOrder == ASSUME Order, WorkerReceives PROVE Order'
<1> USE DEF Order
<1> DEFINE r == Head(toWorker)
<1>1. r \in AddressedRequests /\ Tail(toWorker) \in Seq(AddressedRequests)
  BY HeadTyped DEF WorkerReceives
<1>2. r.m \in Requests /\ r.of \in Transports \cup {Nobody} /\ (r.m # "send" => r.of \in Transports)
  BY <1>1 DEF AddressedRequests, RequestRecords
<1>3. worker \in WorkerRecords /\ worker.sink \in Transports \cup {Nobody}
  BY DEF TypeOK, WorkerRecords
<1>4. worker' \in WorkerRecords
  <2> HIDE DEF r
  <2>1. WorkerAfter(r) \in WorkerRecords
    BY <1>2, <1>3 DEF WorkerAfter, Forgotten, Attached, Detached, WorkerRecords, Requests
  <2> QED
    BY <2>1 DEF WorkerReceives, r
<1>5. toMain' \in Seq(AnswerRecords)
  <2> HIDE DEF r
  <2>1. \A a, b \in Seq(AnswerRecords) : a \o b \in Seq(AnswerRecords)
    OBVIOUS
  <2>2. <<>> \in Seq(AnswerRecords)
    OBVIOUS
  <2>3. \A m \in Answers : Answer(m, r.of) \in Seq(AnswerRecords) /\ Answer(m, worker.sink) \in Seq(AnswerRecords)
    BY <1>2, <1>3, AnswerTyped
  <2>4. Answered(r) \in Seq(AnswerRecords)
    BY <2>1, <2>2, <2>3 DEF Answered, Answers
  <2> QED
    BY <2>1, <2>4 DEF WorkerReceives, TypeOK, r
<1>6. placed' \subseteq (Transports \cup {Nobody}) \X Transports
  BY <1>2, <1>3 DEF WorkerReceives, TypeOK
<1>7. Phases' /\ Orphaned' /\ Relays' /\ Devices'
  BY HeldTyped, QuietOrder DEF WorkerReceives
<1> QED
  BY <1>1, <1>4, <1>5, <1>6, <1>7 DEF WorkerReceives, TypeOK, Addressed, AddressedRequests

LEMMA TimerOrder == ASSUME Order, NEW t \in Transports, Beat(t) \/ Snapshot(t) PROVE Order'
<1> USE DEF Order
<1>1. worker \in WorkerRecords /\ worker.heard \in SUBSET Transports /\ worker.stale \in SUBSET Transports
  BY DEF TypeOK, WorkerRecords
<1>2. worker' \in WorkerRecords
  <2>1. [worker EXCEPT !.stale = worker.stale \ {t}] \in WorkerRecords
    BY <1>1 DEF WorkerRecords
  <2> QED
    BY <1>1, <2>1 DEF Beat, Snapshot
<1>3. toMain' \in Seq(AnswerRecords)
  <2>1. CASE Beat(t)
    <3>1. Answer("frame", t) \in Seq(AnswerRecords)
      BY AnswerTyped DEF Answers
    <3> QED
      BY <2>1, <3>1 DEF Beat, TypeOK
  <2>2. CASE Snapshot(t)
    <3>1. [m |-> "snapshot", of |-> t, heard |-> worker.heard] \in AnswerRecords
      BY <1>1 DEF AnswerRecords, Answers
    <3> QED
      BY <2>2, <3>1 DEF Snapshot, TypeOK
  <2> QED
    BY <2>1, <2>2
<1>4. Phases' /\ Orphaned' /\ Relays' /\ Devices'
  BY HeldTyped, QuietOrder DEF Beat, Snapshot
<1> QED
  BY <1>2, <1>3, <1>4 DEF Beat, Snapshot, TypeOK, Addressed

LEMMA PumpOrder == ASSUME Order, NEW t \in Transports, Pump(t) PROVE Order'
<1> USE DEF Order
<1>1. host \in HostRecords /\ link \in [Transports -> LinkRecords]
  BY DEF TypeOK
<1>2. /\ host' \in HostRecords /\ host'.transport = host.transport /\ host'.streams = host.streams
      /\ host'.reader = host.reader /\ host'.writer = host.writer /\ host'.closing = host.closing
      /\ host'.orphan = host.orphan
  BY <1>1 DEF Pump, HostRecords
<1>3. /\ link' \in [Transports -> LinkRecords]
      /\ \A s \in Transports : link'[s].state = link[s].state /\ link'[s].up = link[s].up /\ link'[s].kind = link[s].kind
  <2>1. \A q \in LinkRecords : LET n == [q EXCEPT !.unread = FALSE]
                               IN  n \in LinkRecords /\ n.state = q.state /\ n.up = q.up /\ n.kind = q.kind
    BY DEF LinkRecords
  <2>2. link' = [link EXCEPT ![t] = [link[t] EXCEPT !.unread = FALSE]]
    BY DEF Pump
  <2> QED
    BY <1>1, <2>1, <2>2
<1>4. toWorker' \in Seq(AddressedRequests)
  <2>1. Request("ingest", t) \in Seq(AddressedRequests)
    BY RequestTyped DEF Requests
  <2> QED
    BY <2>1 DEF Pump, Addressed
<1>5. Phases' /\ Orphaned' /\ Relays' /\ Devices'
  BY <1>2, <1>3, HeldTyped, QuietOrder DEF Pump
<1> QED
  BY <1>2, <1>3, <1>4, <1>5 DEF Pump, TypeOK, Addressed, AddressedRequests

LEMMA WriteDoneOrder == ASSUME Order, NEW t \in Transports, WriteDone(t) PROVE Order'
<1> USE DEF Order
<1>1. host \in HostRecords /\ link \in [Transports -> LinkRecords] /\ ui \in UiRecords
  BY DEF TypeOK
<1>2. /\ host' \in HostRecords /\ host'.transport = host.transport /\ host'.streams = host.streams
      /\ host'.reader = host.reader /\ host'.writer = host.writer /\ host'.closing = host.closing
      /\ host'.orphan = host.orphan
  <2>1. host.chain \in Nat /\ host.chain > 0
    BY <1>1 DEF WriteDone, HostRecords
  <2>2. (IF host.closing THEN 0 ELSE host.chain - 1) \in Nat
    BY <2>1
  <2>3. host' = [host EXCEPT !.chain = IF host.closing THEN 0 ELSE host.chain - 1]
    BY DEF WriteDone
  <2> QED
    BY <1>1, <2>2, <2>3 DEF HostRecords
<1>3. /\ link' \in [Transports -> LinkRecords]
      /\ \A s \in Transports : link'[s].state = link[s].state /\ link'[s].up = link[s].up /\ link'[s].kind = link[s].kind
  <2>1. \A q \in LinkRecords, x \in {"flowing", "room", "stuck"} :
           LET n == [q EXCEPT !.tx = x] IN n \in LinkRecords /\ n.state = q.state /\ n.up = q.up /\ n.kind = q.kind
    BY DEF LinkRecords
  <2> DEFINE x == IF link[t].tx = "room" THEN "stuck" ELSE link[t].tx
  <2>2. x \in {"flowing", "room", "stuck"}
    BY <1>1 DEF LinkRecords
  <2>3. link' = [link EXCEPT ![t] = [link[t] EXCEPT !.tx = x]]
    BY DEF WriteDone
  <2> HIDE DEF x
  <2> QED
    BY <1>1, <2>1, <2>2, <2>3
<1>4. ui' \in UiRecords
  BY <1>1, ShowsTyped DEF WriteDone, ConnStates
<1>5. Phases' /\ Orphaned' /\ Relays' /\ Devices'
  BY <1>2, <1>3, HeldTyped, QuietOrder DEF WriteDone
<1> QED
  BY <1>2, <1>3, <1>4, <1>5 DEF WriteDone, TypeOK, Addressed

LEMMA ChunkOrder == ASSUME Order, NEW t \in Transports, Chunk(t) PROVE Order'
<1> USE DEF Order
<1>1. /\ link' \in [Transports -> LinkRecords]
      /\ \A s \in Transports : link'[s].state = link[s].state /\ link'[s].up = link[s].up /\ link'[s].kind = link[s].kind
  <2>1. \A q \in LinkRecords : LET n == [q EXCEPT !.unread = TRUE]
                               IN  n \in LinkRecords /\ n.state = q.state /\ n.up = q.up /\ n.kind = q.kind
    BY DEF LinkRecords
  <2>2. link' = [link EXCEPT ![t] = [link[t] EXCEPT !.unread = TRUE]]
    BY DEF Chunk
  <2> QED
    BY <2>1, <2>2 DEF TypeOK
<1>2. Phases' /\ Orphaned' /\ Relays' /\ Devices'
  BY <1>1, HeldTyped, QuietOrder DEF Chunk
<1> QED
  BY <1>1, <1>2 DEF Chunk, TypeOK, Addressed

LEMMA MainReceivesOrder == ASSUME Order, MainReceives PROVE Order'
<1> USE DEF Order
<1> DEFINE r == Head(toMain)
<1>1. r \in AnswerRecords /\ Tail(toMain) \in Seq(AnswerRecords)
  BY HeadTyped DEF MainReceives
<1>2. r.of \in Transports \cup {Nobody} /\ r.heard \in SUBSET Transports
  BY <1>1 DEF AnswerRecords
<1>3. ui \in UiRecords /\ host \in HostRecords /\ link \in [Transports -> LinkRecords]
  BY DEF TypeOK
<1>4. UNCHANGED <<busy, held, worker, toWorker, sends, placed>> /\ toMain' = Tail(toMain)
  BY DEF MainReceives
<1> HIDE DEF r
<1>5. ASSUME r.m = "reset", OnReset(r) PROVE Order'
  <2> PICK t \in Transports : t = r.of
    BY <1>5, HeldTyped DEF OnReset
  <2>0. /\ at["operator"] = "reset" /\ t = held["operator"]
        /\ at' = [at EXCEPT !["operator"] = "open"]
        /\ link' = [link EXCEPT ![t] = [link[t] EXCEPT !.state = "opening"]]
        /\ UNCHANGED <<ui, host>>
    BY <1>5 DEF OnReset
  <2>1. /\ at' \in [Processes -> {"idle", "reset", "open", "writer", "transport", "done"}]
        /\ at'["operator"] = "open" /\ at'["dispose"] = at["dispose"]
    BY <2>0 DEF TypeOK, Processes
  <2>2. /\ link' \in [Transports -> LinkRecords]
        /\ \A s \in Transports \ {t} : link'[s] = link[s]
        /\ link'[t].state = "opening" /\ link'[t].up = link[t].up /\ link'[t].kind = link[t].kind
    <3>1. \A q \in LinkRecords : LET n == [q EXCEPT !.state = "opening"]
                                 IN  n \in LinkRecords /\ n.state = "opening" /\ n.up = q.up /\ n.kind = q.kind
      BY DEF LinkRecords, ConnStates
    <3> QED
      BY <1>3, <2>0, <3>1
  <2>3. host.transport = t /\ (Disposed => host.orphan # Nobody)
    BY <2>0 DEF Phases
  <2>4. Phases' /\ Orphaned'
    BY <1>4, <2>0, <2>1, <2>3 DEF Phases, Orphaned, Disposed, Processes
  <2>5. Relays'
    BY <2>0, <2>1 DEF Relays, Processes
  <2>6. Devices'
    <3>1. \A s \in Transports \ {t} : ~Held(s)' => Closed(link'[s])
      BY <1>4, <2>0, <2>1, <2>2 DEF Devices, Held, Processes
    <3>2. Held(t)'
      BY <2>0, <2>3 DEF Held
    <3>3. ~link'[held["operator"]].up
      BY <2>0, <2>2 DEF Devices
    <3>4. \A q \in Processes :
            at'[q] = "transport" => held'[q] \in Transports /\ link'[held'[q]].kind = "serial"
      BY <1>4, <2>0, <2>1, <2>2 DEF Devices, Processes
    <3> QED
      BY <1>4, <2>0, <2>1, <2>2, <3>1, <3>2, <3>3, <3>4 DEF Devices
  <2> QED
    BY <1>1, <1>4, <2>0, <2>1, <2>2, <2>4, <2>5, <2>6 DEF TypeOK, Addressed
<1>6. ASSUME UNCHANGED <<at, link>>, ui' \in UiRecords, host' \in HostRecords,
             host'.transport = host.transport, host'.streams = host.streams, host'.reader = host.reader,
             host'.writer = host.writer, host'.closing = host.closing, host'.orphan = host.orphan
      PROVE  Order'
  <2>1. Phases' /\ Orphaned' /\ Relays' /\ Devices'
    BY <1>4, <1>6, HeldTyped, QuietOrder
  <2> QED
    BY <1>1, <1>4, <1>6, <2>1 DEF TypeOK, Addressed
<1>7. ASSUME OnStream(r) PROVE Order'
  <2>1. [ui EXCEPT !.rows = r.heard] \in UiRecords
    BY <1>2, <1>3 DEF UiRecords
  <2>2. LET n == [host EXCEPT !.chain = host.chain + 1]
        IN  /\ n \in HostRecords /\ n.transport = host.transport /\ n.streams = host.streams
            /\ n.reader = host.reader /\ n.writer = host.writer /\ n.closing = host.closing
            /\ n.orphan = host.orphan
    BY <1>3 DEF HostRecords
  <2> QED
    BY <1>3, <1>6, <1>7, <2>1, <2>2 DEF OnStream
<1>8. ASSUME r.m \in {"sent", "refused"}, OnDefaults(r) PROVE Order'
  <2>1. [ui EXCEPT !.defaults = r.m] \in UiRecords
    BY <1>3, <1>8 DEF UiRecords
  <2> QED
    BY <1>3, <1>6, <1>8, <2>1 DEF OnDefaults
<1>9. ASSUME OnIngested(r) PROVE Order'
  <2>1. LET n == [host EXCEPT !.pumping = FALSE]
        IN  /\ n \in HostRecords /\ n.transport = host.transport /\ n.streams = host.streams
            /\ n.reader = host.reader /\ n.writer = host.writer /\ n.closing = host.closing
            /\ n.orphan = host.orphan
    BY <1>3 DEF HostRecords
  <2> QED
    BY <1>3, <1>6, <1>9, <2>1 DEF OnIngested
<1> QED
  BY <1>5, <1>7, <1>8, <1>9 DEF MainReceives, r

\* A transport that opens has been closed by nobody since connect() took it.
LEMMA OpeningIsHeld ==
    ASSUME Order, NEW t \in Transports, Opening(t)
    PROVE  /\ at["operator"] = "open" /\ held["operator"] = t
           /\ link[t].state = "opening" => host.transport = t /\ (Disposed => host.orphan = t)
BY Constants DEF Order, Opening, Phases, Orphaned, Devices, Held, Closed, Processes, Nobody

LEMMA OpenedOrder == ASSUME Order, NEW t \in Transports, Opened(t) PROVE Order'
<1> USE DEF Order
<1>1. /\ at["operator"] = "open" /\ held["operator"] = t /\ host.transport = t
      /\ host.writer = Nobody /\ at["dispose"] \in {"idle", "transport", "done"}
      /\ Disposed => host.orphan = t
  BY OpeningIsHeld DEF Opened, Phases, TypeOK, Processes
<1>2. /\ at' \in [Processes -> {"idle", "reset", "open", "writer", "transport", "done"}]
      /\ at'["operator"] = "idle" /\ at'["dispose"] = at["dispose"] /\ busy' = "no" /\ held' = held
  BY <1>1 DEF Opened, TypeOK, Processes
<1>3. /\ host' \in HostRecords /\ host'.transport = t /\ host'.streams = t /\ host'.reader = t
      /\ host'.writer = t /\ ~host'.closing /\ host'.orphan = host.orphan
  BY <1>1 DEF Opened, TypeOK, HostRecords
<1>4. /\ link' \in [Transports -> LinkRecords] /\ \A s \in Transports \ {t} : link'[s] = link[s]
      /\ link'[t].kind = link[t].kind
  <2>1. \A q \in LinkRecords : LET n == [q EXCEPT !.state = "open", !.up = TRUE]
                               IN  n \in LinkRecords /\ n.kind = q.kind
    BY DEF LinkRecords, ConnStates
  <2>2. link' = [link EXCEPT ![t] = [link[t] EXCEPT !.state = "open", !.up = TRUE]]
    BY DEF Opened
  <2> QED
    BY <2>1, <2>2 DEF TypeOK
<1>5. ui' \in UiRecords
  BY ShowsTyped DEF Opened, TypeOK, ConnStates
<1>6. toWorker' \in Seq(AddressedRequests)
  <2>1. /\ Request("telemetry", t) \in Seq(AddressedRequests) /\ Request("outgoing", t) \in Seq(AddressedRequests)
        /\ Defaults("open", t) \in Seq(AddressedRequests)
    BY RequestTyped, DefaultsTyped DEF Requests
  <2>2. \A a, b \in Seq(AddressedRequests) : a \o b \in Seq(AddressedRequests)
    OBVIOUS
  <2> QED
    BY <2>1, <2>2 DEF Opened, Addressed
<1>7. Phases' /\ Orphaned'
  BY <1>1, <1>2, <1>3, Constants DEF Phases, Orphaned, Disposed, Processes, Nobody
<1>8. Relays'
  BY <1>3, Constants DEF Relays, Nobody
<1>9. Devices'
  <2>1. \A s \in Transports : ~Held(s)' => Closed(link'[s])
    BY <1>1, <1>2, <1>3, <1>4 DEF Devices, Held, Processes
  <2>2. \A q \in Processes :
          at'[q] = "transport" => held'[q] \in Transports /\ link'[held'[q]].kind = "serial"
    BY <1>2, <1>4 DEF Devices, Processes
  <2> QED
    BY <1>2, <2>1, <2>2 DEF Devices
<1> QED
  BY <1>2, <1>3, <1>4, <1>5, <1>6, <1>7, <1>8, <1>9 DEF Opened, TypeOK, Addressed, AddressedRequests

LEMMA OpenFailsOrder == ASSUME Order, NEW t \in Transports, OpenFails(t) PROVE Order'
<1> USE DEF Order
<1>1. /\ at["operator"] = "open" /\ held["operator"] = t /\ host.writer = Nobody /\ host.streams = Nobody
      /\ host.transport \in {t, Nobody} /\ host.reader = Nobody /\ ~host.closing /\ busy = "connect"
      /\ at["dispose"] \in {"idle", "transport", "done"}
      /\ Disposed /\ host.transport = t => host.orphan = t
  BY OpeningIsHeld DEF OpenFails, Phases, Orphaned, Relays, TypeOK, Processes
<1>2. /\ at' \in [Processes -> {"idle", "reset", "open", "writer", "transport", "done"}]
      /\ at'["operator"] = "idle" /\ at'["dispose"] = at["dispose"] /\ busy' = "no" /\ held' = held
  BY DEF OpenFails, TypeOK, Processes
<1>3. /\ host' \in HostRecords /\ host'.transport = Nobody /\ host'.streams = Nobody /\ host'.reader = Nobody
      /\ host'.writer = Nobody /\ ~host'.closing /\ host'.orphan = host.orphan
  BY <1>1 DEF OpenFails, TypeOK, HostRecords
<1>4. /\ link' \in [Transports -> LinkRecords] /\ Closed(link'[t]) /\ link'[t].kind = link[t].kind
      /\ \A s \in Transports \ {t} : link'[s] = link[s]
  BY ClosedTyped DEF OpenFails, TypeOK
<1>5. ui' \in UiRecords
  BY ShowsTyped DEF OpenFails, TypeOK, ConnStates
<1>6. Phases' /\ Orphaned'
  BY <1>1, <1>2, <1>3 DEF Phases, Orphaned, Disposed, Processes
<1>7. Relays'
  BY <1>3 DEF Relays
<1>8. Devices'
  <2>1. \A s \in Transports : ~Held(s)' => Closed(link'[s])
    BY <1>1, <1>2, <1>3, <1>4 DEF Devices, Held, Processes
  <2>2. \A q \in Processes :
          at'[q] = "transport" => held'[q] \in Transports /\ link'[held'[q]].kind = "serial"
    BY <1>2, <1>4 DEF Devices, Processes
  <2> QED
    BY <1>2, <2>1, <2>2 DEF Devices
<1> QED
  BY <1>2, <1>3, <1>4, <1>5, <1>6, <1>7, <1>8 DEF OpenFails, TypeOK, Addressed

\* A transport that changes on its own has not been closed.
LEMMA ChangesOrder ==
    ASSUME Order, NEW t \in Transports, NEW record \in LinkRecords, Changes(t, record), ~Closed(link[t]),
           record.kind = link[t].kind,
           at["operator"] \in {"reset", "open"} /\ t = held["operator"] =>
              ~record.up /\ record.state \in {"closed", "opening", "error"}
    PROVE  Order'
<1> USE DEF Order
<1>1. /\ link' \in [Transports -> LinkRecords] /\ link'[t] = record
      /\ \A s \in Transports \ {t} : link'[s] = link[s]
      /\ UNCHANGED <<busy, at, held, host, worker, toMain, sends, placed>>
  BY DEF Changes, TypeOK
<1>2. ui' \in UiRecords /\ toWorker' \in Seq(AddressedRequests)
  <2>1. record.state \in ConnStates
    BY DEF LinkRecords
  <2>2. Shows(ui, record.state) \in UiRecords /\ Defaults(record.state, t) \in Seq(AddressedRequests)
    BY <2>1, ShowsTyped, DefaultsTyped DEF TypeOK
  <2>3. \A q \in Seq(AddressedRequests) : toWorker \o q \in Seq(AddressedRequests)
    BY DEF Addressed
  <2> QED
    BY <2>2, <2>3 DEF Changes, Emit, Addressed, TypeOK
<1>3. Phases' /\ Orphaned' /\ Relays'
  BY <1>1 DEF Phases, Orphaned, Relays, Disposed
<1>4. Held(t)
  BY DEF Devices
<1>5. Devices'
  <2>1. \A s \in Transports : ~Held(s)' => Closed(link'[s])
    BY <1>1, <1>4 DEF Devices, Held
  <2>2. \A q \in Processes :
          at'[q] = "transport" => held'[q] \in Transports /\ link'[held'[q]].kind = "serial"
    BY <1>1 DEF Devices
  <2> QED
    BY <1>1, <2>1, <2>2, HeldTyped DEF Devices
<1> QED
  BY <1>1, <1>2, <1>3, <1>5 DEF TypeOK, Addressed, AddressedRequests

\* The states in which a transport may change on its own, and to what.
LEMMA OwnChanges ==
    ASSUME Order, NEW t \in Transports,
           SocketError(t) \/ Drop(t) \/ Reconnect(t) \/ PipeError(t) \/ Unplug(t) \/ End(t)
    PROVE  \E record \in LinkRecords :
              /\ Changes(t, record) /\ ~Closed(link[t]) /\ record.kind = link[t].kind
              /\ at["operator"] \in {"reset", "open"} /\ t = held["operator"] =>
                    ~record.up /\ record.state \in {"closed", "opening", "error"}
<1> DEFINE r == link[t]
<1>1. r \in LinkRecords
  BY DEF Order, TypeOK
<1>2. at["operator"] \in {"reset", "open"} /\ t = held["operator"] =>
         ~r.up /\ r.state \in {"closed", "opening", "error"}
  BY DEF Order, Devices
<1> HIDE DEF r
<1>3. CASE SocketError(t)
  <2> DEFINE n == [r EXCEPT !.state = "error"]
  <2>1. n \in LinkRecords /\ n.state = "error" /\ n.up = r.up /\ n.kind = r.kind
    BY <1>1 DEF LinkRecords, ConnStates
  <2>2. Changes(t, n) /\ ~Closed(r)
    BY <1>3 DEF SocketError, Closed, r
  <2> HIDE DEF n
  <2> QED
    BY <1>2, <2>1, <2>2 DEF r
<1>4. CASE Drop(t)
  <2> DEFINE n == [r EXCEPT !.state = "reconnecting", !.up = FALSE]
  <2>1. n \in LinkRecords /\ n.kind = r.kind
    BY <1>1 DEF LinkRecords, ConnStates
  <2>2. Changes(t, n) /\ r.up
    BY <1>4 DEF Drop, r
  <2> HIDE DEF n
  <2> QED
    BY <1>2, <2>1, <2>2 DEF r, Closed
<1>5. CASE Reconnect(t)
  <2> DEFINE n == [r EXCEPT !.state = "open", !.up = TRUE]
  <2>1. n \in LinkRecords /\ n.kind = r.kind
    BY <1>1 DEF LinkRecords, ConnStates
  <2>2. Changes(t, n) /\ r.state = "reconnecting"
    BY <1>5 DEF Reconnect, r
  <2> HIDE DEF n
  <2> QED
    BY <1>2, <2>1, <2>2 DEF r, Closed
<1>6. CASE PipeError(t) \/ Unplug(t)
  <2>1. r.up /\ Stopped(t) \subseteq {"flowing", "room", "stuck"} /\ r.tx \in {"flowing", "room", "stuck"}
    BY <1>1, <1>6 DEF PipeError, Unplug, Stopped, r, LinkRecords
  <2>2. \A x \in {"flowing", "room", "stuck"} :
           LET n == [r EXCEPT !.state = "error", !.tx = x]
               m == [r EXCEPT !.state = "error", !.up = FALSE, !.tx = x]
           IN  n \in LinkRecords /\ m \in LinkRecords /\ n.kind = r.kind /\ m.kind = r.kind
    BY <1>1 DEF LinkRecords, ConnStates
  <2>3. \E record \in LinkRecords : Changes(t, record) /\ record.kind = r.kind
    BY <1>6, <2>1, <2>2 DEF PipeError, Unplug, r
  <2> QED
    BY <1>2, <2>1, <2>3 DEF r, Closed
<1>7. CASE End(t)
  <2> DEFINE n == [r EXCEPT !.state = "closed", !.up = FALSE]
  <2>1. n \in LinkRecords /\ n.kind = r.kind
    BY <1>1 DEF LinkRecords, ConnStates
  <2>2. Changes(t, n) /\ r.state = "open"
    BY <1>7 DEF End, r
  <2> HIDE DEF n
  <2> QED
    BY <1>2, <2>1, <2>2 DEF r, Closed
<1> QED
  BY <1>3, <1>4, <1>5, <1>6, <1>7

-----------------------------------------------------------------------------
(* The order of calls, and the devices.                                    *)

LEMMA InitOrder == Init => Order
<1> SUFFICES ASSUME Init PROVE Order
  OBVIOUS
<1> USE DEF Init
<1>1. TypeOK
  <2>1. ui \in UiRecords /\ host \in HostRecords /\ worker \in WorkerRecords
    BY DEF UiRecords, HostRecords, WorkerRecords, NoSession, ConnStates
  <2>2. [kind |-> "none", state |-> "closed", up |-> FALSE, tx |-> "flowing", unread |-> FALSE] \in LinkRecords
    BY DEF LinkRecords, ConnStates
  <2>3. link \in [Transports -> LinkRecords]
    BY <2>2
  <2>4. sends \in 0 .. MaxSends
    BY LinkAssumption
  <2> QED
    BY <2>1, <2>3, <2>4 DEF TypeOK
<1>2. Phases /\ Orphaned /\ Relays /\ Devices /\ Addressed
  BY DEF Phases, Orphaned, Relays, Devices, Addressed, Closed, Disposed, Processes
<1> QED
  BY <1>1, <1>2 DEF Order

\* The buttons and the unmounting.
LEMMA ButtonsOrder == ASSUME Order, Connect \/ Disconnect \/ Dispose PROVE Order'
<1> USE DEF Order
<1>1. CASE Connect
  <2>1. at["operator"] = "idle" /\ ~Disposed /\ UNCHANGED <<sends, placed>>
    BY <1>1 DEF Connect, Phases
  <2>2. CASE host.transport = Nobody
    <3>1. Create(host, ui, toWorker, link)
      BY <1>1, <2>2 DEF Connect
    <3>2. \A q \in Processes : at[q] = "idle"
      BY <2>1 DEF Disposed, Processes
    <3>3. ~host.closing /\ host.writer = Nobody /\ host.streams = Nobody /\ host.reader = Nobody
      BY <2>2, <3>2 DEF Relays
    <3>4. \A t \in Transports : Closed(link[t])
      BY <2>2, <3>2, Constants DEF Devices, Held, Nobody
    <3>5. host.orphan = Nobody
      BY <2>1 DEF Orphaned
    <3>6. LetsGo("operator", "connect", host, ui, toWorker, link)
      BY <2>1, <2>2, <3>2, <3>3, <3>4, <3>5 DEF LetsGo, TypeOK, Addressed, Processes
    <3> QED
      BY <2>1, <3>1, <3>6, CreateOrder
  <2>3. CASE host.transport # Nobody
    <3>1. StartDisconnect("operator", "connect")
      BY <1>1, <2>3 DEF Connect
    <3> QED
      BY <2>1, <3>1, StartOrder DEF Processes
  <2> QED
    BY <2>2, <2>3
<1>2. CASE Disconnect
  BY <1>2, StartOrder DEF Disconnect, Phases, Processes
<1>3. CASE Dispose
  BY <1>3, StartOrder DEF Dispose, Processes
<1> QED
  BY <1>1, <1>2, <1>3

LEMMA NextOrder == Order /\ [Next]_vars => Order'
<1> SUFFICES ASSUME Order, [Next]_vars PROVE Order'
  OBVIOUS
<1>1. CASE Operator
  BY <1>1, ButtonsOrder, SendOrder DEF Operator
<1>2. CASE Calls
  BY <1>2, WriterClosedOrder, PortClosedOrder DEF Calls
<1>3. CASE Worker
  BY <1>3, WorkerReceivesOrder, TimerOrder DEF Worker
<1>4. CASE MainReceives
  BY <1>4, MainReceivesOrder
<1>5. ASSUME NEW t \in Transports, Opened(t) \/ OpenFails(t) PROVE Order'
  BY <1>5, OpenedOrder, OpenFailsOrder
<1>6. ASSUME NEW t \in Transports, Pump(t) \/ WriteDone(t) \/ Chunk(t) PROVE Order'
  BY <1>6, PumpOrder, WriteDoneOrder, ChunkOrder
<1>7. ASSUME NEW t \in Transports,
             SocketError(t) \/ Drop(t) \/ Reconnect(t) \/ PipeError(t) \/ Unplug(t) \/ End(t)
      PROVE  Order'
  BY <1>7, OwnChanges, ChangesOrder
<1>8. CASE UNCHANGED vars
  BY <1>8 DEF vars, Order, TypeOK, Phases, Orphaned, Relays, Devices, Held, Addressed, Disposed
<1> QED
  BY <1>1, <1>2, <1>3, <1>4, <1>5, <1>6, <1>7, <1>8 DEF Next, Transport

LEMMA Ordered == Spec => []Order
BY InitOrder, NextOrder, PTL DEF Spec

\* Every variable has its type: in particular no request or answer names a transport that
\* does not exist, and no write is taken off the chain that was not put on it.
THEOREM LinkTypes == Spec => []TypeOK
<1>1. Order => TypeOK
  BY DEF Order
<1> QED
  BY <1>1, Ordered, PTL

\* Two devices are never open at once, none is left open by a call that has ended, and
\* none after dispose(), wherever connect() and disconnect() stand when the provider
\* unmounts and whatever the transports do meanwhile (connect, disconnect, dispose).
\* The one exception is the device of a connect() that dispose() finds still leaving an
\* earlier link: connect() goes on, opens it, and nothing closes it.
THEOREM DevicesLetGo == Spec => []DevicesAreLetGo
<1>1. Order => DevicesAreLetGo
  <2> SUFFICES ASSUME Order PROVE DevicesAreLetGo
    OBVIOUS
  <2> USE DEF Order
  <2> DEFINE Opens == {t \in Transports \ {host.orphan} : link[t].up}
  <2>1. \A t \in Opens : Held(t)
    BY DEF Devices, Closed
  <2>2. ASSUME NEW s \in Opens, NEW t \in Opens PROVE s = t
    <3>1. Held(s) /\ Held(t) /\ s # Nobody /\ t # Nobody
      BY <2>1, Constants DEF Nobody
    <3>2. CASE \E p \in Processes : at[p] = "transport"
      BY <3>1, <3>2 DEF Held, Phases
    <3>3. CASE ~\E p \in Processes : at[p] = "transport"
      BY <3>1, <3>3 DEF Held
    <3> QED
      BY <3>2, <3>3
  <2>3. Cardinality(Opens) <= 1
    <3>1. CASE Opens = {}
      BY <3>1, FS_EmptySet
    <3>2. CASE Opens # {}
      <4>1. PICK t : t \in Opens
        BY <3>2
      <4>2. Opens = {t}
        BY <2>2, <4>1
      <4>3. Cardinality({t}) = 1
        BY FS_Singleton
      <4> HIDE DEF Opens
      <4> QED
        BY <4>2, <4>3
    <3> QED
      BY <3>1, <3>2
  <2>4. busy = "no" /\ ~Disposed => Opens \subseteq {host.transport}
    BY <2>1 DEF Held, Phases, Disposed, Processes
  <2>5. at["dispose"] = "done" /\ busy = "no" => Opens = {}
    BY <2>1, Constants DEF Held, Phases, Processes, Nobody
  <2> QED
    BY <2>3, <2>4, <2>5 DEF DevicesAreLetGo, OneOpenDevice, NothingOpenAfterDispose
<1> QED
  BY <1>1, Ordered, PTL

-----------------------------------------------------------------------------
(* The outgoing stream.                                                    *)

CancelOf(s) == [m |-> "cancel outgoing", of |-> s]
OutgoingOf(s) == [m |-> "outgoing", of |-> s]

\* Before its i-th message has been received the outgoing stream of s is cancelled: the one
\* attached now, and every one that is requested on the way.
CancelledBefore(q, sink, s, i) ==
    /\ sink = s => \E j \in DOMAIN q : j < i /\ q[j] = CancelOf(s)
    /\ \A k \in DOMAIN q : k < i /\ q[k] = OutgoingOf(s) =>
          \E j \in DOMAIN q : k < j /\ j < i /\ q[j] = CancelOf(s)

\* The streams that the host has aborted are cancelled by what queue q holds, and those of
\* other transports are cancelled before a message for one arrives.
SinksCancelled(q, sink, streams) ==
    /\ \A s \in Transports \ {streams} : CancelledBefore(q, sink, s, Len(q) + 1)
    /\ \A i \in DOMAIN q : q[i].m \in {"send", "defaults"} =>
          \A s \in Transports \ {q[i].of} : CancelledBefore(q, sink, s, i)

SinkOrder ==
    /\ Order
    /\ SinksCancelled(toWorker, worker.sink, host.streams)
    /\ at["dispose"] = "done" => toWorker = <<>> /\ worker.sink = Nobody
    /\ SentOnThisLink

\* One more message at the end of the queue.
LEMMA AppendTail ==
    ASSUME NEW q \in Seq(AddressedRequests), NEW r \in AddressedRequests
    PROVE  /\ Append(q, r) \in Seq(AddressedRequests)
           /\ Len(Append(q, r)) = Len(q) + 1
           /\ DOMAIN q = 1 .. Len(q) /\ Len(q) \in Nat
           /\ DOMAIN Append(q, r) = 1 .. Len(q) + 1
           /\ \A i \in DOMAIN q : Append(q, r)[i] = q[i]
           /\ Append(q, r)[Len(q) + 1] = r
OBVIOUS

LEMMA AppendKeepsBefore ==
    ASSUME NEW q \in Seq(AddressedRequests), NEW r \in AddressedRequests, NEW sink, NEW s,
           NEW i \in 1 .. Len(q) + 1, CancelledBefore(q, sink, s, i)
    PROVE  CancelledBefore(Append(q, r), sink, s, i)
<1>1. \A j \in DOMAIN q : j \in DOMAIN Append(q, r) /\ Append(q, r)[j] = q[j]
  BY AppendTail
<1>2. \A j \in DOMAIN Append(q, r) : j < i => j \in DOMAIN q
  BY AppendTail
<1> QED
  BY <1>1, <1>2 DEF CancelledBefore

LEMMA AppendOther ==
    ASSUME NEW q \in Seq(AddressedRequests), NEW r \in AddressedRequests, NEW sink, NEW streams,
           SinksCancelled(q, sink, streams), r.m # "outgoing",
           r.m \in {"send", "defaults"} => streams \in {Nobody, r.of}
    PROVE  SinksCancelled(Append(q, r), sink, streams)
<1> DEFINE n == Len(q) + 1
<1>1. /\ n \in 1 .. Len(q) + 1 /\ DOMAIN q = 1 .. Len(q) /\ Len(q) \in Nat
      /\ Len(Append(q, r)) = n /\ DOMAIN Append(q, r) = 1 .. n
      /\ (\A i \in DOMAIN q : Append(q, r)[i] = q[i]) /\ Append(q, r)[n] = r
  BY AppendTail
<1>2. \A s \in Transports \ {streams} : CancelledBefore(Append(q, r), sink, s, n)
  BY <1>1, AppendKeepsBefore DEF SinksCancelled
<1>3. ASSUME NEW s \in Transports \ {streams} PROVE CancelledBefore(Append(q, r), sink, s, n + 1)
  <2>1. Append(q, r)[n] # OutgoingOf(s)
    BY <1>1 DEF OutgoingOf
  <2> QED
    BY <1>1, <1>2, <2>1 DEF CancelledBefore
<1>4. ASSUME NEW i \in DOMAIN Append(q, r), Append(q, r)[i].m \in {"send", "defaults"},
             NEW s \in Transports \ {Append(q, r)[i].of}
      PROVE  CancelledBefore(Append(q, r), sink, s, i)
  <2>1. CASE i \in DOMAIN q
    BY <1>1, <1>4, <2>1, AppendKeepsBefore DEF SinksCancelled
  <2>2. CASE i = n
    BY <1>1, <1>2, <1>4, <2>2, Constants DEF Nobody
  <2> QED
    BY <1>1, <2>1, <2>2
<1> QED
  BY <1>1, <1>3, <1>4 DEF SinksCancelled

\* The host has the streams of t from now on.
LEMMA AppendOutgoing ==
    ASSUME NEW q \in Seq(AddressedRequests), NEW t \in Transports, NEW sink,
           SinksCancelled(q, sink, Nobody), OutgoingOf(t) \in AddressedRequests
    PROVE  SinksCancelled(Append(q, OutgoingOf(t)), sink, t)
<1> DEFINE r == OutgoingOf(t)
           n == Len(q) + 1
<1>1. /\ n \in 1 .. Len(q) + 1 /\ DOMAIN q = 1 .. Len(q) /\ Len(q) \in Nat
      /\ Len(Append(q, r)) = n /\ DOMAIN Append(q, r) = 1 .. n
      /\ (\A i \in DOMAIN q : Append(q, r)[i] = q[i]) /\ Append(q, r)[n] = r
  BY AppendTail
<1>2. \A s \in Transports : CancelledBefore(Append(q, r), sink, s, n)
  BY <1>1, AppendKeepsBefore, Constants DEF SinksCancelled, Nobody
<1>3. ASSUME NEW s \in Transports \ {t} PROVE CancelledBefore(Append(q, r), sink, s, n + 1)
  <2>1. Append(q, r)[n] # OutgoingOf(s)
    BY <1>1 DEF OutgoingOf
  <2> QED
    BY <1>1, <1>2, <2>1 DEF CancelledBefore
<1>4. ASSUME NEW i \in DOMAIN Append(q, r), Append(q, r)[i].m \in {"send", "defaults"},
             NEW s \in Transports \ {Append(q, r)[i].of}
      PROVE  CancelledBefore(Append(q, r), sink, s, i)
  <2>1. i \in DOMAIN q
    BY <1>1, <1>4 DEF OutgoingOf
  <2> QED
    BY <1>1, <1>4, <2>1, AppendKeepsBefore DEF SinksCancelled
<1> QED
  BY <1>1, <1>3, <1>4 DEF SinksCancelled

\* The host has aborted the streams of t, and cancels them.
LEMMA AppendCancel ==
    ASSUME NEW q \in Seq(AddressedRequests), NEW t \in Transports, NEW sink,
           SinksCancelled(q, sink, t), CancelOf(t) \in AddressedRequests
    PROVE  SinksCancelled(Append(q, CancelOf(t)), sink, Nobody)
<1> DEFINE r == CancelOf(t)
           n == Len(q) + 1
<1>1. /\ n \in 1 .. Len(q) + 1 /\ DOMAIN q = 1 .. Len(q) /\ Len(q) \in Nat
      /\ Len(Append(q, r)) = n /\ DOMAIN Append(q, r) = 1 .. n
      /\ (\A i \in DOMAIN q : Append(q, r)[i] = q[i]) /\ Append(q, r)[n] = r
  BY AppendTail
<1>2. SinksCancelled(Append(q, r), sink, t)
  BY AppendOther DEF CancelOf
<1>3. CancelledBefore(Append(q, r), sink, t, n + 1)
  <2>1. Append(q, r)[n] # OutgoingOf(t)
    <3>1. r # OutgoingOf(t)
      BY DEF OutgoingOf, CancelOf
    <3> HIDE DEF r
    <3> QED
      BY <1>1, <3>1
  <2> QED
    BY <1>1, <2>1 DEF CancelledBefore
<1> QED
  BY <1>1, <1>2, <1>3 DEF SinksCancelled

\* The worker receives the first message.
LEMMA ReceiveFirst ==
    ASSUME NEW q \in Seq(AddressedRequests), q # <<>>, NEW sink, NEW sink2, NEW streams,
           SinksCancelled(q, sink, streams),
           sink2 # Nobody => (sink2 = sink /\ q[1] # CancelOf(sink)) \/ q[1] = OutgoingOf(sink2)
    PROVE  SinksCancelled(Tail(q), sink2, streams)
<1>1. /\ DOMAIN q = 1 .. Len(q) /\ Len(q) \in Nat /\ Len(q) > 0
      /\ Len(Tail(q)) = Len(q) - 1 /\ DOMAIN Tail(q) = 1 .. Len(q) - 1
      /\ \A i \in DOMAIN Tail(q) : Tail(q)[i] = q[i + 1]
  OBVIOUS
<1>2. ASSUME NEW s \in Transports, NEW i \in 1 .. Len(q), CancelledBefore(q, sink, s, i + 1)
      PROVE  CancelledBefore(Tail(q), sink2, s, i)
  <2>1. ASSUME NEW k \in DOMAIN Tail(q), k < i, Tail(q)[k] = OutgoingOf(s)
        PROVE  \E j \in DOMAIN Tail(q) : k < j /\ j < i /\ Tail(q)[j] = CancelOf(s)
    <3>1. PICK j \in DOMAIN q : k + 1 < j /\ j < i + 1 /\ q[j] = CancelOf(s)
      BY <1>1, <1>2, <2>1 DEF CancelledBefore
    <3>2. j - 1 \in DOMAIN Tail(q) /\ Tail(q)[j - 1] = q[j]
      BY <1>1, <3>1
    <3> QED
      BY <1>1, <3>1, <3>2
  <2>2. ASSUME sink2 = s PROVE \E j \in DOMAIN Tail(q) : j < i /\ Tail(q)[j] = CancelOf(s)
    <3>1. \E j \in DOMAIN q : 1 < j /\ j < i + 1 /\ q[j] = CancelOf(s)
      <4>1. CASE sink2 = sink /\ q[1] # CancelOf(sink)
        <5>1. PICK j \in DOMAIN q : j < i + 1 /\ q[j] = CancelOf(s)
          BY <1>2, <2>2, <4>1 DEF CancelledBefore
        <5> QED
          BY <1>1, <2>2, <4>1, <5>1
      <4>2. CASE q[1] = OutgoingOf(sink2)
        BY <1>1, <1>2, <2>2, <4>2 DEF CancelledBefore
      <4> QED
        BY <2>2, <4>1, <4>2, Constants DEF Nobody
    <3>2. PICK j \in DOMAIN q : 1 < j /\ j < i + 1 /\ q[j] = CancelOf(s)
      BY <3>1
    <3>3. j - 1 \in DOMAIN Tail(q) /\ Tail(q)[j - 1] = q[j]
      BY <1>1, <3>2
    <3> QED
      BY <1>1, <3>2, <3>3
  <2> QED
    BY <2>1, <2>2 DEF CancelledBefore
<1>3. \A s \in Transports \ {streams} : CancelledBefore(Tail(q), sink2, s, Len(Tail(q)) + 1)
  BY <1>1, <1>2 DEF SinksCancelled
<1>4. ASSUME NEW i \in DOMAIN Tail(q), Tail(q)[i].m \in {"send", "defaults"},
             NEW s \in Transports \ {Tail(q)[i].of}
      PROVE  CancelledBefore(Tail(q), sink2, s, i)
  BY <1>1, <1>2, <1>4 DEF SinksCancelled
<1> QED
  BY <1>3, <1>4 DEF SinksCancelled

LEMMA RequestAppends ==
    ASSUME NEW q \in Seq(AddressedRequests), NEW m, NEW t, [m |-> m, of |-> t] \in AddressedRequests
    PROVE  q \o Request(m, t) = Append(q, [m |-> m, of |-> t])
BY AppendIsConcat DEF Request

\* Another message than those about the outgoing stream, of a transport or of none.
LEMMA OtherRequest ==
    ASSUME NEW q \in Seq(AddressedRequests), NEW sink, NEW streams, SinksCancelled(q, sink, streams),
           NEW m \in Requests \ {"outgoing"}, NEW t, [m |-> m, of |-> t] \in AddressedRequests,
           m \in {"send", "defaults"} => streams \in {Nobody, t}
    PROVE  /\ q \o Request(m, t) \in Seq(AddressedRequests)
           /\ SinksCancelled(q \o Request(m, t), sink, streams)
<1> DEFINE r == [m |-> m, of |-> t]
<1>1. r \in AddressedRequests /\ r.m = m /\ r.of = t
  OBVIOUS
<1>2. q \o Request(m, t) = Append(q, r)
  BY RequestAppends
<1> HIDE DEF r
<1> QED
  BY <1>1, <1>2, AppendOther, AppendTail

LEMMA KnownRequest ==
    ASSUME NEW m \in Requests, NEW t \in Transports
    PROVE  [m |-> m, of |-> t] \in AddressedRequests
BY Constants DEF AddressedRequests, RequestRecords, Nobody

\* Aborting both streams cancels them.
LEMMA CancelsCancel ==
    ASSUME SinkOrder
    PROVE  SinksCancelled(toWorker \o Cancels, worker.sink, Nobody)
<1> USE DEF SinkOrder, Order, Addressed
<1>1. host.streams \in Transports \cup {Nobody}
  BY DEF TypeOK, HostRecords
<1>2. CASE host.streams = Nobody
  <2>1. toWorker \o Cancels = toWorker
    BY <1>2 DEF Cancels
  <2> QED
    BY <1>2, <2>1
<1>3. CASE host.streams \in Transports
  <2> DEFINE t == host.streams
             q == toWorker \o Request("cancel telemetry", t)
  <2>1. q \in Seq(AddressedRequests) /\ SinksCancelled(q, worker.sink, t)
    BY <1>3, KnownRequest, OtherRequest DEF Requests
  <2>2. CancelOf(t) \in AddressedRequests
    BY <1>3, KnownRequest DEF CancelOf, Requests
  <2>3. toWorker \o Cancels = Append(q, CancelOf(t))
    <3>1. Cancels = Request("cancel telemetry", t) \o Request("cancel outgoing", t)
      BY <1>3, Constants DEF Cancels, Nobody
    <3>2. toWorker \o Cancels = q \o Request("cancel outgoing", t)
      <4>1. /\ Request("cancel telemetry", t) \in Seq(AddressedRequests)
            /\ Request("cancel outgoing", t) \in Seq(AddressedRequests)
        BY <1>3, RequestTyped DEF Requests
      <4>2. \A a, b, c \in Seq(AddressedRequests) : a \o (b \o c) = (a \o b) \o c
        OBVIOUS
      <4> QED
        BY <3>1, <4>1, <4>2
    <3> QED
      BY <2>1, <2>2, <3>2, RequestAppends DEF CancelOf
  <2> HIDE DEF q
  <2> QED
    BY <1>3, <2>1, <2>2, <2>3, AppendCancel
<1> QED
  BY <1>1, <1>2, <1>3

\* What the end of disconnect() does to the channel.
ChannelEnd(w) ==
    \/ /\ host'.streams = Nobody /\ worker' = worker
       /\ toWorker' = w \/ \E t \in Transports : toWorker' = w \o Request("reset", t)
    \/ toWorker' = <<>> /\ worker'.sink = Nobody

LEMMA FinishChannel ==
    ASSUME NEW p \in Processes, NEW doing, NEW h \in HostRecords, NEW u, NEW w \in Seq(AddressedRequests),
           NEW l, Finish(p, doing, h, u, w, l),
           p = "operator" => doing \in {"connect", "disconnect"} /\ h.streams = Nobody
    PROVE  ChannelEnd(w)
<1>1. CASE p = "operator" /\ doing = "connect"
  <2>1. PICK t \in Transports :
        /\ host' = [h EXCEPT !.transport = t, !.orphan = IF Disposed THEN t ELSE h.orphan]
        /\ toWorker' = w \o (IF at["dispose"] = "done" THEN <<>> ELSE Request("reset", t))
        /\ UNCHANGED <<worker, toMain>>
    BY <1>1 DEF Finish, Create
  <2>2. host'.streams = Nobody
    BY <1>1, <2>1 DEF HostRecords
  <2>3. w \o <<>> = w
    OBVIOUS
  <2> QED
    BY <2>1, <2>2, <2>3 DEF ChannelEnd
<1>2. CASE p = "operator" /\ doing = "disconnect"
  BY <1>2 DEF Finish, ChannelEnd
<1>3. CASE p = "dispose"
  BY <1>3 DEF Finish, DropChannel, NoSession, ChannelEnd
<1> QED
  BY <1>1, <1>2, <1>3 DEF Processes

LEMMA LetGoChannel ==
    ASSUME NEW p \in Processes, NEW doing, NEW h \in HostRecords, NEW u, NEW w \in Seq(AddressedRequests),
           NEW l, h.streams = Nobody, LetGo(p, doing, h, u, w, l),
           p = "operator" => doing \in {"connect", "disconnect"}
    PROVE  ChannelEnd(w)
<1> DEFINE gone == [h EXCEPT !.transport = Nobody]
<1>1. gone \in HostRecords /\ gone.streams = Nobody
  BY DEF HostRecords
<1>2. \/ host' = gone /\ toWorker' = w /\ worker' = worker
      \/ \E l2 : Finish(p, doing, gone, u, w, l2)
  BY DEF LetGo
<1> HIDE DEF gone
<1> QED
  BY <1>1, <1>2, FinishChannel DEF ChannelEnd

LEMMA EndSinks ==
    ASSUME SinkOrder, Order', NEW w \in Seq(AddressedRequests), ChannelEnd(w),
           SinksCancelled(w, worker.sink, Nobody)
    PROVE  SinksCancelled(toWorker', worker'.sink, host'.streams)
<1>1. CASE host'.streams = Nobody /\ worker' = worker /\ toWorker' = w
  BY <1>1
<1>2. ASSUME NEW t \in Transports, host'.streams = Nobody, worker' = worker,
             toWorker' = w \o Request("reset", t)
      PROVE  SinksCancelled(toWorker', worker'.sink, host'.streams)
  BY <1>2, OtherRequest, KnownRequest DEF Requests
<1>3. CASE toWorker' = <<>> /\ worker'.sink = Nobody
  BY <1>3, Constants DEF SinksCancelled, CancelledBefore, Nobody
<1> QED
  BY <1>1, <1>2, <1>3 DEF ChannelEnd

\* After dispose() the channel is empty and the worker has no stream.
ChannelGone == at["dispose"] = "done" => toWorker = <<>> /\ worker.sink = Nobody

LEMMA FinishGone ==
    ASSUME TypeOK, NEW p \in Processes, NEW doing, NEW h, NEW u, NEW w, NEW l, Finish(p, doing, h, u, w, l),
           at["dispose"] = "done" => w = <<>> /\ worker.sink = Nobody,
           p = "operator" => doing \in {"connect", "disconnect"}
    PROVE  ChannelGone'
<1>1. CASE p = "operator" /\ doing = "connect"
  <2>1. /\ at' = [at EXCEPT !["operator"] = "reset"] /\ worker' = worker
        /\ at["dispose"] = "done" => toWorker' = w \o <<>>
    BY <1>1 DEF Finish, Create
  <2>2. <<>> \o <<>> = <<>>
    OBVIOUS
  <2> QED
    BY <2>1, <2>2 DEF ChannelGone, TypeOK, Processes
<1>2. CASE p = "operator" /\ doing = "disconnect"
  BY <1>2 DEF Finish, ChannelGone, TypeOK, Processes
<1>3. CASE p = "dispose"
  BY <1>3 DEF Finish, DropChannel, NoSession, ChannelGone
<1> QED
  BY <1>1, <1>2, <1>3 DEF Processes

LEMMA LetGoGone ==
    ASSUME TypeOK, NEW p \in Processes, NEW doing, NEW h, NEW u, NEW w, NEW l, LetGo(p, doing, h, u, w, l),
           at["dispose"] = "done" => w = <<>> /\ worker.sink = Nobody,
           p = "operator" => doing \in {"connect", "disconnect"}
    PROVE  ChannelGone'
<1>1. \/ at' = [at EXCEPT ![p] = "transport"] /\ toWorker' = w /\ worker' = worker
      \/ \E h2, l2 : Finish(p, doing, h2, u, w, l2)
  BY DEF LetGo
<1> QED
  BY <1>1, FinishGone DEF ChannelGone, TypeOK, Processes

\* The disconnect() of either party.
LEMMA StartSinks ==
    ASSUME SinkOrder, Order', NEW p \in Processes, NEW doing, StartDisconnect(p, doing), UNCHANGED placed,
           ~Disposed, p = "operator" => doing \in {"connect", "disconnect"}
    PROVE  SinkOrder'
<1> USE DEF SinkOrder
<1> DEFINE h == [host EXCEPT !.streams = Nobody, !.reader = Nobody, !.pumping = FALSE]
           u == IF p = "dispose" \/ ClosedByCancel = {} THEN ui ELSE Shows(ui, "closed")
           w == toWorker \o Cancels
           l == LinkWithout(ClosedByCancel)
<1>1. h \in HostRecords /\ h.streams = Nobody /\ [h EXCEPT !.closing = TRUE].streams = Nobody
  BY DEF Order, TypeOK, HostRecords
<1>2. w \in Seq(AddressedRequests) /\ SinksCancelled(w, worker.sink, Nobody)
  BY CancelsTyped, CancelsCancel DEF Order, Addressed
<1>3. \/ /\ at' = [at EXCEPT ![p] = "writer"] /\ host' = [h EXCEPT !.closing = TRUE]
         /\ toWorker' = w /\ worker' = worker
      \/ LetGo(p, doing, h, u, w, l)
  BY DEF StartDisconnect
<1> HIDE DEF h, u, w, l
<1>4. ChannelEnd(w)
  BY <1>1, <1>2, <1>3, LetGoChannel DEF ChannelEnd
<1>5. SinksCancelled(toWorker', worker'.sink, host'.streams)
  BY <1>2, <1>4, EndSinks
<1>6. ChannelGone'
  <2>1. CASE at' = [at EXCEPT ![p] = "writer"]
    BY <2>1 DEF ChannelGone, Disposed, Order, TypeOK, Processes
  <2>2. CASE LetGo(p, doing, h, u, w, l)
    BY <2>2, LetGoGone DEF Disposed, Order
  <2> QED
    BY <1>3, <2>1, <2>2
<1> QED
  BY <1>5, <1>6 DEF ChannelGone, SentOnThisLink

LEMMA CallsSinks ==
    ASSUME SinkOrder, Order', NEW p \in Processes, WriterClosed(p) \/ PortClosed(p)
    PROVE  SinkOrder'
<1> USE DEF SinkOrder
<1>1. /\ host \in HostRecords /\ toWorker \in Seq(AddressedRequests) /\ TypeOK
      /\ WriterClosed(p) \/ p = "operator" => host.streams = Nobody
  BY DEF WriterClosed, PortClosed, Order, Phases, Orphaned, Relays, TypeOK, Addressed, Processes
<1>2. p = "operator" => busy \in {"connect", "disconnect"}
  BY DEF WriterClosed, PortClosed, Order, TypeOK, Phases
<1>3. ChannelEnd(toWorker) /\ ChannelGone'
  <2>1. CASE WriterClosed(p)
    <3> DEFINE h == [host EXCEPT !.writer = Nobody, !.closing = FALSE]
    <3>1. h \in HostRecords /\ h.streams = Nobody
      BY <1>1, <2>1 DEF HostRecords
    <3>2. LetGo(p, busy, h, ui, toWorker, link)
      BY <2>1 DEF WriterClosed
    <3> HIDE DEF h
    <3> QED
      BY <1>1, <1>2, <3>1, <3>2, LetGoChannel, LetGoGone
  <2>2. CASE PortClosed(p)
    BY <1>1, <1>2, <2>2, FinishChannel, FinishGone DEF PortClosed
  <2> QED
    BY <2>1, <2>2
<1>4. SinksCancelled(toWorker', worker'.sink, host'.streams)
  <2>1. CASE host.streams = Nobody
    BY <1>1, <1>3, <2>1, EndSinks
  <2>2. CASE host.streams # Nobody
    <3>1. p = "dispose" /\ Finish(p, busy, host, ui, toWorker, LinkWithout({held[p]}))
      BY <1>1, <2>2 DEF PortClosed, Processes
    <3>2. toWorker' = <<>> /\ worker' = NoSession
      BY <3>1 DEF Finish, DropChannel
    <3>3. worker'.sink = Nobody
      BY <3>2 DEF NoSession
    <3> QED
      BY <3>2, <3>3, Constants DEF SinksCancelled, CancelledBefore, Nobody
  <2> QED
    BY <2>1, <2>2
<1>5. UNCHANGED placed
  BY DEF WriterClosed, PortClosed
<1> QED
  BY <1>3, <1>4, <1>5 DEF ChannelGone, SentOnThisLink

LEMMA ConnectSinks == ASSUME SinkOrder, Order', Connect PROVE SinkOrder'
<1> USE DEF SinkOrder
<1>1. ~Disposed /\ UNCHANGED placed
  BY DEF Connect
<1>2. CASE host.transport # Nobody
  BY <1>1, <1>2, StartSinks DEF Connect, Processes
<1>3. CASE host.transport = Nobody
  <2>1. PICK t \in Transports :
        /\ host' = [host EXCEPT !.transport = t, !.orphan = IF Disposed THEN t ELSE host.orphan]
        /\ at' = [at EXCEPT !["operator"] = "reset"]
        /\ toWorker' = toWorker \o (IF at["dispose"] = "done" THEN <<>> ELSE Request("reset", t))
        /\ UNCHANGED <<worker, toMain>>
    BY <1>3 DEF Connect, Create
  <2>2. host'.streams = host.streams
    BY <2>1 DEF Order, TypeOK, HostRecords
  <2>3. SinksCancelled(toWorker', worker'.sink, host'.streams)
    BY <1>1, <2>1, <2>2, OtherRequest, KnownRequest DEF Order, Addressed, Disposed, Requests
  <2>4. at'["dispose"] # "done"
    BY <1>1, <2>1 DEF Disposed, Order, TypeOK, Processes
  <2> QED
    BY <1>1, <2>3, <2>4 DEF SentOnThisLink
<1> QED
  BY <1>2, <1>3

LEMMA SendSinks == ASSUME SinkOrder, Order', Send PROVE SinkOrder'
<1> USE DEF SinkOrder
<1> DEFINE t == host.transport
<1>1. t \in Transports \cup {Nobody} /\ host.streams \in {Nobody, t}
  BY DEF Order, TypeOK, HostRecords, Relays
<1>2. [m |-> "send", of |-> t] \in AddressedRequests /\ "send" \in Requests \ {"outgoing"}
  BY <1>1 DEF AddressedRequests, RequestRecords, Requests
<1>3. toWorker' = toWorker \o Request("send", t) /\ UNCHANGED <<worker, host, at, placed>> /\ ~Disposed
  BY DEF Send
<1> HIDE DEF t
<1>4. SinksCancelled(toWorker', worker'.sink, host'.streams)
  BY <1>1, <1>2, <1>3, OtherRequest DEF Order, Addressed
<1> QED
  BY <1>3, <1>4 DEF SentOnThisLink, Disposed

LEMMA OpenedSinks == ASSUME SinkOrder, Order', NEW t \in Transports, Opened(t) PROVE SinkOrder'
<1> USE DEF SinkOrder
<1>1. /\ host.streams = Nobody /\ toWorker \in Seq(AddressedRequests)
      /\ UNCHANGED <<worker, placed>> /\ at'["dispose"] = at["dispose"]
  BY OpeningIsHeld DEF Opened, Order, Phases, Relays, Addressed, TypeOK, Processes
<1>2. host'.streams = t
  BY DEF Opened, Order, TypeOK, HostRecords
<1>0. CASE at["dispose"] = "done"
  <2>1. toWorker' = <<>> /\ worker'.sink = Nobody
    BY <1>0, <1>1 DEF Opened
  <2>2. SinksCancelled(toWorker', worker'.sink, host'.streams)
    BY <2>1, Constants DEF SinksCancelled, CancelledBefore, Nobody
  <2> QED
    BY <1>1, <2>1, <2>2 DEF SentOnThisLink
<1> SUFFICES ASSUME at["dispose"] # "done" PROVE SinkOrder'
  BY <1>0
<1> DEFINE q1 == toWorker \o Defaults("open", t)
           q2 == q1 \o Request("telemetry", t)
<1>3. q1 \in Seq(AddressedRequests) /\ SinksCancelled(q1, worker.sink, Nobody)
  <2>1. CASE Defaults("open", t) = <<>>
    <3>1. q1 = toWorker
      BY <1>1, <2>1
    <3> QED
      BY <1>1, <3>1
  <2>2. CASE Defaults("open", t) = Request("defaults", t)
    BY <1>1, <2>2, OtherRequest, KnownRequest DEF Requests
  <2> QED
    BY <2>1, <2>2 DEF Defaults
<1> HIDE DEF q1
<1>4. q2 \in Seq(AddressedRequests) /\ SinksCancelled(q2, worker.sink, Nobody)
  BY <1>3, OtherRequest, KnownRequest DEF Requests
<1> HIDE DEF q2
<1>5. OutgoingOf(t) \in AddressedRequests
  BY KnownRequest DEF OutgoingOf, Requests
<1>6. toWorker' = Append(q2, OutgoingOf(t))
  <2>1. toWorker' = toWorker \o Defaults("open", t) \o Request("telemetry", t) \o Request("outgoing", t)
    BY <1>1 DEF Opened
  <2>2. q2 \o Request("outgoing", t) = Append(q2, OutgoingOf(t))
    BY <1>4, <1>5, RequestAppends DEF OutgoingOf
  <2> QED
    BY <2>1, <2>2 DEF q1, q2
<1>7. SinksCancelled(toWorker', worker'.sink, host'.streams)
  BY <1>1, <1>2, <1>4, <1>5, <1>6, AppendOutgoing
<1> QED
  BY <1>1, <1>7 DEF SentOnThisLink

LEMMA PumpSinks == ASSUME SinkOrder, Order', NEW t \in Transports, Pump(t) PROVE SinkOrder'
<1> USE DEF SinkOrder
<1>1. host'.streams = host.streams /\ UNCHANGED <<worker, at, placed>>
  BY DEF Pump, Order, TypeOK, HostRecords
<1>2. CASE at["dispose"] = "done"
  BY <1>1, <1>2 DEF Pump, SentOnThisLink
<1>3. CASE at["dispose"] # "done"
  <2>1. SinksCancelled(toWorker', worker'.sink, host'.streams)
    BY <1>1, <1>3, OtherRequest, KnownRequest DEF Pump, Order, Addressed, Requests
  <2> QED
    BY <1>1, <1>3, <2>1 DEF SentOnThisLink
<1> QED
  BY <1>2, <1>3

LEMMA ChangesSinks ==
    ASSUME SinkOrder, Order', NEW t \in Transports, NEW record, Changes(t, record)
    PROVE  SinkOrder'
<1> USE DEF SinkOrder
<1>1. UNCHANGED <<host, worker, at, placed>>
  BY DEF Changes
<1>2. CASE toWorker' = toWorker
  BY <1>1, <1>2 DEF SentOnThisLink
<1>3. CASE t = host.transport /\ ~Disposed /\ toWorker' = toWorker \o Request("defaults", t)
  <2>1. host.streams \in {Nobody, t}
    BY <1>3 DEF Order, Relays
  <2>2. SinksCancelled(toWorker', worker'.sink, host'.streams)
    BY <1>1, <1>3, <2>1, OtherRequest, KnownRequest DEF Order, Addressed, Requests
  <2> QED
    BY <1>1, <1>3, <2>2 DEF SentOnThisLink, Disposed
<1>4. toWorker \o <<>> = toWorker
  BY DEF Order, Addressed
<1> QED
  BY <1>2, <1>3, <1>4 DEF Changes, Emit, Defaults

LEMMA WorkerSinks == ASSUME SinkOrder, Order', WorkerReceives PROVE SinkOrder'
<1> USE DEF SinkOrder
<1> DEFINE r == Head(toWorker)
           sink == worker.sink
<1>1. /\ toWorker \in Seq(AddressedRequests) /\ toWorker # <<>> /\ toWorker' = Tail(toWorker)
      /\ r \in AddressedRequests /\ r = toWorker[1] /\ 1 \in DOMAIN toWorker /\ UNCHANGED <<host, at>>
  BY HeadTyped DEF WorkerReceives, Order, Addressed
<1>2. sink \in Transports \cup {Nobody} /\ worker \in WorkerRecords
  BY DEF Order, TypeOK, WorkerRecords
<1>3. /\ worker' = WorkerAfter(r)
      /\ placed' = IF r.m \in {"send", "defaults"} /\ sink # Nobody THEN placed \cup {<<r.of, sink>>} ELSE placed
  BY DEF WorkerReceives
<1>4. r.m \in Requests /\ r = [m |-> r.m, of |-> r.of]
  BY <1>1 DEF AddressedRequests, RequestRecords
<1> HIDE DEF r
<1>5. worker'.sink = CASE r.m = "outgoing" -> r.of
                       [] r.m = "cancel outgoing" -> (IF sink = r.of THEN Nobody ELSE sink)
                       [] OTHER -> sink
  BY <1>2, <1>3, <1>4 DEF WorkerAfter, Forgotten, Attached, Detached, WorkerRecords, Requests
<1>6. worker'.sink # Nobody =>
        (worker'.sink = sink /\ toWorker[1] # CancelOf(sink)) \/ toWorker[1] = OutgoingOf(worker'.sink)
  <2>1. CASE r.m = "outgoing"
    BY <1>1, <1>4, <1>5, <2>1 DEF OutgoingOf
  <2>2. CASE r.m = "cancel outgoing"
    <3> SUFFICES ASSUME worker'.sink # Nobody PROVE worker'.sink = sink /\ r # CancelOf(sink)
      BY <1>1
    <3>1. worker'.sink = sink /\ sink # r.of
      BY <1>5, <2>2
    <3>2. CancelOf(sink).of = sink
      BY DEF CancelOf
    <3>3. r # CancelOf(sink)
      BY <3>1, <3>2
    <3> QED
      BY <3>1, <3>3
  <2>3. CASE r.m \notin {"outgoing", "cancel outgoing"}
    <3>1. worker'.sink = sink
      BY <1>5, <2>3
    <3>2. CancelOf(sink).m = "cancel outgoing"
      BY DEF CancelOf
    <3>3. r # CancelOf(sink)
      BY <2>3, <3>2
    <3> QED
      BY <1>1, <3>1, <3>3
  <2> QED
    BY <2>1, <2>2, <2>3
<1>7. SinksCancelled(toWorker', worker'.sink, host'.streams)
  BY <1>1, <1>6, ReceiveFirst
<1>8. SentOnThisLink'
  <2>1. r.m \in {"send", "defaults"} /\ sink # Nobody => sink = r.of
    <3> SUFFICES ASSUME r.m \in {"send", "defaults"}, sink # Nobody, sink # r.of PROVE FALSE
      OBVIOUS
    <3>1. CancelledBefore(toWorker, sink, sink, 1)
      BY <1>1, <1>2 DEF SinksCancelled
    <3> QED
      BY <1>1, <3>1 DEF CancelledBefore
  <2> QED
    BY <1>3, <2>1 DEF SentOnThisLink
<1> QED
  BY <1>1, <1>7, <1>8

LEMMA RestSinks ==
    ASSUME SinkOrder, Order', UNCHANGED <<toWorker, placed>>, worker'.sink = worker.sink,
           host'.streams = host.streams, at'["dispose"] = at["dispose"]
    PROVE  SinkOrder'
BY DEF SinkOrder, SentOnThisLink

LEMMA NextSinks == SinkOrder /\ [Next]_vars => SinkOrder'
<1> SUFFICES ASSUME SinkOrder, [Next]_vars PROVE SinkOrder'
  OBVIOUS
<1>0. Order /\ Order' /\ host \in HostRecords /\ worker \in WorkerRecords
      /\ at \in [Processes -> {"idle", "reset", "open", "writer", "transport", "done"}]
  BY NextOrder DEF SinkOrder, Order, TypeOK
<1>1. CASE Operator
  BY <1>0, <1>1, ConnectSinks, StartSinks, SendSinks DEF Operator, Disconnect, Dispose, Processes
<1>2. CASE Calls
  BY <1>0, <1>2, CallsSinks DEF Calls
<1>3. CASE Worker
  BY <1>0, <1>3, WorkerSinks, RestSinks DEF Worker, Beat, Snapshot, WorkerRecords
<1>4. CASE MainReceives
  <2>1. host'.streams = host.streams
    BY <1>0, <1>4 DEF MainReceives, OnReset, OnStream, OnDefaults, OnIngested, HostRecords
  <2>2. at'["dispose"] = at["dispose"]
    BY <1>0, <1>4 DEF MainReceives, OnReset, OnStream, OnDefaults, OnIngested, Processes
  <2> QED
    BY <1>0, <1>4, <2>1, <2>2, RestSinks DEF MainReceives
<1>5. ASSUME NEW t \in Transports, Opened(t) \/ Pump(t) PROVE SinkOrder'
  BY <1>0, <1>5, OpenedSinks, PumpSinks
<1>6. ASSUME NEW t \in Transports, OpenFails(t) \/ WriteDone(t) \/ Chunk(t) PROVE SinkOrder'
  <2>1. host'.streams = host.streams
    BY <1>0, <1>6 DEF OpenFails, WriteDone, Chunk, HostRecords
  <2>2. at'["dispose"] = at["dispose"]
    BY <1>0, <1>6 DEF OpenFails, WriteDone, Chunk, Processes
  <2> QED
    BY <1>0, <1>6, <2>1, <2>2, RestSinks DEF OpenFails, WriteDone, Chunk
<1>7. ASSUME NEW t \in Transports,
             SocketError(t) \/ Drop(t) \/ Reconnect(t) \/ PipeError(t) \/ Unplug(t) \/ End(t)
      PROVE  SinkOrder'
  BY <1>0, <1>7, OwnChanges, ChangesSinks
<1>8. CASE UNCHANGED vars
  BY <1>0, <1>8, RestSinks DEF vars
<1> QED
  BY <1>1, <1>2, <1>3, <1>4, <1>5, <1>6, <1>7, <1>8 DEF Next, Transport

\* A message is put on the link that it was asked for on, however the links follow each
\* other, the heartbeats and the messages overtake connect() and disconnect(), and the
\* channel delays them: the aborted stream is cancelled before a message of the next link
\* arrives (disconnect, sendMessage, RPC_OUTGOING, RPC_SEND_MESSAGE).
THEOREM MessagesStayOnTheirLink == Spec => []SentOnThisLink
<1>1. Init => SinkOrder
  <2> SUFFICES ASSUME Init PROVE SinkOrder
    OBVIOUS
  <2>1. Order
    BY InitOrder
  <2>2. SinksCancelled(toWorker, worker.sink, host.streams)
    BY Constants DEF Init, NoSession, SinksCancelled, CancelledBefore, Nobody
  <2> QED
    BY <2>1, <2>2 DEF Init, SinkOrder, SentOnThisLink, NoSession, Processes
<1>2. SinkOrder => SentOnThisLink
  BY DEF SinkOrder
<1> QED
  BY <1>1, <1>2, NextSinks, PTL DEF Spec
-----------------------------------------------------------------------------
(* What the operator is shown.                                             *)

\* What a shown state does to the record of the manager.
LEMMA ShowsFields ==
    ASSUME NEW u \in UiRecords, NEW s \in ConnStates, ~Disposed
    PROVE  /\ Shows(u, s) \in UiRecords /\ Shows(u, s).shown = s
           /\ Shows(u, s).rows = IF s = "closed" THEN {} ELSE u.rows
<1>1. Shows(u, s) \in UiRecords
  BY ShowsTyped
<1>2. \/ s = "closed" /\ Shows(u, s) = [u EXCEPT !.shown = s, !.rows = {}, !.defaults = "none"]
      \/ s # "closed" /\ Shows(u, s) = [u EXCEPT !.shown = s, !.defaults = "asked"]
      \/ s # "closed" /\ Shows(u, s) = [u EXCEPT !.shown = s]
  BY DEF Shows
<1> QED
  BY <1>1, <1>2 DEF UiRecords

\* What a step of the operator's disconnect() leaves, when w has been sent: it waits, it has
\* ended, or connect() goes on with a transport that nobody has used.
Waits(w) == at'["operator"] \in {"writer", "transport"} /\ busy' # "no" /\ toWorker' = w
Ends(w) ==
    /\ at'["operator"] = "idle" /\ busy' = "no" /\ toWorker' = w
    /\ ui'.shown = "closed" /\ ui'.rows = {} /\ host'.transport = Nobody
GoesOn(w) ==
    \E t \in Transports \ Created :
        /\ at'["operator"] = "reset" /\ busy' = "connect" /\ held'["operator"] = t
        /\ t \in Created' /\ ui'.rows = {} /\ toWorker' = w \o Request("reset", t)

OperatorLeaves(w) ==
    /\ host'.streams = Nobody /\ UNCHANGED <<worker, toMain>> /\ Created \subseteq Created'
    /\ Waits(w) \/ Ends(w) \/ GoesOn(w)

LEMMA CreateShown ==
    ASSUME Order, ~Disposed, NEW h \in HostRecords, h.streams = Nobody, NEW u \in UiRecords,
           NEW w, NEW l \in [Transports -> LinkRecords], \A t \in Transports : l[t].kind = link[t].kind,
           Create(h, u, w, l)
    PROVE  OperatorLeaves(w)
<1>0. PICK t \in Transports \ Created, k \in Kinds :
        /\ link' = [l EXCEPT ![t].kind = k]
        /\ host' = [h EXCEPT !.transport = t, !.orphan = IF Disposed THEN t ELSE h.orphan]
        /\ ui' = Shows(Shows(u, "closed"), "opening")
        /\ at' = [at EXCEPT !["operator"] = "reset"]
        /\ held' = [held EXCEPT !["operator"] = t]
        /\ toWorker' = w \o (IF at["dispose"] = "done" THEN <<>> ELSE Request("reset", t))
        /\ busy' = "connect"
        /\ UNCHANGED <<worker, toMain>>
  BY DEF Create
<1>1. at'["operator"] = "reset" /\ held'["operator"] = t /\ toWorker' = w \o Request("reset", t)
  BY <1>0 DEF Order, TypeOK, Processes, Disposed
<1>2. host'.streams = Nobody
  BY <1>0 DEF HostRecords
<1>3. ui'.rows = {}
  BY <1>0, ShowsFields DEF ConnStates
<1>4. t \in Created' /\ Created \subseteq Created'
  <2>1. k # "none"
    BY LinkAssumption
  <2>2. link'[t].kind = k /\ \A s \in Transports \ {t} : link'[s] = l[s]
    BY <1>0 DEF LinkRecords
  <2> QED
    BY <2>1, <2>2 DEF Created
<1> QED
  BY <1>0, <1>1, <1>2, <1>3, <1>4 DEF OperatorLeaves, GoesOn

LEMMA FinishShown ==
    ASSUME Order, ~Disposed, NEW doing \in {"connect", "disconnect"}, NEW h \in HostRecords,
           h.streams = Nobody, h.transport = Nobody, NEW u \in UiRecords, NEW w,
           NEW l \in [Transports -> LinkRecords], \A t \in Transports : l[t].kind = link[t].kind,
           Finish("operator", doing, h, u, w, l)
    PROVE  OperatorLeaves(w)
<1>1. CASE doing = "connect"
  BY <1>1, CreateShown DEF Finish
<1>2. CASE doing = "disconnect"
  <2>1. /\ ui' = Shows(u, "closed")
        /\ at' = [at EXCEPT !["operator"] = "idle"] /\ busy' = "no"
        /\ host' = h /\ link' = l /\ toWorker' = w
        /\ UNCHANGED <<held, worker, toMain>>
    BY <1>2 DEF Finish
  <2>2. ui'.shown = "closed" /\ ui'.rows = {}
    BY <2>1, ShowsFields DEF ConnStates
  <2>3. at'["operator"] = "idle" /\ Created' = Created
    BY <2>1 DEF Order, TypeOK, Processes, Created
  <2> QED
    BY <2>1, <2>2, <2>3 DEF OperatorLeaves, Ends
<1> QED
  BY <1>1, <1>2

LEMMA LetGoShown ==
    ASSUME Order, ~Disposed, NEW doing \in {"connect", "disconnect"}, NEW h \in HostRecords,
           h.streams = Nobody, NEW u \in UiRecords, NEW w,
           NEW l \in [Transports -> LinkRecords], \A t \in Transports : l[t].kind = link[t].kind,
           LetGo("operator", doing, h, u, w, l)
    PROVE  OperatorLeaves(w)
<1> DEFINE t == host.transport
           gone == [h EXCEPT !.transport = Nobody]
<1>1. gone \in HostRecords /\ gone.transport = Nobody /\ gone.streams = Nobody
  BY DEF HostRecords
<1>2. t \in Transports \cup {Nobody} /\ TypeOK
  BY DEF Order, TypeOK, HostRecords
<1>3. CASE t # Nobody /\ link[t].kind = "serial" /\ link[t].up
  <2>1. /\ at' = [at EXCEPT !["operator"] = "transport"] /\ host' = gone /\ toWorker' = w /\ link' = l
        /\ busy' = doing /\ UNCHANGED <<worker, toMain>>
    BY <1>3 DEF LetGo
  <2>2. at'["operator"] = "transport" /\ Created' = Created
    BY <1>2, <2>1 DEF TypeOK, Processes, Created
  <2> QED
    BY <1>1, <2>1, <2>2 DEF OperatorLeaves, Waits
<1>4. CASE ~(t # Nobody /\ link[t].kind = "serial" /\ link[t].up)
  <2> DEFINE l2 == IF t = Nobody THEN l ELSE [l EXCEPT ![t] = ClosedLink(t)]
  <2>1. Finish("operator", doing, gone, u, w, l2)
    BY <1>4 DEF LetGo
  <2>2. l2 \in [Transports -> LinkRecords] /\ \A s \in Transports : l2[s].kind = link[s].kind
    BY <1>2, ClosedTyped
  <2> HIDE DEF gone, l2, t
  <2> QED
    BY <1>1, <2>1, <2>2, FinishShown
<1> QED
  BY <1>3, <1>4

LEMMA StartShown ==
    ASSUME Order, ~Disposed, NEW doing \in {"connect", "disconnect"}, StartDisconnect("operator", doing)
    PROVE  OperatorLeaves(toWorker \o Cancels)
<1> DEFINE h == [host EXCEPT !.streams = Nobody, !.reader = Nobody, !.pumping = FALSE]
           u == IF ClosedByCancel = {} THEN ui ELSE Shows(ui, "closed")
           w == toWorker \o Cancels
           l == LinkWithout(ClosedByCancel)
<1>0. TypeOK
  BY DEF Order
<1>1. h \in HostRecords /\ h.streams = Nobody /\ [h EXCEPT !.closing = TRUE].streams = Nobody
  BY <1>0 DEF TypeOK, HostRecords
<1>2. u \in UiRecords
  BY <1>0, ShowsTyped DEF TypeOK, ConnStates
<1>3. l \in [Transports -> LinkRecords] /\ \A t \in Transports : l[t].kind = link[t].kind
  BY <1>0, WithoutTyped DEF ClosedByCancel
<1>4. \/ /\ at' = [at EXCEPT !["operator"] = "writer"] /\ host' = [h EXCEPT !.closing = TRUE]
         /\ toWorker' = w /\ link' = l /\ busy' = doing /\ UNCHANGED <<worker, toMain>>
      \/ LetGo("operator", doing, h, u, w, l)
  BY DEF StartDisconnect
<1>5. CASE /\ at' = [at EXCEPT !["operator"] = "writer"] /\ host' = [h EXCEPT !.closing = TRUE]
           /\ toWorker' = w /\ link' = l /\ busy' = doing /\ UNCHANGED <<worker, toMain>>
  <2>1. at'["operator"] = "writer"
    BY <1>0, <1>5 DEF TypeOK, Processes
  <2> HIDE DEF l, h
  <2>2. Created' = Created
    BY <1>3, <1>5 DEF Created
  <2> QED
    BY <1>1, <1>5, <2>1, <2>2 DEF OperatorLeaves, Waits, h
<1> HIDE DEF h, u, w, l
<1>6. CASE LetGo("operator", doing, h, u, w, l)
  BY <1>1, <1>2, <1>3, <1>6, LetGoShown DEF w
<1> QED
  BY <1>4, <1>5, <1>6

LEMMA OperatorShown ==
    ASSUME Order, ~Disposed, Connect \/ Disconnect \/ WriterClosed("operator") \/ PortClosed("operator")
    PROVE  OperatorLeaves(toWorker) \/ OperatorLeaves(toWorker \o Cancels)
<1>0. TypeOK /\ host \in HostRecords /\ ui \in UiRecords /\ link \in [Transports -> LinkRecords]
  BY DEF Order, TypeOK
<1>1. CASE Connect /\ host.transport = Nobody
  BY <1>0, <1>1, CreateShown DEF Connect, Order, Relays
<1>2. CASE Connect /\ host.transport # Nobody
  BY <1>2, StartShown DEF Connect
<1>3. CASE Disconnect
  BY <1>3, StartShown DEF Disconnect
<1>4. CASE WriterClosed("operator")
  <2> DEFINE h == [host EXCEPT !.writer = Nobody, !.closing = FALSE]
  <2>1. h \in HostRecords /\ h.streams = Nobody
    BY <1>0, <1>4 DEF WriterClosed, Order, Phases, Relays, HostRecords, Processes
  <2>2. LetGo("operator", busy, h, ui, toWorker, link) /\ busy \in {"connect", "disconnect"}
    BY <1>0, <1>4 DEF WriterClosed, Order, Phases, TypeOK
  <2> HIDE DEF h
  <2> QED
    BY <1>0, <2>1, <2>2, LetGoShown
<1>5. CASE PortClosed("operator")
  <2> DEFINE l == LinkWithout({held["operator"]})
             S == {held["operator"]} \cap Transports
  <2>1. l = LinkWithout(S)
    BY DEF LinkWithout
  <2>2. LinkWithout(S) \in [Transports -> LinkRecords] /\ \A t \in Transports : LinkWithout(S)[t].kind = link[t].kind
    <3>1. S \in SUBSET Transports
      OBVIOUS
    <3> HIDE DEF S
    <3> QED
      BY <1>0, <3>1, WithoutTyped
  <2> HIDE DEF l, S
  <2>3. Finish("operator", busy, host, ui, toWorker, l) /\ busy \in {"connect", "disconnect"}
        /\ host.streams = Nobody /\ host.transport = Nobody
    BY <1>0, <1>5 DEF PortClosed, Order, Phases, Orphaned, Relays, TypeOK, Processes, l
  <2> QED
    BY <1>0, <2>1, <2>2, <2>3, FinishShown
<1> QED
  BY <1>1, <1>2, <1>3, <1>4, <1>5

\* The disposal is final, and what may happen before it.
LEMMA FinishStays ==
    ASSUME TypeOK, NEW p \in Processes, NEW doing, NEW h, NEW u, NEW w, NEW l,
           Finish(p, doing, h, u, w, l), Disposed \/ p = "dispose",
           p = "operator" => doing \in {"connect", "disconnect"}
    PROVE  Disposed'
<1>1. CASE p = "operator"
  BY <1>1 DEF Finish, Create, Disposed, TypeOK, Processes
<1>2. CASE p = "dispose"
  BY <1>2 DEF Finish, DropChannel, Disposed, TypeOK, Processes
<1> QED
  BY <1>1, <1>2 DEF Processes

LEMMA LetGoStays ==
    ASSUME TypeOK, NEW p \in Processes, NEW doing, NEW h, NEW u, NEW w, NEW l,
           LetGo(p, doing, h, u, w, l), Disposed \/ p = "dispose",
           p = "operator" => doing \in {"connect", "disconnect"}
    PROVE  Disposed'
<1>1. \/ at' = [at EXCEPT ![p] = "transport"]
      \/ \E h2, l2 : Finish(p, doing, h2, u, w, l2)
  BY DEF LetGo
<1> QED
  BY <1>1, FinishStays DEF Disposed, TypeOK, Processes

LEMMA StartStays ==
    ASSUME TypeOK, StartDisconnect("dispose", busy)
    PROVE  Disposed'
<1>1. \/ at' = [at EXCEPT !["dispose"] = "writer"]
      \/ \E h, u, w, l : LetGo("dispose", busy, h, u, w, l)
  BY DEF StartDisconnect
<1> QED
  BY <1>1, LetGoStays DEF Disposed, TypeOK, Processes

LEMMA StepsBeforeDispose ==
    ASSUME Order, [Next]_vars, ~Disposed'
    PROVE  /\ ~Disposed
           /\ \/ OperatorLeaves(toWorker) \/ OperatorLeaves(toWorker \o Cancels)
              \/ Send \/ Worker \/ MainReceives \/ Transport \/ UNCHANGED vars
<1>0. TypeOK /\ at \in [Processes -> {"idle", "reset", "open", "writer", "transport", "done"}]
  BY DEF Order, TypeOK
<1>1. ASSUME NEW p \in Processes, WriterClosed(p) \/ PortClosed(p)
      PROVE  ~Disposed /\ p = "operator"
  <2>0. p = "operator" => busy \in {"connect", "disconnect"}
    BY <1>0, <1>1 DEF WriterClosed, PortClosed, Order, Phases, TypeOK
  <2>1. \/ \E h, u, w, l : LetGo(p, busy, h, u, w, l)
        \/ \E l : Finish(p, busy, host, ui, toWorker, l)
    BY <1>1 DEF WriterClosed, PortClosed
  <2> QED
    BY <1>0, <2>0, <2>1, LetGoStays, FinishStays DEF Processes
<1>2. CASE Connect \/ Disconnect
  BY <1>2, OperatorShown DEF Connect, Disconnect
<1>3. ~Dispose
  BY <1>0, StartStays DEF Dispose, Processes
<1>4. CASE Calls
  BY <1>1, <1>4, OperatorShown DEF Calls
<1>5. CASE Send \/ Worker
  BY <1>0, <1>5 DEF Send, Worker, WorkerReceives, Beat, Snapshot, Disposed
<1>6. CASE MainReceives
  BY <1>0, <1>6 DEF MainReceives, OnReset, OnStream, OnDefaults, OnIngested, Disposed, Processes
<1>7. CASE Transport
  <2>1. PICK t \in Transports :
          \/ Opened(t) \/ OpenFails(t) \/ Pump(t) \/ WriteDone(t) \/ Chunk(t)
          \/ SocketError(t) \/ Drop(t) \/ Reconnect(t) \/ PipeError(t) \/ Unplug(t) \/ End(t)
    BY <1>7 DEF Transport
  <2>2. CASE Opened(t) \/ OpenFails(t) \/ Pump(t) \/ WriteDone(t) \/ Chunk(t)
    BY <1>0, <2>2, <1>7 DEF Opened, OpenFails, Pump, WriteDone, Chunk, Disposed, Processes
  <2>3. CASE SocketError(t) \/ Drop(t) \/ Reconnect(t) \/ PipeError(t) \/ Unplug(t) \/ End(t)
    BY <2>3, <1>7, OwnChanges DEF Order, Changes, Disposed
  <2> QED
    BY <2>1, <2>2, <2>3
<1>8. CASE UNCHANGED vars
  BY <1>8 DEF vars, Disposed
<1> QED
  BY <1>2, <1>3, <1>4, <1>5, <1>6, <1>7, <1>8 DEF Next, Operator

\* Between calls the state shown follows the transport's.
LEMMA NextState ==
    ASSUME Order, ShownIsTheLinkState, [Next]_vars
    PROVE  ShownIsTheLinkState'
<1> SUFFICES ASSUME ~Disposed', busy' = "no" PROVE ShownIsTheLinkState'
  BY DEF ShownIsTheLinkState
<1>0. /\ ~Disposed /\ Order' /\ TypeOK
      /\ host \in HostRecords /\ ui \in UiRecords /\ link \in [Transports -> LinkRecords]
      /\ host.transport \in Transports \cup {Nobody}
  BY StepsBeforeDispose, NextOrder DEF Order, TypeOK, HostRecords
<1>1. ASSUME OperatorLeaves(toWorker) \/ OperatorLeaves(toWorker \o Cancels)
      PROVE  ShownIsTheLinkState'
  BY <1>1 DEF OperatorLeaves, Waits, Ends, GoesOn, ShownIsTheLinkState
\* Nothing that is compared changes.
<1>2. ASSUME busy' = busy, ui'.shown = ui.shown, host'.transport = host.transport,
             \A t \in Transports : link'[t].state = link[t].state
      PROVE  ShownIsTheLinkState'
  BY <1>0, <1>2 DEF ShownIsTheLinkState
<1>3. CASE Send \/ Worker \/ UNCHANGED vars
  BY <1>2, <1>3 DEF Send, Worker, WorkerReceives, Beat, Snapshot, vars
<1>4. CASE MainReceives
  <2>1. at["operator"] = "idle" /\ busy' = busy
    BY <1>0, <1>4 DEF MainReceives, Order, Phases
  <2>2. ui'.shown = ui.shown /\ host'.transport = host.transport /\ link' = link
    BY <1>0, <1>4, <2>1 DEF MainReceives, OnReset, OnStream, OnDefaults, OnIngested, UiRecords, HostRecords
  <2> QED
    BY <1>2, <2>1, <2>2
<1>5. ASSUME NEW t \in Transports, Opened(t) PROVE ShownIsTheLinkState'
  <2>1. t = host.transport /\ host'.transport = t /\ t # Nobody
    BY <1>0, <1>5, OpeningIsHeld, Constants DEF Opened, HostRecords, Order, Phases, Opening, Nobody
  <2>2. ui'.shown = "open"
    BY <1>0, <1>5, <2>1, ShowsFields DEF Opened, ConnStates
  <2>3. link'[t].state = "open"
    BY <1>0, <1>5 DEF Opened, LinkRecords
  <2> QED
    BY <2>1, <2>2, <2>3 DEF ShownIsTheLinkState
<1>6. ASSUME NEW t \in Transports, OpenFails(t) PROVE ShownIsTheLinkState'
  <2>1. host'.transport = Nobody
    BY <1>0, <1>6 DEF OpenFails, HostRecords
  <2>2. ui'.shown = "error"
    BY <1>0, <1>6, ShowsFields DEF OpenFails, ConnStates
  <2> QED
    BY <2>1, <2>2 DEF ShownIsTheLinkState
<1>7. ASSUME NEW t \in Transports, Pump(t) \/ WriteDone(t) \/ Chunk(t) PROVE ShownIsTheLinkState'
  <2>1. busy' = busy /\ host'.transport = host.transport
    BY <1>0, <1>7 DEF Pump, WriteDone, Chunk, HostRecords
  <2>2. \A s \in Transports : link'[s].state = link[s].state
    BY <1>0, <1>7 DEF Pump, WriteDone, Chunk, LinkRecords
  <2>3. ~host.closing
    BY <1>0, <2>1 DEF Order, Phases, Relays, Disposed, Processes
  <2>4. ui' = ui
    BY <1>7, <2>3 DEF Pump, WriteDone, Chunk
  <2> QED
    BY <1>2, <2>1, <2>2, <2>4
<1>8. ASSUME NEW t \in Transports,
             SocketError(t) \/ Drop(t) \/ Reconnect(t) \/ PipeError(t) \/ Unplug(t) \/ End(t)
      PROVE  ShownIsTheLinkState'
  <2>1. PICK record \in LinkRecords : Changes(t, record)
    BY <1>0, <1>8, OwnChanges
  <2>2. busy' = busy /\ host' = host /\ link' = [link EXCEPT ![t] = record]
    BY <2>1 DEF Changes
  <2>3. CASE t = host.transport
    <3>1. ui'.shown = record.state
      BY <1>0, <2>1, <2>3, ShowsFields DEF Changes, Emit, LinkRecords
    <3>2. link'[t] = record
      BY <1>0, <2>2
    <3> QED
      BY <2>2, <2>3, <3>1, <3>2, Constants DEF ShownIsTheLinkState, Nobody
  <2>4. CASE t # host.transport
    <3>1. ui' = ui
      BY <2>1, <2>4 DEF Changes, Emit
    <3> QED
      BY <1>0, <2>2, <2>4, <3>1 DEF ShownIsTheLinkState
  <2> QED
    BY <2>3, <2>4
<1> QED
  BY <1>0, <1>1, <1>3, <1>4, <1>5, <1>6, <1>7, <1>8, StepsBeforeDispose DEF Transport

\* The transport that connect() has taken and not yet opened, and those whose vehicles may
\* be streamed.
New == IF at["operator"] \in {"reset", "open"} THEN held["operator"] ELSE Nobody
Streamable == Created \ {New}

\* What the two directions of the channel may hold, and what the worker may know.
WantedRequests ==
    {r \in RequestRecords :
        /\ r.m = "telemetry" => r.of \in Streamable
        /\ r.m = "reset" => r.of \in Created
        /\ r.m = "ingest" => host.streams \in {Nobody, r.of}}
ToldAnswers ==
    {r \in AnswerRecords :
        /\ r.m = "snapshot" => r.of \in Streamable /\ (r.of = host.streams => r.heard \subseteq {r.of})
        /\ r.m = "reset" => r.of \in Created}
Books ==
    /\ worker.ticking \subseteq Streamable
    /\ host.streams # Nobody => worker.heard \subseteq {host.streams}
    /\ toWorker \in Seq(WantedRequests)
    /\ toMain \in Seq(ToldAnswers)

\* The worker has forgotten the vehicles of the last link, and will hear of no more.
Silent == {r \in RequestRecords : r.m # "ingest"}
Quiet == worker.heard = {} /\ toWorker \in Seq(Silent)

\* No bytes of the last link follow the reset for the next.
ResetOf(t) == [m |-> "reset", of |-> t]
ResetLast(q, t) ==
    \A k \in DOMAIN q : q[k] = ResetOf(t) => \A j \in DOMAIN q : j > k => q[j].m # "ingest"
OtherAnswers(t) == {r \in AnswerRecords : r.m = "reset" => r.of # t}
FreshLink ==
    /\ New # Nobody => New \in Created /\ ui.rows = {}
    /\ at["operator"] = "open" => Quiet
    /\ at["operator"] = "reset" =>
          ResetLast(toWorker, New) /\ (Quiet \/ toMain \in Seq(OtherAnswers(New)))

RowOrder == Order /\ ShownIsTrue /\ (~Disposed => Books /\ FreshLink)

LEMMA TailOf ==
    ASSUME NEW S, NEW q \in Seq(S), q # <<>>
    PROVE  /\ Tail(q) \in Seq(S) /\ Head(q) \in S /\ Head(q) = q[1] /\ 1 \in DOMAIN q
           /\ \A i \in DOMAIN Tail(q) : i + 1 \in DOMAIN q /\ Tail(q)[i] = q[i + 1] /\ i \in Nat /\ i > 0
OBVIOUS

LEMMA OneMore ==
    ASSUME NEW S, NEW q \in Seq(S), NEW r \in S
    PROVE  q \o <<r>> \in Seq(S)
OBVIOUS

\* One more message that carries no bytes, or one after which no reset can come.
LEMMA ResetLastGrows ==
    ASSUME NEW q \in Seq(RequestRecords), NEW r \in RequestRecords, NEW t, ResetLast(q, t), r.m # "ingest"
    PROVE  ResetLast(q \o <<r>>, t)
<1> DEFINE n == Len(q) + 1
<1>1. /\ Len(q) \in Nat /\ DOMAIN q = 1 .. Len(q) /\ DOMAIN (q \o <<r>>) = 1 .. n
      /\ (\A i \in DOMAIN q : (q \o <<r>>)[i] = q[i]) /\ (q \o <<r>>)[n] = r
  OBVIOUS
<1> DEFINE q2 == q \o <<r>>
<1> HIDE DEF q2
<1>2. ASSUME NEW k \in DOMAIN q2, q2[k] = ResetOf(t), NEW j \in DOMAIN q2, j > k
      PROVE  q2[j].m # "ingest"
  <2>1. CASE j = n
    BY <1>1, <2>1 DEF q2
  <2>2. CASE j # n
    <3>1. k \in DOMAIN q /\ j \in DOMAIN q
      BY <1>1, <1>2, <2>2 DEF q2
    <3>2. q2[k] = q[k] /\ q2[j] = q[j]
      BY <1>1, <3>1 DEF q2
    <3> QED
      BY <1>2, <3>1, <3>2 DEF ResetLast
  <2> QED
    BY <2>1, <2>2
<1> QED
  BY <1>2 DEF ResetLast, q2

\* A queue without the reset of t, and one at its end.
LEMMA ResetLastAppears ==
    ASSUME NEW q \in Seq(RequestRecords), NEW t, \A k \in DOMAIN q : q[k] # ResetOf(t)
    PROVE  ResetLast(q \o Request("reset", t), t)
<1> DEFINE n == Len(q) + 1
           q2 == q \o Request("reset", t)
<1>1. /\ Len(q) \in Nat /\ DOMAIN q = 1 .. Len(q) /\ DOMAIN q2 = 1 .. n
      /\ \A i \in DOMAIN q : q2[i] = q[i]
  BY DEF Request
<1> HIDE DEF q2
<1> SUFFICES ASSUME NEW k \in DOMAIN q2, q2[k] = ResetOf(t), NEW j \in DOMAIN q2, j > k PROVE FALSE
  BY DEF ResetLast, q2
<1>2. k # n
  BY <1>1
<1>3. k \in DOMAIN q
  BY <1>1, <1>2
<1> QED
  BY <1>1, <1>3

LEMMA ResetLastReceives ==
    ASSUME NEW q \in Seq(RequestRecords), q # <<>>, NEW t, ResetLast(q, t)
    PROVE  /\ ResetLast(Tail(q), t)
           /\ Head(q) = ResetOf(t) => Tail(q) \in Seq(Silent)
<1> DEFINE q2 == Tail(q)
<1>1. /\ q2 \in Seq(RequestRecords) /\ Head(q) = q[1] /\ 1 \in DOMAIN q
      /\ \A i \in DOMAIN q2 : i + 1 \in DOMAIN q /\ q2[i] = q[i + 1] /\ i \in Nat /\ i > 0
  BY TailOf
<1> HIDE DEF q2
<1>2. ResetLast(q2, t)
  BY <1>1 DEF ResetLast
<1>3. ASSUME Head(q) = ResetOf(t) PROVE q2 \in Seq(Silent)
  <2>1. \A i \in DOMAIN q2 : q2[i].m # "ingest"
    BY <1>1, <1>3 DEF ResetLast
  <2>2. \A i \in 1 .. Len(q2) : q2[i] \in Silent
    BY <1>1, <2>1 DEF Silent
  <2> QED
    BY <1>1, <2>2, SeqDef
<1> QED
  BY <1>2, <1>3 DEF q2

\* The rows, and what they come from.
Rows == RowsAreOfThisLink /\ Books /\ FreshLink

LEMMA SameLink ==
    ASSUME UNCHANGED <<at, held>>, host'.streams = host.streams, Created' = Created
    PROVE  /\ New' = New /\ Streamable' = Streamable
           /\ WantedRequests' = WantedRequests /\ ToldAnswers' = ToldAnswers
<1>1. New' = New
  BY DEF New
<1>2. Streamable' = Streamable
  BY <1>1 DEF Streamable
<1> QED
  BY <1>1, <1>2 DEF WantedRequests, ToldAnswers

\* Messages that are about no link's rows.
PlainRequests == {r \in RequestRecords : r.m \notin {"ingest", "telemetry", "reset"}}
PlainAnswers == {r \in AnswerRecords : r.m \notin {"snapshot", "reset"}}

LEMMA PlainRequest ==
    ASSUME NEW q \in Seq(RequestRecords), NEW r \in PlainRequests
    PROVE  /\ q \o <<r>> \in Seq(RequestRecords)
           /\ q \in Seq(WantedRequests) => q \o <<r>> \in Seq(WantedRequests)
           /\ q \in Seq(Silent) => q \o <<r>> \in Seq(Silent)
           /\ \A t : ResetLast(q, t) => ResetLast(q \o <<r>>, t)
<1>1. r \in RequestRecords /\ r \in WantedRequests /\ r \in Silent /\ r.m # "ingest"
  BY DEF PlainRequests, WantedRequests, Silent
<1> QED
  BY <1>1, OneMore, ResetLastGrows

LEMMA SameRows ==
    ASSUME Order, Rows,
           UNCHANGED <<at, held>>, host'.streams = host.streams, host'.transport = host.transport,
           Created' = Created, worker'.ticking = worker.ticking, worker'.heard = worker.heard,
           ui'.rows = ui.rows \/ ui'.rows = {},
           toWorker' = toWorker \/ \E r \in PlainRequests : toWorker' = toWorker \o <<r>>,
           toMain' = toMain \/ \E r \in PlainAnswers : toMain' = toMain \o <<r>>
    PROVE  Rows'
<1>1. /\ New' = New /\ Streamable' = Streamable
      /\ WantedRequests' = WantedRequests /\ ToldAnswers' = ToldAnswers
  BY SameLink
<1>2. RowsAreOfThisLink'
  BY DEF Rows, RowsAreOfThisLink, Disposed
<1>3. toWorker \in Seq(RequestRecords) /\ toMain \in Seq(AnswerRecords)
  BY DEF Order, TypeOK
<1>4. /\ toWorker' \in Seq(WantedRequests)
      /\ toWorker \in Seq(Silent) => toWorker' \in Seq(Silent)
      /\ ResetLast(toWorker, New) => ResetLast(toWorker', New)
  BY <1>3, PlainRequest DEF Rows, Books
<1>5. /\ toMain' \in Seq(ToldAnswers)
      /\ toMain \in Seq(OtherAnswers(New)) => toMain' \in Seq(OtherAnswers(New))
  <2>1. \A r \in PlainAnswers : r \in ToldAnswers /\ r \in OtherAnswers(New)
    BY DEF PlainAnswers, ToldAnswers, OtherAnswers
  <2> QED
    BY <2>1, OneMore DEF Rows, Books
<1>6. Books'
  BY <1>1, <1>4, <1>5 DEF Rows, Books
<1>7. OtherAnswers(New)' = OtherAnswers(New)
  BY <1>1 DEF OtherAnswers
<1>8. FreshLink'
  <2>1. Quiet => Quiet'
    BY <1>4 DEF Quiet, Silent
  <2>2. New' # Nobody => New' \in Created' /\ ui'.rows = {}
    BY <1>1 DEF Rows, FreshLink
  <2>3. at["operator"] = "reset" =>
          /\ ResetLast(toWorker', New')
          /\ Quiet' \/ toMain' \in Seq(OtherAnswers(New)')
    BY <1>1, <1>4, <1>5, <1>7, <2>1 DEF Rows, FreshLink
  <2>4. at["operator"] = "open" => Quiet'
    BY <2>1 DEF Rows, FreshLink
  <2> QED
    BY <2>2, <2>3, <2>4 DEF FreshLink, ResetLast
<1> QED
  BY <1>2, <1>6, <1>8 DEF Rows

\* The operator's disconnect(), of which connect() is the end.
LEMMA LeavesRows ==
    ASSUME Order, Order', Rows, ~Disposed', NEW w \in Seq(WantedRequests), OperatorLeaves(w)
    PROVE  Rows'
<1>1. /\ host'.streams = Nobody /\ worker' = worker /\ toMain' = toMain /\ Created \subseteq Created'
      /\ Waits(w) \/ Ends(w) \/ GoesOn(w)
  BY DEF OperatorLeaves
<1>2. Nobody \notin Created' /\ Nobody \notin Created
  BY Constants DEF Created, Nobody
<1>3. Streamable \subseteq Streamable' /\ (New' # Nobody => New' \in Created' \ Created)
  <2>1. CASE Waits(w) \/ Ends(w)
    BY <1>1, <1>2, <2>1 DEF Waits, Ends, New, Streamable
  <2>2. CASE GoesOn(w)
    BY <1>1, <2>2 DEF GoesOn, New, Streamable
  <2> QED
    BY <1>1, <2>1, <2>2
<1>4. WantedRequests \subseteq WantedRequests' /\ ToldAnswers \subseteq ToldAnswers'
  <2>1. \A r \in WantedRequests : r \in WantedRequests'
    BY <1>1, <1>3 DEF WantedRequests
  <2>2. \A r \in ToldAnswers : r \in ToldAnswers'
    BY <1>1, <1>2, <1>3 DEF ToldAnswers, Streamable
  <2> QED
    BY <2>1, <2>2
<1>5. RowsAreOfThisLink'
  BY <1>1 DEF Waits, Ends, GoesOn, RowsAreOfThisLink
<1>6. w \in Seq(WantedRequests') /\ toMain' \in Seq(ToldAnswers')
  BY <1>1, <1>4, SeqMonotonic DEF Rows, Books
<1>7. toWorker' \in Seq(WantedRequests')
  <2>1. ASSUME NEW t \in Transports, t \in Created', toWorker' = w \o Request("reset", t)
        PROVE  toWorker' \in Seq(WantedRequests')
    <3>1. [m |-> "reset", of |-> t] \in WantedRequests'
      BY <2>1 DEF WantedRequests, RequestRecords, Requests
    <3> QED
      BY <1>6, <2>1, <3>1, OneMore DEF Request
  <2> QED
    BY <1>1, <1>6, <2>1 DEF Waits, Ends, GoesOn
<1>8. Books'
  BY <1>1, <1>3, <1>6, <1>7 DEF Rows, Books
<1>9. FreshLink'
  <2>1. CASE Waits(w) \/ Ends(w)
    BY <2>1 DEF Waits, Ends, New, FreshLink
  <2>2. CASE GoesOn(w)
    <3>1. PICK t \in Transports \ Created :
            at'["operator"] = "reset" /\ held'["operator"] = t /\ toWorker' = w \o Request("reset", t)
      BY <2>2 DEF GoesOn
    <3>2. New' = t
      BY <3>1 DEF New
    <3>3. ResetLast(toWorker', t)
      <4>1. \A r \in WantedRequests : r # ResetOf(t)
        BY <3>1 DEF WantedRequests, ResetOf
      <4>2. w \in Seq(RequestRecords) /\ \A k \in DOMAIN w : w[k] # ResetOf(t)
        BY <4>1, SeqMonotonic DEF WantedRequests
      <4> QED
        BY <3>1, <4>2, ResetLastAppears
    <3>4. toMain' \in Seq(OtherAnswers(New)')
      <4>1. ToldAnswers \subseteq OtherAnswers(t)
        BY <3>1 DEF ToldAnswers, OtherAnswers
      <4>2. OtherAnswers(New)' = OtherAnswers(t)
        BY <3>2 DEF OtherAnswers
      <4> QED
        BY <1>1, <4>1, <4>2, SeqMonotonic DEF Rows, Books
    <3>5. ui'.rows = {} /\ New' \in Created'
      BY <1>3, <2>2, <3>1, <3>2, Constants DEF GoesOn, Nobody
    <3>6. ResetLast(toWorker, New)'
      BY <3>2, <3>3 DEF ResetLast
    <3> QED
      BY <3>1, <3>4, <3>5, <3>6 DEF FreshLink
  <2> QED
    BY <1>1, <2>1, <2>2
<1> QED
  BY <1>5, <1>8, <1>9 DEF Rows

LEMMA CancelsWanted == ASSUME Order, Rows PROVE toWorker \o Cancels \in Seq(WantedRequests)
<1> DEFINE a == [m |-> "cancel telemetry", of |-> host.streams]
           b == [m |-> "cancel outgoing", of |-> host.streams]
<1>1. a \in WantedRequests /\ b \in WantedRequests
  BY DEF WantedRequests, RequestRecords, Requests, Order, TypeOK, HostRecords
<1>2. toWorker \in Seq(WantedRequests)
  BY DEF Rows, Books
<1>3. Cancels \in {<<>>, <<a>> \o <<b>>}
  BY DEF Cancels, Request
<1> HIDE DEF a, b
<1>4. <<a>> \in Seq(WantedRequests) /\ <<b>> \in Seq(WantedRequests) /\ <<>> \in Seq(WantedRequests)
  BY <1>1
<1>5. <<a>> \o <<b>> \in Seq(WantedRequests)
  BY <1>4
<1>6. \A p, q \in Seq(WantedRequests) : p \o q \in Seq(WantedRequests)
  OBVIOUS
<1> QED
  BY <1>2, <1>3, <1>4, <1>5, <1>6

\* connect() has opened its transport.
LEMMA OpenedRows ==
    ASSUME Order, Order', Rows, NEW t \in Transports, Opened(t), ~Disposed
    PROVE  Rows'
<1>1. /\ at["operator"] = "open" /\ held["operator"] = t /\ host.transport = t
      /\ at["dispose"] = "idle"
  BY OpeningIsHeld DEF Opened, Order, TypeOK, Disposed, Processes
<1>2. /\ host'.streams = t /\ host'.transport = t /\ worker' = worker /\ toMain' = toMain
      /\ at'["operator"] = "idle" /\ New = t /\ New' = Nobody
  BY <1>1 DEF Opened, New, Order, TypeOK, HostRecords, Processes
<1>3. ui \in UiRecords /\ ui'.rows \subseteq ui.rows
  BY <1>1, ShowsFields DEF Opened, Order, TypeOK, ConnStates
<1>4. RowsAreOfThisLink'
  BY <1>1, <1>2, <1>3 DEF Rows, RowsAreOfThisLink
<1>5. Created' = Created /\ t \in Created
  <2>1. \A s \in Transports : link'[s].kind = link[s].kind
    BY DEF Opened, Order, TypeOK, LinkRecords
  <2> QED
    BY <1>2, <2>1, Constants DEF Created, Rows, FreshLink, Nobody
<1>6. Streamable \subseteq Streamable' /\ t \in Streamable' /\ t \notin Streamable
  BY <1>2, <1>5, Constants DEF Streamable, Created, Nobody
<1>7. worker.heard = {} /\ toWorker \in Seq(Silent) /\ toWorker \in Seq(WantedRequests)
  BY <1>1 DEF Rows, Books, FreshLink, Quiet
<1>8. toWorker \in Seq(WantedRequests')
  <2>1. \A r \in Silent \cap WantedRequests : r \in WantedRequests'
    BY <1>5, <1>6 DEF Silent, WantedRequests
  <2>2. toWorker \in Seq(Silent \cap WantedRequests)
    BY <1>7, SeqDef
  <2> QED
    BY <2>1, <2>2, SeqMonotonic
<1>9. toMain' \in Seq(ToldAnswers')
  <2>1. \A r \in ToldAnswers : r \in ToldAnswers'
    BY <1>2, <1>5, <1>6 DEF ToldAnswers
  <2> QED
    BY <1>2, <2>1, SeqMonotonic DEF Rows, Books
<1>10. toWorker' \in Seq(WantedRequests')
  <2>1. \A m \in {"defaults", "telemetry", "outgoing"} : [m |-> m, of |-> t] \in WantedRequests'
    BY <1>6 DEF WantedRequests, RequestRecords, Requests
  <2>2. \A m \in {"defaults", "telemetry", "outgoing"} : Request(m, t) \in Seq(WantedRequests')
    BY <2>1 DEF Request
  <2>3. Defaults("open", t) \in Seq(WantedRequests')
    <3>1. <<>> \in Seq(WantedRequests')
      OBVIOUS
    <3> QED
      BY <2>2, <3>1 DEF Defaults
  <2>4. toWorker' = toWorker \o Defaults("open", t) \o Request("telemetry", t) \o Request("outgoing", t)
    BY <1>1 DEF Opened
  <2>5. \A p, q \in Seq(WantedRequests') : p \o q \in Seq(WantedRequests')
    OBVIOUS
  <2> QED
    BY <1>8, <2>2, <2>3, <2>4, <2>5
<1>11. Books' /\ FreshLink'
  BY <1>2, <1>6, <1>7, <1>9, <1>10 DEF Rows, Books, FreshLink
<1> QED
  BY <1>4, <1>11 DEF Rows

\* Its transport did not open.
LEMMA OpenFailsRows ==
    ASSUME Order, Order', Rows, ~Disposed', NEW t \in Transports, OpenFails(t)
    PROVE  Rows'
<1>1. /\ at["operator"] = "open" /\ held["operator"] = t /\ ~Disposed /\ host.transport = t
      /\ at'["operator"] = "idle" /\ host.streams = Nobody
  BY DEF OpenFails, Opening, Order, TypeOK, Phases, Relays, Disposed, Processes
<1>2. /\ host'.streams = Nobody /\ worker' = worker /\ toMain' = toMain /\ toWorker' = toWorker
      /\ New = t /\ New' = Nobody
  BY <1>1 DEF OpenFails, New, Order, TypeOK, HostRecords
<1>3. ui'.rows = ui.rows /\ ui.rows = {}
  BY <1>1, <1>2, ShowsFields, Constants DEF OpenFails, Order, TypeOK, ConnStates, Rows, FreshLink, Nobody
<1>4. Created' = Created
  <2>1. \A s \in Transports : link'[s].kind = link[s].kind
    BY ClosedTyped DEF OpenFails, Order, TypeOK
  <2> QED
    BY <2>1 DEF Created
<1>5. Streamable \subseteq Streamable'
  BY <1>2, <1>4, Constants DEF Streamable, Created, Nobody
<1>6. WantedRequests \subseteq WantedRequests' /\ ToldAnswers \subseteq ToldAnswers'
  <2>1. \A r \in WantedRequests : r \in WantedRequests'
    BY <1>2, <1>4, <1>5 DEF WantedRequests
  <2>2. \A r \in ToldAnswers : r \in ToldAnswers'
    BY <1>1, <1>2, <1>4, <1>5 DEF ToldAnswers
  <2> QED
    BY <2>1, <2>2
<1>7. Books'
  BY <1>2, <1>5, <1>6, SeqMonotonic DEF Rows, Books
<1> QED
  BY <1>1, <1>2, <1>3, <1>7 DEF Rows, RowsAreOfThisLink, FreshLink

\* Bytes go to the worker only while the streams of their link are open.
LEMMA PumpRows ==
    ASSUME Order, Order', Rows, ~Disposed, NEW t \in Transports, Pump(t)
    PROVE  Rows'
<1>1. /\ t = host.streams /\ UNCHANGED <<at, held, ui, worker, toMain>> /\ t # Nobody
      /\ host'.streams = host.streams /\ host'.transport = host.transport
      /\ toWorker' = toWorker \o Request("ingest", t)
  BY Constants DEF Pump, Order, TypeOK, HostRecords, Relays, Disposed, Nobody
<1>2. at["operator"] \notin {"reset", "open"}
  BY <1>1 DEF Order, Phases, Relays
<1>3. Created' = Created
  <2>1. \A s \in Transports : link'[s].kind = link[s].kind
    BY DEF Pump, Order, TypeOK, LinkRecords
  <2> QED
    BY <2>1 DEF Created
<1>4. /\ New' = New /\ New = Nobody /\ Streamable' = Streamable
      /\ WantedRequests' = WantedRequests /\ ToldAnswers' = ToldAnswers
  BY <1>1, <1>2, <1>3, SameLink DEF New
<1>5. [m |-> "ingest", of |-> t] \in WantedRequests
  BY <1>1 DEF WantedRequests, RequestRecords, Requests
<1>6. toWorker' \in Seq(WantedRequests)
  BY <1>1, <1>5, OneMore DEF Rows, Books, Request
<1>7. Books'
  BY <1>1, <1>4, <1>6 DEF Rows, Books
<1> QED
  BY <1>1, <1>2, <1>4, <1>7 DEF Rows, RowsAreOfThisLink, FreshLink, Disposed

\* The worker takes a request.
LEMMA WorkerReceivesRows ==
    ASSUME Order, Order', Rows, WorkerReceives
    PROVE  Rows'
<1> DEFINE r == Head(toWorker)
<1>0. /\ toWorker # <<>> /\ toWorker' = Tail(toWorker) /\ worker' = WorkerAfter(r)
      /\ toMain' = toMain \o Answered(r) /\ UNCHANGED <<ui, at, held, host, link>>
  BY DEF WorkerReceives
<1>1. /\ toWorker \in Seq(WantedRequests) /\ toWorker \in Seq(RequestRecords) /\ toMain \in Seq(ToldAnswers)
      /\ worker \in WorkerRecords
  BY DEF Rows, Books, Order, TypeOK
<1>2. r \in WantedRequests /\ toWorker' \in Seq(WantedRequests)
  BY <1>0, <1>1, TailOf
<1>3. /\ New' = New /\ Streamable' = Streamable
      /\ WantedRequests' = WantedRequests /\ ToldAnswers' = ToldAnswers
  <2>1. Created' = Created
    BY <1>0 DEF Created
  <2> QED
    BY <1>0, <2>1, SameLink
<1>4. /\ worker'.ticking = CASE r.m = "telemetry" -> worker.ticking \cup {r.of}
                             [] r.m = "cancel telemetry" -> worker.ticking \ {r.of}
                             [] OTHER -> worker.ticking
      /\ worker'.heard = CASE r.m = "reset" -> {}
                           [] r.m = "ingest" -> worker.heard \cup {r.of}
                           [] OTHER -> worker.heard
  BY <1>0, <1>1 DEF WorkerAfter, Forgotten, Attached, Detached, WorkerRecords
<1>5. /\ Answered(r) \in Seq(ToldAnswers)
      /\ r # ResetOf(New) => Answered(r) \in Seq(OtherAnswers(New))
  <2>1. \A m \in {"reset", "ingested", "frame", "sent", "refused"}, t \in Transports \cup {Nobody} :
           [m |-> m, of |-> t, heard |-> {}] \in AnswerRecords
    BY DEF AnswerRecords, Answers
  <2>2. r.of \in Transports \cup {Nobody} /\ worker.sink \in Transports \cup {Nobody} /\ r = [m |-> r.m, of |-> r.of]
    BY <1>1, <1>2 DEF WantedRequests, RequestRecords, WorkerRecords
  <2>3. ASSUME NEW m \in {"ingested", "frame", "sent", "refused"}, NEW t \in Transports \cup {Nobody}
        PROVE  Answer(m, t) \in Seq(ToldAnswers) /\ Answer(m, t) \in Seq(OtherAnswers(New))
    <3>1. /\ [m |-> m, of |-> t, heard |-> {}] \in ToldAnswers
          /\ [m |-> m, of |-> t, heard |-> {}] \in OtherAnswers(New)
      BY <2>1 DEF ToldAnswers, OtherAnswers
    <3> QED
      BY <3>1 DEF Answer
  <2>4. CASE r.m = "reset"
    <3>1. [m |-> "reset", of |-> r.of, heard |-> {}] \in ToldAnswers
      BY <1>2, <2>1, <2>2, <2>4 DEF ToldAnswers, WantedRequests
    <3>2. r # ResetOf(New) => [m |-> "reset", of |-> r.of, heard |-> {}] \in OtherAnswers(New)
      BY <2>1, <2>2, <2>4 DEF OtherAnswers, ResetOf
    <3> QED
      BY <2>4, <3>1, <3>2 DEF Answered, Answer
  <2>5. CASE r.m # "reset"
    <3>1. Answered(r) \in {Answer("ingested", r.of), Answer("frame", worker.sink), Answer("refused", r.of), <<>>,
                           Answer("frame", worker.sink) \o Answer("sent", r.of), Answer("frame", worker.sink) \o <<>>}
      BY <2>5 DEF Answered
    <3>2. /\ \A p, q \in Seq(ToldAnswers) : p \o q \in Seq(ToldAnswers)
          /\ \A p, q \in Seq(OtherAnswers(New)) : p \o q \in Seq(OtherAnswers(New))
          /\ <<>> \in Seq(ToldAnswers) /\ <<>> \in Seq(OtherAnswers(New))
      OBVIOUS
    <3> QED
      BY <2>2, <2>3, <3>1, <3>2
  <2> QED
    BY <2>4, <2>5
<1> HIDE DEF r
<1>6. /\ toMain' \in Seq(ToldAnswers)
      /\ toMain \in Seq(OtherAnswers(New)) /\ r # ResetOf(New) => toMain' \in Seq(OtherAnswers(New))
  BY <1>0, <1>1, <1>5
<1>7. worker'.ticking \subseteq Streamable
  BY <1>2, <1>4 DEF Rows, Books, WantedRequests
<1>8. host.streams # Nobody => worker'.heard \subseteq {host.streams}
  BY <1>2, <1>4 DEF Rows, Books, WantedRequests
<1>9. Books'
  BY <1>0, <1>2, <1>3, <1>6, <1>7, <1>8 DEF Rows, Books
<1>10. Quiet => Quiet'
  <2> SUFFICES ASSUME Quiet PROVE Quiet'
    OBVIOUS
  <2>1. r \in Silent /\ toWorker' \in Seq(Silent)
    BY <1>0, TailOf DEF Quiet, r
  <2>2. worker'.heard = {}
    BY <1>4, <2>1 DEF Quiet, Silent
  <2> QED
    BY <2>1, <2>2 DEF Quiet, Silent
<1>11. at["operator"] = "reset" => ResetLast(toWorker', New) /\ (Quiet' \/ toMain' \in Seq(OtherAnswers(New)))
  <2> SUFFICES ASSUME at["operator"] = "reset"
               PROVE  ResetLast(toWorker', New) /\ (Quiet' \/ toMain' \in Seq(OtherAnswers(New)))
    OBVIOUS
  <2>1. ResetLast(toWorker, New) /\ (Quiet \/ toMain \in Seq(OtherAnswers(New)))
    BY DEF Rows, FreshLink
  <2>2. ResetLast(toWorker', New) /\ (r = ResetOf(New) => toWorker' \in Seq(Silent))
    BY <1>0, <1>1, <2>1, ResetLastReceives DEF r
  <2>3. CASE r = ResetOf(New)
    <3>1. worker'.heard = {}
      BY <1>4, <2>3 DEF ResetOf
    <3> QED
      BY <2>2, <2>3, <3>1 DEF Quiet, Silent
  <2>4. CASE r # ResetOf(New)
    BY <1>6, <1>10, <2>1, <2>2, <2>4
  <2> QED
    BY <2>3, <2>4
<1>12. FreshLink'
  <2>1. Created' = Created /\ OtherAnswers(New)' = OtherAnswers(New)
    BY <1>0, <1>3 DEF Created, OtherAnswers
  <2> QED
    BY <1>0, <1>3, <1>10, <1>11, <2>1 DEF Rows, FreshLink, ResetLast
<1> QED
  BY <1>0, <1>9, <1>12 DEF Rows, RowsAreOfThisLink, Disposed

\* The timer of a telemetry stream.
LEMMA SnapshotRows ==
    ASSUME Order, Order', Rows, NEW t \in Transports, Snapshot(t)
    PROVE  Rows'
<1> DEFINE r == [m |-> "snapshot", of |-> t, heard |-> worker.heard]
<1>0. /\ t \in worker.ticking /\ toMain' = Append(toMain, r)
      /\ UNCHANGED <<ui, at, held, host, link, toWorker>>
      /\ worker'.ticking = worker.ticking /\ worker'.heard = worker.heard
  BY DEF Snapshot, Order, TypeOK, WorkerRecords
<1>1. Created' = Created
  BY <1>0 DEF Created
<1>2. /\ New' = New /\ Streamable' = Streamable
      /\ WantedRequests' = WantedRequests /\ ToldAnswers' = ToldAnswers
  BY <1>0, <1>1, SameLink
<1>3. r \in ToldAnswers /\ r \in OtherAnswers(New)
  <2>1. t \in Streamable /\ worker.heard \in SUBSET Transports
    BY <1>0 DEF Rows, Books, Order, TypeOK, WorkerRecords
  <2>2. t = host.streams => worker.heard \subseteq {t}
    BY Constants DEF Rows, Books, Nobody
  <2> QED
    BY <2>1, <2>2 DEF ToldAnswers, OtherAnswers, AnswerRecords, Answers
<1> HIDE DEF r
<1>4. /\ toMain' \in Seq(ToldAnswers)
      /\ toMain \in Seq(OtherAnswers(New)) => toMain' \in Seq(OtherAnswers(New))
  BY <1>0, <1>3 DEF Rows, Books
<1>5. Books'
  BY <1>0, <1>2, <1>4 DEF Rows, Books
<1>6. FreshLink'
  <2>1. (Quiet => Quiet') /\ OtherAnswers(New)' = OtherAnswers(New)
    BY <1>0, <1>2 DEF Quiet, Silent, OtherAnswers
  <2>2. ResetLast(toWorker, New) => ResetLast(toWorker, New)'
    BY <1>0, <1>2 DEF ResetLast
  <2> QED
    BY <1>0, <1>1, <1>2, <1>4, <2>1, <2>2 DEF Rows, FreshLink
<1> QED
  BY <1>0, <1>5, <1>6 DEF Rows, RowsAreOfThisLink, Disposed

\* The main thread takes an answer.
LEMMA MainReceivesRows ==
    ASSUME Order, Order', Rows, ~Disposed, MainReceives
    PROVE  Rows'
<1> DEFINE r == Head(toMain)
<1>0. /\ toMain # <<>> /\ toMain' = Tail(toMain) /\ UNCHANGED <<held, worker, toWorker>>
      /\ \/ r.m = "reset" /\ OnReset(r)
         \/ r.m \in {"snapshot", "frame"} /\ OnStream(r)
         \/ r.m \in {"sent", "refused"} /\ OnDefaults(r)
         \/ r.m = "ingested" /\ OnIngested(r)
  BY DEF MainReceives
<1>1. /\ r \in ToldAnswers /\ toMain' \in Seq(ToldAnswers) /\ r \in AnswerRecords
      /\ toMain \in Seq(OtherAnswers(New)) => r \in OtherAnswers(New) /\ toMain' \in Seq(OtherAnswers(New))
  BY <1>0, TailOf DEF Rows, Books, ToldAnswers
<1>2. /\ host \in HostRecords /\ ui \in UiRecords /\ link \in [Transports -> LinkRecords]
      /\ at \in [Processes -> {"idle", "reset", "open", "writer", "transport", "done"}]
  BY DEF Order, TypeOK
<1> HIDE DEF r
<1>3. host'.streams = host.streams /\ host'.transport = host.transport
  BY <1>0, <1>2 DEF OnReset, OnStream, OnDefaults, OnIngested, HostRecords
<1>4. Created' = Created
  <2>1. \A s \in Transports : link'[s].kind = link[s].kind
    BY <1>0, <1>2 DEF OnReset, OnStream, OnDefaults, OnIngested, LinkRecords
  <2> QED
    BY <2>1 DEF Created
<1>5. New' = New /\ at'["dispose"] = at["dispose"]
  BY <1>0, <1>2 DEF OnReset, OnStream, OnDefaults, OnIngested, New, Processes
<1>6. WantedRequests' = WantedRequests /\ ToldAnswers' = ToldAnswers /\ Streamable' = Streamable
  BY <1>3, <1>4, <1>5 DEF WantedRequests, ToldAnswers, Streamable
<1>7. Books'
  BY <1>0, <1>1, <1>3, <1>6 DEF Rows, Books
<1>8. \/ ui'.rows = ui.rows
      \/ r.m = "snapshot" /\ r.of = host.streams /\ ui'.rows = r.heard
  BY <1>0, <1>2 DEF OnReset, OnStream, OnDefaults, OnIngested, UiRecords
<1>9. host.streams # Nobody => host.transport = host.streams /\ New = Nobody
  BY DEF Order, Relays, Phases, New
<1>10. r.m = "snapshot" => r.of # Nobody
  BY <1>1, Constants DEF ToldAnswers, Streamable, Created, Nobody
<1>11. RowsAreOfThisLink'
  <2>1. CASE ui'.rows = ui.rows
    <3>1. at["operator"] \in {"writer", "transport"} => at'["operator"] = at["operator"]
      BY <1>0, <1>2 DEF OnReset, OnStream, OnDefaults, OnIngested
    <3> QED
      BY <1>3, <2>1, <3>1 DEF Rows, RowsAreOfThisLink, Disposed
  <2>2. CASE r.m = "snapshot" /\ r.of = host.streams /\ ui'.rows = r.heard
    <3>1. r.heard \subseteq {host.transport}
      BY <1>1, <1>9, <1>10, <2>2 DEF ToldAnswers
    <3> QED
      BY <1>3, <2>2, <3>1 DEF RowsAreOfThisLink
  <2> QED
    BY <1>8, <2>1, <2>2
<1>12. FreshLink'
  <2>1. (Quiet => Quiet') /\ OtherAnswers(New)' = OtherAnswers(New)
        /\ (ResetLast(toWorker, New) => ResetLast(toWorker, New)')
    BY <1>0, <1>5 DEF Quiet, Silent, OtherAnswers, ResetLast
  <2>2. New # Nobody => ui'.rows = {}
    BY <1>8, <1>9, <1>10 DEF Rows, FreshLink
  <2>3. at'["operator"] = "open" => Quiet'
    <3>1. CASE at["operator"] = "open"
      BY <2>1, <3>1 DEF Rows, FreshLink
    <3>2. CASE at["operator"] # "open" /\ at'["operator"] = "open"
      <4>1. r.m = "reset" /\ at["operator"] = "reset" /\ r.of = New
        BY <1>0, <3>2 DEF OnReset, OnStream, OnDefaults, OnIngested, New
      <4>2. Quiet
        BY <1>1, <4>1 DEF OtherAnswers, Rows, FreshLink
      <4> QED
        BY <2>1, <4>2
    <3> QED
      BY <3>1, <3>2
  <2>4. at'["operator"] = "reset" =>
          ResetLast(toWorker, New)' /\ (Quiet' \/ toMain' \in Seq(OtherAnswers(New)'))
    <3>1. at'["operator"] = "reset" => at["operator"] = "reset"
      BY <1>0, <1>2 DEF OnReset, OnStream, OnDefaults, OnIngested, Processes
    <3> QED
      BY <1>1, <2>1, <3>1 DEF Rows, FreshLink
  <2> QED
    BY <1>4, <1>5, <2>2, <2>3, <2>4 DEF FreshLink, Rows
<1> QED
  BY <1>7, <1>11, <1>12 DEF Rows

\* The other steps send plain messages at most, and show no rows.
LEMMA PlainRows ==
    ASSUME Order, Order', Rows, ~Disposed, NEW t \in Transports, WriteDone(t) \/ Chunk(t)
    PROVE  Rows'
<1>1. /\ UNCHANGED <<at, held, toMain, toWorker, worker>>
      /\ host'.streams = host.streams /\ host'.transport = host.transport
  BY DEF WriteDone, Chunk, Order, TypeOK, HostRecords
<1>2. Created' = Created
  <2>1. \A s \in Transports : link'[s].kind = link[s].kind
    BY DEF WriteDone, Chunk, Order, TypeOK, LinkRecords
  <2> QED
    BY <2>1 DEF Created
<1>3. ui'.rows = ui.rows
  BY ShowsFields DEF WriteDone, Chunk, Order, TypeOK, ConnStates
<1> QED
  BY <1>1, <1>2, <1>3, SameRows

LEMMA ChangesRows ==
    ASSUME Order, Order', Rows, ~Disposed, NEW t \in Transports,
           SocketError(t) \/ Drop(t) \/ Reconnect(t) \/ PipeError(t) \/ Unplug(t) \/ End(t)
    PROVE  Rows'
<1>1. PICK record \in LinkRecords : Changes(t, record)
  BY OwnChanges
<1>2. /\ UNCHANGED <<at, held, toMain, worker, host>>
      /\ (ui' = ui /\ toWorker' = toWorker)
         \/ (ui' = Shows(ui, record.state) /\ toWorker' = toWorker \o Defaults(record.state, t))
  BY <1>1 DEF Changes, Emit
<1>3. Created' = Created
  <2>1. link \in [Transports -> LinkRecords]
    BY DEF Order, TypeOK
  <2>2. \A s \in Transports \ {t} : link'[s] = link[s]
    BY <1>1, <2>1 DEF Changes
  <2>3. link'[t].kind = link[t].kind
    <3> USE DEF Changes, LinkRecords
    <3>1. CASE SocketError(t)
      BY <2>1, <3>1 DEF SocketError
    <3>2. CASE Drop(t)
      BY <2>1, <3>2 DEF Drop
    <3>3. CASE Reconnect(t)
      BY <2>1, <3>3 DEF Reconnect
    <3>4. CASE PipeError(t)
      BY <2>1, <3>4 DEF PipeError
    <3>5. CASE Unplug(t)
      BY <2>1, <3>5 DEF Unplug
    <3>6. CASE End(t)
      BY <2>1, <3>6 DEF End
    <3> QED
      BY <3>1, <3>2, <3>3, <3>4, <3>5, <3>6
  <2> QED
    BY <2>2, <2>3 DEF Created
<1>4. ui'.rows = ui.rows \/ ui'.rows = {}
  BY <1>2, ShowsFields DEF Order, TypeOK, LinkRecords
<1>5. toWorker' = toWorker \/ \E r \in PlainRequests : toWorker' = toWorker \o <<r>>
  <2>1. [m |-> "defaults", of |-> t] \in PlainRequests
    BY DEF PlainRequests, RequestRecords, Requests
  <2>2. toWorker \o <<>> = toWorker
    BY DEF Order, Addressed
  <2> QED
    BY <1>2, <2>1, <2>2 DEF Defaults, Request
<1> QED
  BY <1>2, <1>3, <1>4, <1>5, SameRows

LEMMA SendRows == ASSUME Order, Order', Rows, Send PROVE Rows'
<1>1. [m |-> "send", of |-> host.transport] \in PlainRequests
  BY DEF PlainRequests, RequestRecords, Requests, Order, TypeOK, HostRecords
<1>2. Created' = Created
  BY DEF Send, Created
<1> QED
  BY <1>1, <1>2, SameRows DEF Send, Request

LEMMA BeatRows == ASSUME Order, Order', Rows, NEW t \in Transports, Beat(t) PROVE Rows'
<1>1. [m |-> "frame", of |-> t, heard |-> {}] \in PlainAnswers
  BY DEF PlainAnswers, AnswerRecords, Answers
<1>2. Created' = Created
  BY DEF Beat, Created
<1> QED
  BY <1>1, <1>2, SameRows DEF Beat, Answer

LEMMA NextRows == RowOrder /\ [Next]_vars => RowOrder'
<1> SUFFICES ASSUME RowOrder, [Next]_vars PROVE RowOrder'
  OBVIOUS
<1>1. Order /\ Order' /\ ShownIsTheLinkState'
  BY NextOrder, NextState DEF RowOrder, ShownIsTrue
<1>2. CASE Disposed'
  BY <1>1, <1>2 DEF RowOrder, ShownIsTrue, RowsAreOfThisLink
<1>3. CASE ~Disposed'
  <2>0. ~Disposed /\ Rows
    BY <1>1, <1>3, StepsBeforeDispose DEF RowOrder, Rows, ShownIsTrue
  <2> SUFFICES Rows'
    BY <1>1 DEF RowOrder, Rows, ShownIsTrue
  <2>1. CASE OperatorLeaves(toWorker) \/ OperatorLeaves(toWorker \o Cancels)
    BY <1>1, <1>3, <2>0, <2>1, LeavesRows, CancelsWanted DEF Rows, Books
  <2>2. CASE Send \/ Worker \/ MainReceives
    BY <1>1, <2>0, <2>2, SendRows, BeatRows, SnapshotRows, WorkerReceivesRows, MainReceivesRows DEF Worker
  <2>3. CASE Transport
    <3>1. PICK t \in Transports :
            \/ Opened(t) \/ OpenFails(t) \/ Pump(t) \/ WriteDone(t) \/ Chunk(t)
            \/ SocketError(t) \/ Drop(t) \/ Reconnect(t) \/ PipeError(t) \/ Unplug(t) \/ End(t)
      BY <2>3 DEF Transport
    <3> QED
      BY <1>1, <1>3, <2>0, <3>1, OpenedRows, OpenFailsRows, PumpRows, PlainRows, ChangesRows
  <2>4. CASE UNCHANGED vars
    <3>1. Created' = Created
      BY <2>4 DEF vars, Created
    <3> QED
      BY <1>1, <2>0, <2>4, <3>1, SameRows DEF vars
  <2> QED
    BY <1>1, <1>3, <2>1, <2>2, <2>3, <2>4, StepsBeforeDispose
<1> QED
  BY <1>2, <1>3

\* What the operator is shown is true, however calls, failures and the channel's delays
\* interleave: the rows listed were heard through the transport the host holds, nothing of
\* an earlier link survives the reset or arrives late, and between calls the state shown is
\* that transport's (MavlinkHost, ConnectionManager, RPC_RESET, abort of RPC_TELEMETRY).
THEOREM ShownIsTheLink == Spec => []ShownIsTrue
<1>1. Init => RowOrder
  <2> SUFFICES ASSUME Init PROVE RowOrder
    OBVIOUS
  <2>1. Order
    BY InitOrder
  <2>2. ShownIsTrue
    BY <2>1 DEF Init, ShownIsTrue, RowsAreOfThisLink, ShownIsTheLinkState
  <2>3. at["operator"] = "idle" /\ New = Nobody
    BY DEF Init, New, Processes
  <2>4. <<>> \in Seq(WantedRequests) /\ <<>> \in Seq(ToldAnswers)
    OBVIOUS
  <2>5. Books /\ FreshLink
    BY <2>3, <2>4 DEF Init, NoSession, Books, FreshLink
  <2> QED
    BY <2>1, <2>2, <2>5 DEF RowOrder
<1>2. RowOrder => ShownIsTrue
  BY DEF RowOrder
<1> QED
  BY <1>1, <1>2, NextRows, PTL DEF Spec
=============================================================================
