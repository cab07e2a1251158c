--------------------------- MODULE MissionClient ---------------------------
(***************************************************************************)
(* The mission transfer microservice of                                    *)
(* src/mavlink/microservices/mission/mission-client.ts: download, upload   *)
(* with an optional read-back, and clear, for missions, fences and rally   *)
(* points, each a half-duplex handshake with resends, against the vehicles *)
(* at the other end of the link.                                           *)
(*                                                                         *)
(* A link (serial, TCP, WebSocket) keeps the order of messages, and may    *)
(* lose any of them: `up` and `down` are FIFO.  Repeated messages arise    *)
(* from resends.  Time is abstract: an armed timer may fire at any moment. *)
(***************************************************************************)
EXTENDS Integers, Sequences, FiniteSets, TLC

CONSTANTS
    Ops,          \* one element per call of download, upload or clear
    Systems,      \* the vehicles, each a (sysid, compid)
    Types,        \* MAV_MISSION_TYPE values in use
    Mission,      \* type 0, what an absent mission_type field reads as
    Plans,        \* the item lists that vehicles hold and users upload
    MaxAttempts,  \* deps.maxAttempts
    MaxFlight,    \* bound: no resend while that many messages are in flight
    OneAtATime,   \* one mount of the plan screen runs one transfer at a time
    V1,           \* the vehicles answer in MAVLink 1, without mission_type
    None

\* The items of the lists.
Elements == UNION {{p[i] : i \in DOMAIN p} : p \in Plans}

ASSUME MissionAssumption ==
    /\ <<>> \in Plans /\ Plans \subseteq Seq(Elements)
    /\ Mission \in Types
    /\ MaxAttempts \in Nat \ {0}
    /\ MaxFlight \in Nat
    /\ OneAtATime \in BOOLEAN /\ V1 \in BOOLEAN
    /\ None \notin Systems

VARIABLES
    disposed,   \* MissionClient.disposed
    op,         \* the DownloadOp, UploadOp or ClearOp of each call
    issued,     \* operations added to the client's sets so far
    armed,      \* operations whose timer is running
    up,         \* messages from the client that nobody has received yet
    down,       \* messages from the vehicles that nobody has received yet
    stored,     \* what each vehicle holds, per type
    recv,       \* the upload each vehicle is receiving, or None
    held        \* history: everything a vehicle has held

client == <<disposed, op, issued, armed>>
vehicle == <<stored, recv, held>>
vars == <<client, up, down, vehicle>>

Roles == {"download", "upload", "clear"}
Rejections == {"no-target", "aborted", "timeout", "rejected", "send-failed",
               "verify", "disposed"}
Statuses == {"idle", "pending", "resolved"} \cup Rejections

\* `call` is what the user asked for and `role` the handshake in progress: a
\* verified upload goes on as a download.  `next` is expectedSeq or lastSeq.
OpRecords ==
    [status : Statuses, call : Roles, role : Roles, type : Types,
     target : Systems \cup {None}, plan : Plans, verify : BOOLEAN,
     phase : {"count", "items"}, count : Nat, next : Int, attempts : Nat,
     items : Seq(Elements), ord : Nat]

UpKinds == {"REQUEST_LIST", "REQUEST_INT", "COUNT", "ITEM", "ACK", "CLEAR_ALL"}
DownKinds == {"COUNT", "ITEM", "ACK", "REQUEST_INT"}
Messages(kinds) ==
    [kind : kinds, sys : Systems, type : Types \cup {Mission}, n : Nat,
     body : Elements \cup {"ACCEPTED", "ERROR", None}]
Incoming == [type : Types, want : Nat, got : Seq(Elements)]

TypeOK ==
    /\ disposed \in BOOLEAN
    /\ op \in [Ops -> OpRecords]
    /\ issued \in Nat
    /\ armed \subseteq Ops
    /\ up \in Seq(Messages(UpKinds)) /\ down \in Seq(Messages(DownKinds))
    /\ stored \in [Systems -> [Types -> Seq(Elements)]]
    /\ recv \in [Systems -> Incoming \cup {None}]
    /\ held \subseteq Systems \X Types \X Seq(Elements)

Init ==
    /\ disposed = FALSE
    /\ op = [o \in Ops |->
               [status |-> "idle", call |-> "download", role |-> "download",
                type |-> Mission, target |-> None, plan |-> <<>>, verify |-> FALSE,
                phase |-> "count", count |-> 0, next |-> 0, attempts |-> 0,
                items |-> <<>>, ord |-> 0]]
    /\ issued = 0
    /\ armed = {}
    /\ up = <<>> /\ down = <<>>
    /\ stored \in [Systems -> [Types -> Plans]]
    /\ recv = [v \in Systems |-> None]
    /\ held = {<<v, ty, stored[v][ty]>> : v \in Systems, ty \in Types}

Pending == {o \in Ops : op[o].status = "pending"}

-----------------------------------------------------------------------------
(* What the client transmits.                                              *)

Message(kind, sys, type, n, body) ==
    [kind |-> kind, sys |-> sys, type |-> type, n |-> n, body |-> body]

\* What operation r asks for, first and again on every resend.
Request(r) ==
    CASE r.role = "clear" -> Message("CLEAR_ALL", r.target, r.type, 0, None)
      [] r.role = "download" /\ r.phase = "count" ->
            Message("REQUEST_LIST", r.target, r.type, 0, None)
      [] r.role = "download" /\ r.phase = "items" ->
            Message("REQUEST_INT", r.target, r.type, r.next, None)
      [] r.role = "upload" /\ r.phase = "count" ->
            Message("COUNT", r.target, r.type, Len(r.plan), None)
      [] r.role = "upload" /\ r.phase = "items" ->
            Message("ITEM", r.target, r.type, r.next, r.plan[r.next + 1])

FinalAck(r) == Message("ACK", r.target, r.type, 0, "ACCEPTED")

\* Operation o becomes r, transmits its request and (re)starts its timer.
Transmit(o, r) ==
    /\ op' = [op EXCEPT ![o] = r]
    /\ armed' = armed \cup {o}
    /\ up' = Append(up, Request(r))

\* Mutant: settling leaves the timer running.
SettleKeepsTimer(S, outcome) ==
    /\ op' = [o \in Ops |-> IF o \in S THEN [op[o] EXCEPT !.status = outcome] ELSE op[o]]
    /\ UNCHANGED armed

\* settleDownload, settleUpload, settleClear.
Settle(S, outcome) ==
    /\ op' = [o \in Ops |-> IF o \in S THEN [op[o] EXCEPT !.status = outcome] ELSE op[o]]
    /\ armed' = armed \ S

-----------------------------------------------------------------------------
(* The calls.                                                              *)

\* Why a call of kind c is turned down when getTarget() returns t.
Refusals(c, t) ==
    IF disposed THEN {"disposed"}
    ELSE IF t = None THEN {"no-target"}
    ELSE IF c = "clear" THEN {} ELSE {"aborted"}    \* its signal already aborted

Refuse(o, c, t) ==
    /\ op[o].status = "idle"
    /\ \E why \in Refusals(c, t) :
          op' = [op EXCEPT ![o].status = why, ![o].call = c, ![o].role = c]
    /\ UNCHANGED <<disposed, issued, armed, up, down, vehicle>>

NewOp(c, ty, t, p, verify) ==
    [status |-> "pending", call |-> c, role |-> c, type |-> ty, target |-> t,
     plan |-> p, verify |-> verify, phase |-> "count", count |-> 0,
     next |-> IF c = "upload" THEN -1 ELSE 0, attempts |-> 1, items |-> <<>>,
     ord |-> issued]

Begin(o, c, ty, t, p, verify) ==
    /\ op[o].status = "idle"
    /\ ~disposed
    /\ OneAtATime => Pending = {}
    /\ c # "upload" => p = <<>> /\ ~verify
    /\ Transmit(o, NewOp(c, ty, t, p, verify))
    /\ issued' = issued + 1
    /\ UNCHANGED <<disposed, down, vehicle>>

Download(o, ty, t) == Begin(o, "download", ty, t, <<>>, FALSE)
Upload(o, ty, t, p, verify) == Begin(o, "upload", ty, t, p, verify)
Clear(o, ty, t) == Begin(o, "clear", ty, t, <<>>, FALSE)

\* Mutant: a resend is not counted.
TickUncounted(o) ==
    /\ o \in armed
    /\ IF op[o].attempts >= MaxAttempts
       THEN Settle({o}, "timeout") /\ UNCHANGED up
       ELSE Len(up) + Len(down) < MaxFlight /\ Transmit(o, op[o])
    /\ UNCHANGED <<disposed, issued, down, vehicle>>

\* onDownloadTick, onUploadTick, onClearTick: resend, or give up.
Tick(o) ==
    /\ o \in armed
    /\ IF op[o].attempts >= MaxAttempts
       THEN Settle({o}, "timeout") /\ UNCHANGED up
       ELSE Len(up) + Len(down) < MaxFlight /\ Transmit(o, [op[o] EXCEPT !.attempts = @ + 1])
    /\ UNCHANGED <<disposed, issued, down, vehicle>>

\* Mutant: the abort listener of a settled transfer is still attached.
AbortLate(o) ==
    /\ op[o].status # "idle"
    /\ op[o].role # "clear"
    /\ Settle({o}, "aborted")
    /\ UNCHANGED <<disposed, issued, up, down, vehicle>>

Abort(o) ==
    /\ o \in Pending
    /\ op[o].role # "clear"
    /\ Settle({o}, "aborted")
    /\ UNCHANGED <<disposed, issued, up, down, vehicle>>

Dispose ==
    /\ ~disposed
    /\ disposed' = TRUE
    /\ Settle(Pending, "disposed")
    /\ UNCHANGED <<issued, up, down, vehicle>>

\* The worker rejects the message at the head of its queue: emit's onError ends
\* every operation of the client.
SendFailed ==
    /\ up # <<>>
    /\ up' = Tail(up)
    /\ Settle(Pending, "send-failed")
    /\ UNCHANGED <<disposed, issued, down, vehicle>>

-----------------------------------------------------------------------------
(* Messages from the vehicles.                                             *)

Oldest(S) == {o \in S : \A q \in S : op[o].ord <= op[q].ord}

\* Mutant: the source of a message is not checked.
InRoleAnySource(role, v) == {o \in Pending : op[o].role = role}

InRole(role, v) == {o \in Pending : op[o].role = role /\ op[o].target = v}

\* matchDownload, matchUpload: a type that may be absent (0) matches the only
\* operation in flight whatever its type, and none when there are several.
Matching(role, m) ==
    LET candidates == InRole(role, m.sys)
    IN  IF m.type = Mission
        THEN IF Cardinality(candidates) = 1 THEN candidates ELSE {}
        ELSE Oldest({o \in candidates : op[o].type = m.type})

Ignore == UNCHANGED <<op, issued, armed, up>>

\* Mutant: the read-back is not compared.
DownloadedUnverified(o, items) ==
    /\ op' = [op EXCEPT ![o].items = items, ![o].status = "resolved"]
    /\ armed' = armed \ {o}
    /\ up' = Append(up, FinalAck(op[o]))
    /\ UNCHANGED issued

\* The download is complete; a read-back is compared with what was uploaded.
Downloaded(o, items) ==
    /\ op' = [op EXCEPT ![o].items = items,
                        ![o].status = IF op[o].call = "upload" /\ items # op[o].plan
                                      THEN "verify" ELSE "resolved"]
    /\ armed' = armed \ {o}
    /\ up' = Append(up, FinalAck(op[o]))
    /\ UNCHANGED issued

OnCount(o, m) ==
    IF op[o].phase # "count" THEN Ignore
    ELSE IF m.n = 0 THEN Downloaded(o, <<>>)
    ELSE /\ Transmit(o, [op[o] EXCEPT !.phase = "items", !.count = m.n, !.next = 0,
                                      !.attempts = 1])
         /\ UNCHANGED issued

\* Mutant: a repeated item is taken for the expected one.
OnItemIntAnySeq(o, m) ==
    LET items == Append(op[o].items, m.body) IN
    IF op[o].phase # "items" THEN Ignore
    ELSE IF Len(items) >= op[o].count THEN Downloaded(o, items)
    ELSE /\ Transmit(o, [op[o] EXCEPT !.items = items, !.next = @ + 1, !.attempts = 1])
         /\ UNCHANGED issued

OnItemInt(o, m) ==
    LET items == Append(op[o].items, m.body) IN
    IF op[o].phase # "items" \/ m.n # op[o].next THEN Ignore
    ELSE IF Len(items) >= op[o].count THEN Downloaded(o, items)
    ELSE /\ Transmit(o, [op[o] EXCEPT !.items = items, !.next = @ + 1, !.attempts = 1])
         /\ UNCHANGED issued

OnItemRequest(o, m) ==
    IF m.n >= Len(op[o].plan) THEN Ignore
    ELSE /\ Transmit(o, [op[o] EXCEPT !.phase = "items", !.next = m.n, !.attempts = 1])
         /\ UNCHANGED issued

\* Mutant: the read-back does not look whether there still is a vehicle.
StartVerifyUnchecked(o, t) ==
    /\ Transmit(o, [op[o] EXCEPT !.role = "download", !.target = t, !.phase = "count",
                                 !.next = 0, !.attempts = 1, !.ord = issued])
    /\ issued' = issued + 1

\* finishUpload with verify: a download like any other, from the vehicle that
\* getTarget() returns now.
StartVerify(o, t) ==
    IF t = None
    THEN Settle({o}, "no-target") /\ UNCHANGED <<issued, up>>
    ELSE /\ Transmit(o, [op[o] EXCEPT !.role = "download", !.target = t,
                            !.phase = "count", !.next = 0, !.attempts = 1, !.ord = issued])
         /\ issued' = issued + 1

OnUploadAck(o, m, t) ==
    IF m.body # "ACCEPTED" THEN Settle({o}, "rejected") /\ UNCHANGED <<issued, up>>
    ELSE IF op[o].verify THEN StartVerify(o, t)
    ELSE Settle({o}, "resolved") /\ UNCHANGED <<issued, up>>

OnClearAck(o, m) ==
    /\ Settle({o}, IF m.body = "ACCEPTED" THEN "resolved" ELSE "rejected")
    /\ UNCHANGED <<issued, up>>

\* The clears a MISSION_ACK may end: the type has to match exactly.
MatchingClear(m) == Oldest({o \in InRole("clear", m.sys) : op[o].type = m.type})

\* The operation a message is for; an acknowledgement is for an upload first.
Addressee(m) ==
    CASE m.kind \in {"COUNT", "ITEM"} -> Matching("download", m)
      [] m.kind = "REQUEST_INT" -> Matching("upload", m)
      [] m.kind = "ACK" -> IF Matching("upload", m) # {} THEN Matching("upload", m)
                           ELSE MatchingClear(m)

OnAck(o, m, t) == IF op[o].role = "upload" THEN OnUploadAck(o, m, t) ELSE OnClearAck(o, m)

\* onMessage, while the active vehicle is t; nothing is heard once disposed.
OnMessage(t) ==
    /\ down # <<>>
    /\ LET m == Head(down) IN
         IF disposed \/ Addressee(m) = {} THEN Ignore
         ELSE \E o \in Addressee(m) :
                CASE m.kind = "COUNT" -> OnCount(o, m)
                  [] m.kind = "ITEM" -> OnItemInt(o, m)
                  [] m.kind = "REQUEST_INT" -> OnItemRequest(o, m)
                  [] m.kind = "ACK" -> OnAck(o, m, t)
    /\ down' = Tail(down)
    /\ UNCHANGED <<disposed, vehicle>>

-----------------------------------------------------------------------------
(* The vehicles and the link.                                              *)

\* The type a vehicle's message carries, as the client decodes it.
WireType(ty) == IF V1 THEN Mission ELSE ty

Reply(kind, m, n, body) ==
    down' = Append(down, Message(kind, m.sys, WireType(m.type), n, body))

Store(m, items) ==
    /\ stored' = [stored EXCEPT ![m.sys][m.type] = items]
    /\ held' = held \cup {<<m.sys, m.type, items>>}
    /\ recv' = [recv EXCEPT ![m.sys] = None]
    /\ Reply("ACK", m, 0, "ACCEPTED")

VehicleCount(m) ==
    IF m.n = 0 THEN Store(m, <<>>)
    ELSE /\ recv' = [recv EXCEPT ![m.sys] = [type |-> m.type, want |-> m.n, got |-> <<>>]]
         /\ Reply("REQUEST_INT", m, 0, None)
         /\ UNCHANGED <<stored, held>>

\* The expected item is taken, another one is answered with what is expected.
VehicleItem(m) ==
    LET r == recv[m.sys] IN
    IF r = None \/ (r # None /\ r.type # m.type)
    THEN UNCHANGED <<vehicle, down>>
    ELSE LET got == IF m.n = Len(r.got) THEN Append(r.got, m.body) ELSE r.got
         IN  IF Len(got) = r.want THEN Store(m, got)
             ELSE /\ recv' = [recv EXCEPT ![m.sys] = [r EXCEPT !.got = got]]
                  /\ Reply("REQUEST_INT", m, Len(got), None)
                  /\ UNCHANGED <<stored, held>>

VehicleSends(m) ==
    LET plan == stored[m.sys][m.type] IN
    /\ IF m.kind = "REQUEST_LIST" THEN Reply("COUNT", m, Len(plan), None)
       ELSE IF m.n < Len(plan) THEN Reply("ITEM", m, m.n, plan[m.n + 1])
       ELSE UNCHANGED down
    /\ UNCHANGED vehicle

VehicleReceives ==
    /\ up # <<>>
    /\ LET m == Head(up) IN
         CASE m.kind \in {"REQUEST_LIST", "REQUEST_INT"} -> VehicleSends(m)
           [] m.kind = "COUNT" -> VehicleCount(m)
           [] m.kind = "ITEM" -> VehicleItem(m)
           [] m.kind = "CLEAR_ALL" -> Store(m, <<>>)
           [] m.kind = "ACK" -> UNCHANGED <<vehicle, down>>
    /\ up' = Tail(up)
    /\ UNCHANGED client

\* A vehicle may turn down anything it is asked.
VehicleRejects ==
    /\ up # <<>> /\ Head(up).kind # "ACK"
    /\ Reply("ACK", Head(up), 0, "ERROR")
    /\ recv' = [recv EXCEPT ![Head(up).sys] = None]
    /\ up' = Tail(up)
    /\ UNCHANGED <<client, stored, held>>

LoseUp == up # <<>> /\ up' = Tail(up) /\ UNCHANGED <<client, down, vehicle>>
LoseDown == down # <<>> /\ down' = Tail(down) /\ UNCHANGED <<client, up, vehicle>>

-----------------------------------------------------------------------------

Enter(o) ==
    \/ \E c \in Roles, t \in Systems \cup {None} : Refuse(o, c, t)
    \/ \E ty \in Types, t \in Systems :
          \/ Download(o, ty, t)
          \/ \E p \in Plans, verify \in BOOLEAN : Upload(o, ty, t, p, verify)
          \/ Clear(o, ty, t)

Link == VehicleReceives \/ VehicleRejects \/ LoseUp \/ LoseDown

Next ==
    \/ \E o \in Ops : Enter(o) \/ Tick(o) \/ Abort(o)
    \/ \E t \in Systems \cup {None} : OnMessage(t)
    \/ SendFailed
    \/ Dispose
    \/ Link

Spec == Init /\ [][Next]_vars

\* setTimeout fires, and the link delivers, loses or refuses what is in flight.
Fairness ==
    /\ \A o \in Ops : WF_vars(Tick(o))
    /\ WF_vars(VehicleReceives \/ VehicleRejects \/ LoseUp \/ SendFailed)
    /\ WF_vars(LoseDown \/ \E t \in Systems \cup {None} : OnMessage(t))

FairSpec == Spec /\ Fairness

-----------------------------------------------------------------------------
(* Properties.                                                             *)

Settled == Rejections \cup {"resolved"}

\* A transfer in flight always has a timer to end it, and an ended one has none
\* (the cancelTimer bookkeeping of the tick and settle helpers).
TimersMatchPending == armed = Pending

\* A transfer ends once: neither a late reply, tick, abort, send failure nor
\* disposal changes its outcome (the settled flags).
SettledForever ==
    [][\A o \in Ops : op[o].status \in Settled => op'[o] = op[o]]_vars

\* No transfer was abandoned, or turned down, with messages of it still on the link.
NothingGivenUp ==
    \A o \in Ops :
        op[o].status \notin {"timeout", "aborted", "send-failed", "disposed", "rejected"}

Held(o, items) == <<op[o].target, op[o].type, items>> \in held

\* As long as no transfer is given up, what a download returns is a whole list
\* the vehicle held, however often requests were resent and replies repeated
\* (onCount, onItemInt).
DownloadedIsHeld ==
    NothingGivenUp =>
        \A o \in Ops :
            op[o].status = "resolved" /\ op[o].call = "download" => Held(o, op[o].items)

\* As long as no transfer is given up, an upload with verify that resolves has
\* left the list it was given on the vehicle, even when the acknowledgement that
\* ended its first half belonged to an earlier transfer (onAck, finishUpload).
VerifiedUploadIsHeld ==
    NothingGivenUp =>
        \A o \in Ops :
            op[o].status = "resolved" /\ op[o].call = "upload" /\ op[o].verify =>
                Held(o, op[o].plan)

\* With several vehicles on the link, a reply moves only a transfer with the
\* vehicle that sent it (matchDownload, matchUpload, onAck).
RepliesStayWithTheirVehicle ==
    [][\A o \in Ops :
          op[o].status = "pending" /\ op'[o] # op[o] /\ down' # down /\ UNCHANGED vehicle
          /\ Len(down') < Len(down) => op[o].target = Head(down).sys]_vars

\* Every transfer ends, whatever the link loses and the vehicles refuse.
EveryTransferEnds ==
    \A o \in Ops : op[o].status = "pending" ~> op[o].status \in Settled

-----------------------------------------------------------------------------
\* Values of the constants for TLC: an empty list, and lists that differ in length and
\* in one item; transfers are interchangeable, no action or property names one.
MCPlans == {<<>>, <<"a">>, <<"b", "a">>}
Symmetry == Permutations(Ops)
=============================================================================
