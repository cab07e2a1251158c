------------------------- MODULE MissionClientProofs -------------------------
(***************************************************************************)
(* Proofs about MissionClient for any number of calls, vehicles and lists, *)
(* of any length, whatever the link loses and the vehicles refuse.         *)
(***************************************************************************)
EXTENDS MissionClient, FiniteSetTheorems, SequenceTheorems, TLAPS

\* Messages as they are sent: an ITEM has an item in it.
Sent(kinds) == {m \in Messages(kinds) : m.kind = "ITEM" => m.body \in Elements}

\* What a transfer in flight is about, and where it stands in its list: an upload that
\* is asked for items has the item that it was asked for last.
Fits(r) ==
    /\ r.status = "pending" /\ r.target \in Systems
    /\ r.role = "upload" /\ r.phase = "items" => r.next \in 0 .. Len(r.plan) - 1
    /\ r.role = "download" => r.next \in Nat

\* The inductive invariant for the types and the timers: an item can be sent (again)
\* because the transfer stands at an item of its list.
Transfers ==
    /\ TypeOK /\ TimersMatchPending
    /\ up \in Seq(Sent(UpKinds)) /\ down \in Seq(Sent(DownKinds))
    /\ \A o \in Ops : op[o].status = "pending" => Fits(op[o])

LEMMA PlansTyped == \A p \in Plans : p \in Seq(Elements) /\ Len(p) \in Nat
BY MissionAssumption

LEMMA SentTyped == ASSUME NEW kinds PROVE Seq(Sent(kinds)) \subseteq Seq(Messages(kinds))
<1>1. Sent(kinds) \subseteq Messages(kinds)
  BY DEF Sent
<1> QED
  BY <1>1

\* The head and the tail of a queue.
LEMMA HeadTyped ==
    ASSUME NEW S, NEW q \in Seq(S), q # <<>>
    PROVE  /\ Head(q) \in S /\ Tail(q) \in Seq(S) /\ Len(Tail(q)) = Len(q) - 1 /\ Len(q) \in Nat
           /\ Len(q) > 0
OBVIOUS

LEMMA RequestTyped ==
    ASSUME NEW r \in OpRecords, Fits(r)
    PROVE  Request(r) \in Sent(UpKinds)
<1>1. /\ r.role \in Roles /\ r.phase \in {"count", "items"} /\ r.type \in Types
      /\ r.target \in Systems /\ r.plan \in Seq(Elements) /\ Len(r.plan) \in Nat
  BY PlansTyped DEF OpRecords, Fits
<1>2. ASSUME NEW kind \in UpKinds, NEW n \in Nat,
             NEW body \in Elements \cup {"ACCEPTED", "ERROR", None}, kind = "ITEM" => body \in Elements
      PROVE  Message(kind, r.target, r.type, n, body) \in Sent(UpKinds)
  BY <1>1, <1>2 DEF Message, Sent, Messages
<1>3. CASE r.role = "clear"
  BY <1>2, <1>3 DEF Request, UpKinds
<1>4. CASE r.role = "download"
  <2>1. r.next \in Nat
    BY <1>4 DEF Fits
  <2> QED
    BY <1>1, <1>2, <1>4, <2>1 DEF Request, UpKinds
<1>5. CASE r.role = "upload" /\ r.phase = "count"
  BY <1>1, <1>2, <1>5 DEF Request, UpKinds
<1>6. CASE r.role = "upload" /\ r.phase = "items"
  <2>1. r.next \in Nat /\ r.next + 1 \in 1 .. Len(r.plan)
    BY <1>1, <1>6 DEF Fits
  <2>2. r.plan[r.next + 1] \in Elements
    BY <1>1, <2>1
  <2> QED
    BY <1>1, <1>2, <1>6, <2>1, <2>2 DEF Request, UpKinds
<1> QED
  BY <1>1, <1>3, <1>4, <1>5, <1>6 DEF Roles

\* Of a transfer that goes on.
LEMMA TransmitKeeps ==
    ASSUME Transfers, NEW o \in Ops, NEW r \in OpRecords, Fits(r), Transmit(o, r)
    PROVE  /\ op' \in [Ops -> OpRecords] /\ armed' \subseteq Ops /\ armed' = Pending'
           /\ up' \in Seq(Sent(UpKinds)) /\ Len(up') = Len(up) + 1
           /\ \A q \in Ops : op'[q].status = "pending" => Fits(op'[q])
           /\ \A q \in Ops : q # o => op'[q] = op[q]
<1>1. op' = [op EXCEPT ![o] = r] /\ armed' = armed \cup {o} /\ up' = Append(up, Request(r))
  BY DEF Transmit
<1>2. /\ op' \in [Ops -> OpRecords] /\ op'[o] = r
      /\ \A q \in Ops : q # o => op'[q] = op[q]
  BY <1>1 DEF Transfers, TypeOK
<1>3. up' \in Seq(Sent(UpKinds)) /\ Len(up') = Len(up) + 1
  BY <1>1, RequestTyped DEF Transfers
<1>4. Pending' = Pending \cup {o}
  BY <1>2 DEF Pending, Fits
<1> QED
  BY <1>1, <1>2, <1>3, <1>4 DEF Transfers, TypeOK, TimersMatchPending

\* Of transfers that end.
LEMMA SettleKeeps ==
    ASSUME Transfers, NEW S \in SUBSET Pending, NEW outcome \in Settled, Settle(S, outcome)
    PROVE  /\ op' \in [Ops -> OpRecords] /\ armed' \subseteq Ops /\ armed' = Pending'
           /\ \A q \in Ops : op'[q].status = "pending" => Fits(op'[q])
           /\ \A q \in Ops \ S : op'[q] = op[q]
<1>1. /\ op' = [o \in Ops |-> IF o \in S THEN [op[o] EXCEPT !.status = outcome] ELSE op[o]]
      /\ armed' = armed \ S
  BY DEF Settle
<1>2. outcome \in Statuses /\ outcome # "pending"
  BY DEF Settled, Rejections, Statuses
<1>3. ASSUME NEW o \in Ops
      PROVE  /\ [op[o] EXCEPT !.status = outcome] \in OpRecords
             /\ [op[o] EXCEPT !.status = outcome].status = outcome
  BY <1>2 DEF Transfers, TypeOK, OpRecords
<1>4. \A o \in Ops : op'[o] = IF o \in S THEN [op[o] EXCEPT !.status = outcome] ELSE op[o]
  BY <1>1
<1>5. op' \in [Ops -> OpRecords]
  BY <1>1, <1>3 DEF Transfers, TypeOK
<1>6. Pending' = Pending \ S
  <2>1. \A o \in Ops : op'[o].status = IF o \in S THEN outcome ELSE op[o].status
    BY <1>3, <1>4
  <2> QED
    BY <1>2, <2>1 DEF Pending
<1>7. \A q \in Ops : op'[q].status = "pending" => Fits(op'[q])
  BY <1>2, <1>3, <1>4 DEF Transfers
<1> QED
  BY <1>1, <1>4, <1>5, <1>6, <1>7 DEF Transfers, TypeOK, TimersMatchPending

\* A reply of a vehicle is on its way to the client.
LEMMA ReplyTyped ==
    ASSUME down \in Seq(Sent(DownKinds)), NEW kind \in DownKinds, NEW m, NEW n \in Nat,
           m.sys \in Systems, m.type \in Types,
           NEW body \in Elements \cup {"ACCEPTED", "ERROR", None}, kind = "ITEM" => body \in Elements,
           Reply(kind, m, n, body)
    PROVE  down' \in Seq(Sent(DownKinds)) /\ Len(down') = Len(down) + 1
<1>1. WireType(m.type) \in Types
  BY MissionAssumption DEF WireType
<1>2. Message(kind, m.sys, WireType(m.type), n, body) \in Sent(DownKinds)
  BY <1>1 DEF Message, Sent, Messages
<1> QED
  BY <1>2 DEF Reply

LEMMA NewTransfer ==
    ASSUME Transfers, NEW c \in Roles, NEW ty \in Types, NEW t \in Systems, NEW p \in Plans,
           NEW verify \in BOOLEAN
    PROVE  NewOp(c, ty, t, p, verify) \in OpRecords /\ Fits(NewOp(c, ty, t, p, verify))
<1>1. issued \in Nat /\ <<>> \in Seq(Elements)
  BY DEF Transfers, TypeOK
<1>2. NewOp(c, ty, t, p, verify) \in OpRecords
  BY <1>1 DEF NewOp, OpRecords, Statuses
<1>3. Fits(NewOp(c, ty, t, p, verify))
  BY DEF NewOp, Fits
<1> QED
  BY <1>2, <1>3

LEMMA EnterTransfers == ASSUME Transfers, NEW o \in Ops, Enter(o) PROVE Transfers'
<1> USE DEF Transfers
<1>1. ASSUME NEW c \in Roles, NEW t \in Systems \cup {None}, Refuse(o, c, t) PROVE Transfers'
  <2>1. PICK why \in {"disposed", "no-target", "aborted"} :
          /\ op[o].status = "idle" /\ UNCHANGED <<disposed, issued, armed, up, down, vehicle>>
          /\ op' = [op EXCEPT ![o].status = why, ![o].call = c, ![o].role = c]
    BY <1>1 DEF Refuse, Refusals
  <2>2. op[o] \in OpRecords
    BY DEF TypeOK
  <2>3. [op[o] EXCEPT !.status = why, !.call = c, !.role = c] \in OpRecords
    BY <2>2 DEF OpRecords, Statuses, Rejections
  <2>4. op' = [op EXCEPT ![o] = [op[o] EXCEPT !.status = why, !.call = c, !.role = c]]
    BY <2>1, <2>2 DEF TypeOK, OpRecords
  <2>5. op' \in [Ops -> OpRecords] /\ op'[o].status = why /\ \A q \in Ops : q # o => op'[q] = op[q]
    BY <2>2, <2>3, <2>4 DEF TypeOK, OpRecords
  <2>6. \A q \in Ops : op'[q].status = "pending" => q # o /\ op[q].status = "pending"
    BY <2>5
  <2>7. \A q \in Ops : op[q].status = "pending" => q # o
    BY <2>1
  <2>8. Pending' = Pending
    BY <2>5, <2>6, <2>7 DEF Pending
  <2> QED
    BY <2>1, <2>5, <2>6, <2>8 DEF TypeOK, TimersMatchPending, vehicle
<1>2. ASSUME NEW c \in Roles, NEW ty \in Types, NEW t \in Systems, NEW p \in Plans,
             NEW verify \in BOOLEAN, Begin(o, c, ty, t, p, verify)
      PROVE  Transfers'
  <2>1. /\ Transmit(o, NewOp(c, ty, t, p, verify)) /\ issued' = issued + 1
        /\ UNCHANGED <<disposed, down, vehicle>>
    BY <1>2 DEF Begin
  <2> QED
    BY <2>1, NewTransfer, TransmitKeeps, SentTyped DEF TypeOK, TimersMatchPending, vehicle
<1>3. <<>> \in Plans
  BY MissionAssumption
<1> QED
  BY <1>1, <1>2, <1>3 DEF Enter, Download, Upload, Clear, Roles

LEMMA TickTransfers == ASSUME Transfers, NEW o \in Ops, Tick(o) PROVE Transfers'
<1> USE DEF Transfers
<1>1. o \in Pending /\ op[o] \in OpRecords /\ Fits(op[o]) /\ UNCHANGED <<disposed, issued, down, vehicle>>
  BY DEF Tick, TimersMatchPending, TypeOK, Pending
<1>2. CASE op[o].attempts >= MaxAttempts
  <2>1. Settle({o}, "timeout") /\ UNCHANGED up
    BY <1>2 DEF Tick
  <2> QED
    BY <1>1, <2>1, SettleKeeps, SentTyped DEF TypeOK, TimersMatchPending, vehicle, Settled, Rejections
<1>3. CASE ~(op[o].attempts >= MaxAttempts)
  <2> DEFINE r == [op[o] EXCEPT !.attempts = @ + 1]
  <2>1. Transmit(o, r)
    BY <1>3 DEF Tick
  <2>2. r \in OpRecords
    <3>1. op[o].attempts + 1 \in Nat
      BY <1>1 DEF OpRecords
    <3> QED
      BY <1>1, <3>1 DEF OpRecords
  <2>3. r.status = op[o].status /\ r.target = op[o].target /\ r.role = op[o].role
        /\ r.phase = op[o].phase /\ r.next = op[o].next /\ r.plan = op[o].plan
    BY <1>1 DEF OpRecords
  <2>4. Fits(r)
    BY <1>1, <2>3 DEF Fits
  <2> HIDE DEF r
  <2> QED
    BY <1>1, <2>1, <2>2, <2>4, TransmitKeeps, SentTyped DEF TypeOK, TimersMatchPending, vehicle
<1> QED
  BY <1>2, <1>3

LEMMA EndTransfers ==
    ASSUME Transfers, (\E o \in Ops : Abort(o)) \/ Dispose \/ SendFailed
    PROVE  Transfers'
<1> USE DEF Transfers
<1>1. PICK S \in SUBSET Pending, outcome \in Settled :
        /\ Settle(S, outcome) /\ UNCHANGED <<issued, down, vehicle>>
        /\ disposed' \in BOOLEAN /\ (up' = up \/ (up # <<>> /\ up' = Tail(up)))
  <2>1. ASSUME NEW o \in Ops, Abort(o)
        PROVE  /\ {o} \in SUBSET Pending /\ "aborted" \in Settled
               /\ Settle({o}, "aborted") /\ UNCHANGED <<issued, down, vehicle>>
               /\ disposed' \in BOOLEAN /\ up' = up
    BY <2>1 DEF Abort, Settled, Rejections, TypeOK
  <2>2. ASSUME Dispose
        PROVE  /\ Pending \in SUBSET Pending /\ "disposed" \in Settled
               /\ Settle(Pending, "disposed") /\ UNCHANGED <<issued, down, vehicle>>
               /\ disposed' \in BOOLEAN /\ up' = up
    BY <2>2 DEF Dispose, Settled, Rejections
  <2>3. ASSUME SendFailed
        PROVE  /\ Pending \in SUBSET Pending /\ "send-failed" \in Settled
               /\ Settle(Pending, "send-failed") /\ UNCHANGED <<issued, down, vehicle>>
               /\ disposed' \in BOOLEAN /\ up # <<>> /\ up' = Tail(up)
    BY <2>3 DEF SendFailed, Settled, Rejections, TypeOK
  <2> QED
    BY <2>1, <2>2, <2>3
<1>2. up' \in Seq(Sent(UpKinds))
  BY <1>1, HeadTyped
<1> QED
  BY <1>1, <1>2, SettleKeeps, SentTyped DEF TypeOK, TimersMatchPending, vehicle

\* A message of a vehicle is for a transfer in flight with that vehicle.
LEMMA AddresseeIsPending ==
    ASSUME NEW m \in Messages(DownKinds), NEW o \in Addressee(m)
    PROVE  /\ o \in Pending /\ op[o].target = m.sys
           /\ m.kind \in {"COUNT", "ITEM"} => op[o].role = "download"
           /\ m.kind = "REQUEST_INT" => op[o].role = "upload"
           /\ m.kind = "ACK" => op[o].role \in {"upload", "clear"}
<1>1. ASSUME NEW role, o \in Matching(role, m)
      PROVE  o \in Pending /\ op[o].target = m.sys /\ op[o].role = role
  BY <1>1 DEF Matching, Oldest, InRole
<1>2. ASSUME o \in MatchingClear(m)
      PROVE  o \in Pending /\ op[o].target = m.sys /\ op[o].role = "clear"
  BY <1>2 DEF MatchingClear, Oldest, InRole
<1>3. m.kind \in DownKinds
  BY DEF Messages
<1> QED
  BY <1>1, <1>2, <1>3 DEF Addressee, DownKinds

\* What a handler does: it keeps the books, and touches the transfer o only.
Handles(o) ==
    /\ op' \in [Ops -> OpRecords] /\ armed' \subseteq Ops /\ armed' = Pending'
    /\ up' \in Seq(Sent(UpKinds)) /\ issued' \in Nat
    /\ \A q \in Ops : op'[q].status = "pending" => Fits(op'[q])
    /\ \A q \in Ops \ {o} : op'[q] = op[q]

\* The last item of a download has come.
LEMMA DownloadedTransfers ==
    ASSUME Transfers, NEW o \in Pending, NEW items \in Seq(Elements), Downloaded(o, items)
    PROVE  Handles(o)
<1> USE DEF Transfers, Handles
<1>1. PICK outcome \in {"verify", "resolved"} :
         /\ op' = [op EXCEPT ![o].items = items, ![o].status = outcome]
         /\ armed' = armed \ {o} /\ up' = Append(up, FinalAck(op[o])) /\ UNCHANGED issued
  BY DEF Downloaded
<1>2. op[o] \in OpRecords /\ o \in Ops /\ Fits(op[o])
  BY DEF Pending, TypeOK
<1>3. [op[o] EXCEPT !.items = items, !.status = outcome] \in OpRecords
  BY <1>2 DEF OpRecords, Statuses, Rejections
<1>4. op' = [op EXCEPT ![o] = [op[o] EXCEPT !.items = items, !.status = outcome]]
  BY <1>1, <1>2 DEF TypeOK, OpRecords
<1>5. op' \in [Ops -> OpRecords] /\ op'[o].status = outcome /\ \A q \in Ops \ {o} : op'[q] = op[q]
  BY <1>2, <1>3, <1>4 DEF TypeOK, OpRecords
<1>6. Pending' = Pending \ {o}
  BY <1>2, <1>5 DEF Pending
<1>7. FinalAck(op[o]) \in Sent(UpKinds)
  BY <1>2 DEF FinalAck, Message, Sent, Messages, UpKinds, OpRecords, Fits
<1> QED
  BY <1>1, <1>5, <1>6, <1>7 DEF TypeOK, TimersMatchPending

LEMMA CountTransfers ==
    ASSUME Transfers, NEW o \in Pending, op[o].role = "download", NEW m \in Sent(DownKinds),
           OnCount(o, m)
    PROVE  Handles(o)
<1> USE DEF Transfers, Handles
<1>1. op[o] \in OpRecords /\ o \in Ops /\ Fits(op[o]) /\ m.n \in Nat /\ <<>> \in Seq(Elements)
  BY DEF Pending, TypeOK, Sent, Messages
<1>2. CASE Ignore
  BY <1>2 DEF Ignore, TypeOK, TimersMatchPending, Pending
<1>3. CASE Downloaded(o, <<>>)
  BY <1>1, <1>3, DownloadedTransfers
<1>4. ASSUME op[o].phase = "count", UNCHANGED issued,
             NEW r, r = [op[o] EXCEPT !.phase = "items", !.count = m.n, !.next = 0, !.attempts = 1],
             Transmit(o, r)
      PROVE  Handles(o)
  <2>0. 0 \in Int /\ 1 \in Nat
    OBVIOUS
  <2>1. r.role = "download" /\ r.status = "pending" /\ r.target = op[o].target /\ r.next = 0
    BY <1>1, <1>4 DEF OpRecords, Fits
  <2>3. r \in OpRecords
    BY <1>1, <1>4, <2>0, Zenon DEF OpRecords
  <2>2. Fits(r)
    BY <1>1, <2>1 DEF Fits
  <2> QED
    BY <1>1, <1>4, <2>2, <2>3, TransmitKeeps DEF TypeOK
<1> QED
  BY <1>2, <1>3, <1>4 DEF OnCount

LEMMA ItemTransfers ==
    ASSUME Transfers, NEW o \in Pending, op[o].role = "download", NEW m \in Sent(DownKinds),
           m.kind = "ITEM", OnItemInt(o, m)
    PROVE  Handles(o)
<1> USE DEF Transfers, Handles
<1>1. op[o] \in OpRecords /\ o \in Ops /\ Fits(op[o]) /\ m.body \in Elements /\ op[o].items \in Seq(Elements)
  BY DEF Pending, TypeOK, Sent, Messages, OpRecords
<1>2. Append(op[o].items, m.body) \in Seq(Elements)
  BY <1>1
<1>3. CASE Ignore
  BY <1>3 DEF Ignore, TypeOK, TimersMatchPending, Pending
<1>4. CASE Downloaded(o, Append(op[o].items, m.body))
  BY <1>2, <1>4, DownloadedTransfers
<1>5. ASSUME UNCHANGED issued,
             NEW r, r = [op[o] EXCEPT !.items = Append(op[o].items, m.body), !.next = @ + 1, !.attempts = 1],
             Transmit(o, r)
      PROVE  Handles(o)
  <2>0. op[o].next \in Nat /\ op[o].next + 1 \in Int /\ 1 \in Nat
    BY <1>1 DEF Fits
  <2>1. /\ r.role = "download" /\ r.status = "pending" /\ r.target = op[o].target
        /\ r.next = op[o].next + 1
    BY <1>1, <1>5 DEF OpRecords, Fits
  <2>2. r \in OpRecords
    BY <1>1, <1>2, <1>5, <2>0, Zenon DEF OpRecords
  <2>3. Fits(r)
    BY <1>1, <2>0, <2>1 DEF Fits
  <2> QED
    BY <1>1, <1>5, <2>2, <2>3, TransmitKeeps DEF TypeOK
<1> QED
  BY <1>3, <1>4, <1>5 DEF OnItemInt

LEMMA RequestTransfers ==
    ASSUME Transfers, NEW o \in Pending, op[o].role = "upload", NEW m \in Sent(DownKinds),
           OnItemRequest(o, m)
    PROVE  Handles(o)
<1> USE DEF Transfers, Handles
<1>1. op[o] \in OpRecords /\ o \in Ops /\ Fits(op[o]) /\ m.n \in Nat /\ Len(op[o].plan) \in Nat
  BY PlansTyped DEF Pending, TypeOK, Sent, Messages, OpRecords
<1>2. CASE Ignore
  BY <1>2 DEF Ignore, TypeOK, TimersMatchPending, Pending
<1>3. ASSUME m.n < Len(op[o].plan), UNCHANGED issued,
             NEW r, r = [op[o] EXCEPT !.phase = "items", !.next = m.n, !.attempts = 1], Transmit(o, r)
      PROVE  Handles(o)
  <2>0. m.n \in Int /\ 1 \in Nat
    BY <1>1
  <2>1. /\ r.role = "upload" /\ r.status = "pending" /\ r.target = op[o].target
        /\ r.next = m.n /\ r.plan = op[o].plan
    BY <1>1, <1>3 DEF OpRecords, Fits
  <2>3. r \in OpRecords
    BY <1>1, <1>3, <2>0, Zenon DEF OpRecords
  <2>2. Fits(r)
    BY <1>1, <1>3, <2>1 DEF Fits
  <2> QED
    BY <1>1, <1>3, <2>2, <2>3, TransmitKeeps DEF TypeOK
<1> QED
  BY <1>1, <1>2, <1>3 DEF OnItemRequest

LEMMA AckTransfers ==
    ASSUME Transfers, NEW o \in Pending, op[o].role \in {"upload", "clear"}, NEW m,
           NEW t \in Systems \cup {None}, OnAck(o, m, t)
    PROVE  Handles(o)
<1> USE DEF Transfers, Handles
<1>1. op[o] \in OpRecords /\ o \in Ops /\ Fits(op[o]) /\ issued \in Nat /\ issued + 1 \in Nat
  BY DEF Pending, TypeOK
<1>2. ASSUME NEW outcome \in {"rejected", "resolved", "no-target"}, Settle({o}, outcome), UNCHANGED <<issued, up>>
      PROVE  Handles(o)
  BY <1>1, <1>2, SettleKeeps DEF Settled, Rejections
<1>3. ASSUME t # None, issued' = issued + 1,
             NEW r, r = [op[o] EXCEPT !.role = "download", !.target = t, !.phase = "count",
                                      !.next = 0, !.attempts = 1, !.ord = issued],
             Transmit(o, r)
      PROVE  Handles(o)
  <2>1. r.role = "download" /\ r.status = "pending" /\ r.target = t /\ r.next = 0
    BY <1>1, <1>3 DEF OpRecords, Fits
  <2>0. 0 \in Int /\ 1 \in Nat /\ "download" \in Roles
    BY DEF Roles
  <2>2. r \in OpRecords
    BY <1>1, <1>3, <2>0, Zenon DEF OpRecords
  <2>3. Fits(r)
    BY <1>3, <2>1 DEF Fits
  <2> QED
    BY <1>1, <1>3, <2>2, <2>3, TransmitKeeps
<1> QED
  BY <1>2, <1>3 DEF OnAck, OnUploadAck, OnClearAck, StartVerify

\* A message carries an item only to a download, and is ignored unless a transfer
\* waits for it.
LEMMA MessageHandled ==
    ASSUME Transfers, NEW t \in Systems \cup {None}, OnMessage(t)
    PROVE  /\ down # <<>> /\ down' = Tail(down) /\ UNCHANGED <<disposed, vehicle>>
           /\ Ignore \/ \E o \in Pending : op[o].target = Head(down).sys /\ Handles(o)
<1> USE DEF Transfers
<1>1. down # <<>> /\ down' = Tail(down) /\ UNCHANGED <<disposed, vehicle>>
  BY DEF OnMessage
<1>2. SUFFICES ASSUME ~Ignore
               PROVE  \E o \in Pending : op[o].target = Head(down).sys /\ Handles(o)
  BY <1>1
<1>3. PICK m \in Sent(DownKinds) : m = Head(down)
  BY <1>1, HeadTyped
<1>4. m \in Messages(DownKinds) /\ m.kind \in DownKinds
  BY DEF Sent, Messages
<1>5. PICK o \in Addressee(m) :
          CASE m.kind = "COUNT" -> OnCount(o, m)
            [] m.kind = "ITEM" -> OnItemInt(o, m)
            [] m.kind = "REQUEST_INT" -> OnItemRequest(o, m)
            [] m.kind = "ACK" -> OnAck(o, m, t)
  BY <1>2, <1>3 DEF OnMessage
<1>6. o \in Pending /\ op[o].target = m.sys
  BY <1>4, <1>5, AddresseeIsPending
<1>7. CASE m.kind = "COUNT"
  BY <1>4, <1>5, <1>6, <1>7, <1>3, AddresseeIsPending, CountTransfers
<1>8. CASE m.kind = "ITEM"
  BY <1>4, <1>5, <1>6, <1>8, <1>3, AddresseeIsPending, ItemTransfers
<1>9. CASE m.kind = "REQUEST_INT"
  BY <1>4, <1>5, <1>6, <1>9, <1>3, AddresseeIsPending, RequestTransfers
<1>10. CASE m.kind = "ACK"
  BY <1>4, <1>5, <1>6, <1>10, <1>3, AddresseeIsPending, AckTransfers
<1> QED
  BY <1>4, <1>7, <1>8, <1>9, <1>10 DEF DownKinds

LEMMA MessageTransfers ==
    ASSUME Transfers, NEW t \in Systems \cup {None}, OnMessage(t)
    PROVE  Transfers'
<1> USE DEF Transfers
<1>0. down # <<>> /\ down' = Tail(down) /\ UNCHANGED <<disposed, vehicle>>
  BY DEF OnMessage
<1>1. down' \in Seq(Sent(DownKinds)) /\ disposed' \in BOOLEAN /\ UNCHANGED vehicle
  BY <1>0, HeadTyped DEF TypeOK
<1>2. CASE Ignore
  BY <1>1, <1>2, SentTyped DEF Ignore, TypeOK, TimersMatchPending, Pending, vehicle
<1>3. ASSUME NEW o, Handles(o) PROVE Transfers'
  BY <1>1, <1>3, SentTyped DEF Handles, TypeOK, TimersMatchPending, vehicle
<1> QED
  BY <1>2, <1>3, MessageHandled

\* A vehicle answers, or the link loses a message.
LEMMA StoreTyped ==
    ASSUME Transfers, NEW m \in Messages(UpKinds), NEW items \in Seq(Elements), Store(m, items)
    PROVE  /\ stored' \in [Systems -> [Types -> Seq(Elements)]]
           /\ held' \subseteq Systems \X Types \X Seq(Elements)
           /\ recv' \in [Systems -> Incoming \cup {None}]
           /\ down' \in Seq(Sent(DownKinds)) /\ Len(down') = Len(down) + 1
<1> USE DEF Transfers
<1>1. m.sys \in Systems /\ m.type \in Types
  BY MissionAssumption DEF Messages
<1>2. Reply("ACK", m, 0, "ACCEPTED")
  BY DEF Store
<1> QED
  BY <1>1, <1>2, ReplyTyped DEF Store, TypeOK, DownKinds

LEMMA VehicleTyped ==
    ASSUME Transfers, VehicleReceives \/ VehicleRejects
    PROVE  /\ stored' \in [Systems -> [Types -> Seq(Elements)]]
           /\ held' \subseteq Systems \X Types \X Seq(Elements)
           /\ recv' \in [Systems -> Incoming \cup {None}]
           /\ down' \in Seq(Sent(DownKinds)) /\ (down' = down \/ Len(down') = Len(down) + 1)
           /\ up # <<>> /\ up' = Tail(up) /\ UNCHANGED client
<1> USE DEF Transfers
<1> DEFINE Kept ==
           /\ stored' \in [Systems -> [Types -> Seq(Elements)]]
           /\ held' \subseteq Systems \X Types \X Seq(Elements)
           /\ recv' \in [Systems -> Incoming \cup {None}]
           /\ down' \in Seq(Sent(DownKinds)) /\ (down' = down \/ Len(down') = Len(down) + 1)
<1>1. up # <<>> /\ up' = Tail(up) /\ UNCHANGED client
  BY DEF VehicleReceives, VehicleRejects
<1>2. PICK m \in Sent(UpKinds) : m = Head(up)
  BY <1>1, HeadTyped
<1>3. /\ m \in Messages(UpKinds) /\ m.kind \in UpKinds /\ m.sys \in Systems /\ m.type \in Types
      /\ m.n \in Nat /\ (m.kind = "ITEM" => m.body \in Elements) /\ <<>> \in Seq(Elements)
  BY MissionAssumption DEF Sent, Messages
<1>4. ASSUME UNCHANGED <<vehicle, down>> PROVE Kept
  BY <1>4 DEF vehicle, TypeOK
<1>5. ASSUME NEW items \in Seq(Elements), Store(m, items) PROVE Kept
  BY <1>3, <1>5, StoreTyped
<1>6. ASSUME NEW r \in Incoming \cup {None}, recv' = [recv EXCEPT ![m.sys] = r], UNCHANGED <<stored, held>>,
             NEW kind \in {"REQUEST_INT", "ACK"}, NEW n \in Nat, NEW body \in {"ERROR", None},
             Reply(kind, m, n, body)
      PROVE  Kept
  <2>1. down' \in Seq(Sent(DownKinds)) /\ Len(down') = Len(down) + 1
    BY <1>3, <1>6, ReplyTyped DEF DownKinds
  <2> QED
    BY <1>3, <1>6, <2>1 DEF TypeOK
<1>7. ASSUME VehicleRejects PROVE Kept
  BY <1>2, <1>6, <1>7 DEF VehicleRejects
<1>8. ASSUME VehicleCount(m) PROVE Kept
  <2>1. CASE m.n = 0
    BY <1>3, <1>5, <1>8, <2>1 DEF VehicleCount
  <2>2. CASE m.n # 0
    <3>1. [type |-> m.type, want |-> m.n, got |-> <<>>] \in Incoming /\ 0 \in Nat
      BY <1>3 DEF Incoming
    <3>2. /\ recv' = [recv EXCEPT ![m.sys] = [type |-> m.type, want |-> m.n, got |-> <<>>]]
          /\ Reply("REQUEST_INT", m, 0, None) /\ UNCHANGED <<stored, held>>
      BY <1>8, <2>2 DEF VehicleCount
    <3> QED
      BY <1>6, <3>1, <3>2
  <2> QED
    BY <2>1, <2>2
<1>9. ASSUME m.kind = "ITEM", VehicleItem(m) PROVE Kept
  <2> DEFINE r == recv[m.sys]
             got == IF m.n = Len(r.got) THEN Append(r.got, m.body) ELSE r.got
  <2>1. CASE r = None \/ (r # None /\ r.type # m.type)
    BY <1>4, <1>9, <2>1 DEF VehicleItem
  <2>2. CASE ~(r = None \/ (r # None /\ r.type # m.type))
    <3>1. r \in Incoming
      BY <1>3, <2>2 DEF TypeOK
    <3>2. got \in Seq(Elements) /\ Len(got) \in Nat
      BY <1>3, <1>9, <3>1 DEF Incoming
    <3>3. [r EXCEPT !.got = got] \in Incoming
      BY <3>1, <3>2 DEF Incoming
    <3>4. CASE Len(got) = r.want
      BY <1>5, <1>9, <2>2, <3>2, <3>4 DEF VehicleItem
    <3>5. CASE Len(got) # r.want
      <4>1. /\ recv' = [recv EXCEPT ![m.sys] = [r EXCEPT !.got = got]]
            /\ Reply("REQUEST_INT", m, Len(got), None) /\ UNCHANGED <<stored, held>>
        BY <1>9, <2>2, <3>5 DEF VehicleItem
      <4> HIDE DEF r, got
      <4> QED
        BY <1>6, <3>2, <3>3, <4>1
    <3> QED
      BY <3>4, <3>5
  <2> QED
    BY <2>1, <2>2
<1>10. ASSUME VehicleSends(m) PROVE Kept
  <2> DEFINE plan == stored[m.sys][m.type]
  <2>1. plan \in Seq(Elements) /\ Len(plan) \in Nat
    BY <1>3 DEF TypeOK
  <2>2. CASE Reply("COUNT", m, Len(plan), None)
    <3> HIDE DEF plan
    <3>1. down' \in Seq(Sent(DownKinds)) /\ Len(down') = Len(down) + 1
      BY <1>3, <2>1, <2>2, ReplyTyped DEF DownKinds
    <3> QED
      BY <1>10, <3>1 DEF VehicleSends, vehicle, TypeOK
  <2>3. CASE m.n < Len(plan) /\ Reply("ITEM", m, m.n, plan[m.n + 1])
    <3> HIDE DEF plan
    <3>0. plan[m.n + 1] \in Elements
      BY <1>3, <2>1, <2>3
    <3>1. down' \in Seq(Sent(DownKinds)) /\ Len(down') = Len(down) + 1
      BY <1>3, <2>1, <2>3, <3>0, ReplyTyped DEF DownKinds
    <3> QED
      BY <1>10, <3>1 DEF VehicleSends, vehicle, TypeOK
  <2>4. UNCHANGED vehicle
    BY <1>10 DEF VehicleSends
  <2> QED
    BY <1>4, <1>10, <2>2, <2>3, <2>4 DEF VehicleSends
<1>11. ASSUME VehicleReceives PROVE Kept
  BY <1>2, <1>3, <1>4, <1>5, <1>8, <1>9, <1>10, <1>11 DEF VehicleReceives, UpKinds
<1> QED
  BY <1>1, <1>7, <1>11

LEMMA LinkTransfers == ASSUME Transfers, Link PROVE Transfers'
<1> USE DEF Transfers
<1>1. CASE VehicleReceives \/ VehicleRejects
  <2>1. up' \in Seq(Sent(UpKinds)) /\ UNCHANGED client
    BY <1>1, VehicleTyped, HeadTyped
  <2> QED
    BY <1>1, <2>1, VehicleTyped, SentTyped DEF client, TypeOK, TimersMatchPending, Pending
<1>2. CASE LoseUp
  BY <1>2, HeadTyped, SentTyped DEF LoseUp, client, vehicle, TypeOK, TimersMatchPending, Pending
<1>3. CASE LoseDown
  BY <1>3, HeadTyped, SentTyped DEF LoseDown, client, vehicle, TypeOK, TimersMatchPending, Pending
<1> QED
  BY <1>1, <1>2, <1>3 DEF Link

LEMMA InitTransfers == Init => Transfers
<1> SUFFICES ASSUME Init PROVE Transfers
  OBVIOUS
<1>1. /\ <<>> \in Plans /\ Mission \in Types /\ \A p \in Plans : p \in Seq(Elements)
  BY MissionAssumption
<1>2. /\ <<>> \in Seq(Elements) /\ 0 \in Int /\ 0 \in Nat /\ "download" \in Roles /\ "idle" \in Statuses
  BY DEF Roles, Statuses
<1>3. op \in [Ops -> OpRecords]
  BY <1>1, <1>2, Zenon DEF Init, OpRecords
<1>4. Pending = {} /\ \A o \in Ops : op[o].status # "pending"
  BY DEF Init, Pending
<1>5. stored \in [Systems -> [Types -> Seq(Elements)]]
  BY <1>1 DEF Init
<1>6. held \subseteq Systems \X Types \X Seq(Elements)
  BY <1>5 DEF Init
<1>7. recv \in [Systems -> Incoming \cup {None}] /\ armed = {} /\ issued = 0 /\ disposed = FALSE
      /\ up = <<>> /\ down = <<>>
  BY DEF Init
<1>8. up \in Seq(Sent(UpKinds)) /\ down \in Seq(Sent(DownKinds))
  BY <1>7
<1> QED
  BY <1>3, <1>4, <1>5, <1>6, <1>7, <1>8, SentTyped DEF Transfers, TypeOK, TimersMatchPending

LEMMA NextTransfers == Transfers /\ [Next]_vars => Transfers'
<1> SUFFICES ASSUME Transfers, [Next]_vars PROVE Transfers'
  OBVIOUS
<1>1. CASE UNCHANGED vars
  BY <1>1 DEF vars, client, vehicle, Transfers, TypeOK, TimersMatchPending, Pending
<1>2. CASE Next
  BY <1>2, EnterTransfers, TickTransfers, EndTransfers, MessageTransfers, LinkTransfers DEF Next
<1> QED
  BY <1>1, <1>2

LEMMA TransfersKept == Spec => []Transfers
BY InitTransfers, NextTransfers, PTL DEF Spec

\* Whatever the link loses and the vehicles refuse, the client can always say what it
\* waits for: an item that is sent again is in the list, a sequence number is one.
THEOREM TransferTypes == Spec => []TypeOK
BY TransfersKept, PTL DEF Transfers

\* A transfer in flight always has its timer, and an ended one has none (the cancelTimer
\* bookkeeping of the tick and settle helpers).
THEOREM TimersKept == Spec => []TimersMatchPending
BY TransfersKept, PTL DEF Transfers

\* A transfer ends once: neither a late reply, a tick, an abort, a failed send nor the
\* disposal changes its outcome (the settled flags).
LEMMA EndedStays ==
    ASSUME Transfers, [Next]_vars, NEW o \in Ops, op[o].status \in Settled
    PROVE  op'[o] = op[o]
<1> USE DEF Transfers
<1>1. o \notin Pending /\ op[o].status # "idle" /\ op \in [Ops -> OpRecords]
  BY DEF Settled, Rejections, Pending, TypeOK
<1>2. ASSUME NEW q \in Ops, Enter(q) PROVE op'[o] = op[o]
  <2>1. op[q].status = "idle"
    BY <1>2 DEF Enter, Refuse, Download, Upload, Clear, Begin
  <2> QED
    BY <1>1, <1>2, <2>1 DEF Enter, Refuse, Download, Upload, Clear, Begin, Transmit
<1>3. ASSUME NEW q \in Ops, Tick(q) PROVE op'[o] = op[o]
  <2>1. q # o
    BY <1>1, <1>3 DEF Tick, TimersMatchPending
  <2> QED
    BY <1>1, <1>3, <2>1 DEF Tick, Settle, Transmit
<1>4. ASSUME NEW q \in Ops, Abort(q) PROVE op'[o] = op[o]
  BY <1>1, <1>4 DEF Abort, Settle
<1>5. ASSUME NEW t \in Systems \cup {None}, OnMessage(t) PROVE op'[o] = op[o]
  BY <1>1, <1>5, MessageHandled DEF Ignore, Handles
<1>6. CASE SendFailed \/ Dispose
  BY <1>1, <1>6 DEF SendFailed, Dispose, Settle
<1>7. CASE Link
  BY <1>7 DEF Link, VehicleReceives, VehicleRejects, LoseUp, LoseDown, client
<1>8. CASE UNCHANGED vars
  BY <1>8 DEF vars, client
<1> QED
  BY <1>2, <1>3, <1>4, <1>5, <1>6, <1>7, <1>8 DEF Next

THEOREM TransfersEndOnce == Spec => SettledForever
<1>1. Transfers /\ [Next]_vars => [\A o \in Ops : op[o].status \in Settled => op'[o] = op[o]]_vars
  BY EndedStays
<1> QED
  BY <1>1, TransfersKept, PTL DEF Spec, SettledForever

\* With several vehicles on the link, a reply moves only a transfer with the vehicle
\* that sent it, also when it carries no mission type (matchDownload, matchUpload, onAck).
LEMMA RepliesStay ==
    ASSUME Transfers, [Next]_vars, NEW o \in Ops, op[o].status = "pending", op'[o] # op[o],
           down' # down, Len(down') < Len(down)
    PROVE  op[o].target = Head(down).sys
<1> USE DEF Transfers
<1>1. PICK t \in Systems \cup {None} : OnMessage(t)
  <2>1. ~Link
    <3>1. CASE VehicleReceives \/ VehicleRejects
      BY <3>1, VehicleTyped DEF client
    <3> QED
      BY <3>1 DEF Link, LoseUp, LoseDown, client
  <2> QED
    BY <2>1 DEF Next, vars, client, Enter, Refuse, Download, Upload, Clear, Begin, Tick, Abort,
                SendFailed, Dispose
<1> QED
  BY <1>1, MessageHandled DEF Ignore, Handles

THEOREM RepliesKeepApart == Spec => RepliesStayWithTheirVehicle
<1>1. Transfers /\ [Next]_vars =>
        [\A o \in Ops :
            op[o].status = "pending" /\ op'[o] # op[o] /\ down' # down /\ UNCHANGED vehicle
            /\ Len(down') < Len(down) => op[o].target = Head(down).sys]_vars
  BY RepliesStay
<1> QED
  BY <1>1, TransfersKept, PTL DEF Spec, RepliesStayWithTheirVehicle

-----------------------------------------------------------------------------
(* Whole lists.  The messages on the link, in the order in which they will *)
(* matter: those that the client hears first, then those that a vehicle    *)
(* hears.  A message reads a list, changes one, or does neither; its       *)
(* answer does the same.                                                   *)

ClassUp(m) ==
    CASE m.kind \in {"REQUEST_LIST", "REQUEST_INT"} -> "read"
      [] m.kind \in {"COUNT", "ITEM", "CLEAR_ALL"} -> "write"
      [] OTHER -> "none"
ClassDown(m) ==
    CASE m.kind \in {"COUNT", "ITEM"} -> "read"
      [] m.kind = "REQUEST_INT" \/ (m.kind = "ACK" /\ m.body = "ACCEPTED") -> "write"
      [] OTHER -> "none"

\* On a link with d and u under way nothing of class x comes before something of class y.
Apart(x, y, d, u) ==
    /\ \A i, j \in DOMAIN d : i < j => ~(ClassDown(d[i]) = x /\ ClassDown(d[j]) = y)
    /\ \A i, j \in DOMAIN u : i < j => ~(ClassUp(u[i]) = x /\ ClassUp(u[j]) = y)
    /\ \A i \in DOMAIN d, j \in DOMAIN u : ~(ClassDown(d[i]) = x /\ ClassUp(u[j]) = y)
\* Nothing of class y is under way.
Free(y, d, u) ==
    /\ \A i \in DOMAIN d : ClassDown(d[i]) # y
    /\ \A j \in DOMAIN u : ClassUp(u[j]) # y

\* What a vehicle told about its list is what it holds.
Tells(m, lists) ==
    LET list == lists[m.sys][Mission] IN
    /\ m.kind = "COUNT" => m.n = Len(list)
    /\ m.kind = "ITEM" => m.n < Len(list) /\ m.body = list[m.n + 1]

\* A download in progress has the beginning of its vehicle's list.
Follows(r, lists) ==
    LET list == lists[r.target][Mission] IN
    /\ r.count = Len(list) /\ r.next = Len(r.items) /\ r.next < r.count
    /\ \A i \in 1 .. r.next : r.items[i] = list[i]

Reading == \A o \in Pending : op[o].role = "download"
Writing == \A o \in Pending : op[o].role # "download"

\* While lists are read, whatever changes one is ahead of what reads it, so what was told
\* is true; while one is changed, whatever reads is ahead of what changes it.
LinkInOrder ==
    /\ Reading => Apart("read", "write", down, up) /\ \A i \in DOMAIN down : Tells(down[i], stored)
    /\ Writing => Apart("write", "read", down, up)
    /\ \A o \in Pending :
          op[o].role = "download" /\ op[o].phase = "items" =>
              Free("write", down, up) /\ Follows(op[o], stored)

\* What holds of the records at any time.
Records ==
    /\ \A o, q \in Pending : o = q
    /\ \A o \in Pending : op[o].role # "download" \/ op[o].phase = "count" => op[o].items = <<>>
    /\ \A o \in Pending : op[o].role # "download" => op[o].call = op[o].role
    /\ \A v \in Systems : <<v, Mission, stored[v][Mission]>> \in held

\* The inductive invariant for what downloads return.
WholeLists ==
    /\ Transfers /\ Records
    /\ NothingGivenUp => LinkInOrder
    /\ DownloadedIsHeld /\ VerifiedUploadIsHeld

\* One more message, one message less.
LEMMA AppendTail ==
    ASSUME NEW S, NEW q \in Seq(S), NEW m \in S
    PROVE  /\ DOMAIN Append(q, m) = 1 .. Len(q) + 1 /\ Len(q) \in Nat /\ DOMAIN q = 1 .. Len(q)
           /\ \A i \in DOMAIN q : Append(q, m)[i] = q[i]
           /\ Append(q, m)[Len(q) + 1] = m
           /\ q # <<>> => /\ DOMAIN Tail(q) = 1 .. Len(q) - 1 /\ Head(q) = q[1] /\ 1 \in DOMAIN q
                          /\ \A i \in DOMAIN Tail(q) : Tail(q)[i] = q[i + 1] /\ i + 1 \in DOMAIN q
OBVIOUS

LEMMA TailDown ==
    ASSUME NEW S, NEW d \in Seq(S), d # <<>>, NEW u, NEW x, NEW y
    PROVE  /\ Apart(x, y, d, u) => Apart(x, y, Tail(d), u)
           /\ Free(y, d, u) => Free(y, Tail(d), u)
<1>0. PICK m \in S : m = Head(d)
  OBVIOUS
<1>1. /\ DOMAIN Tail(d) = 1 .. Len(d) - 1 /\ Len(d) \in Nat
      /\ \A i \in DOMAIN Tail(d) : Tail(d)[i] = d[i + 1] /\ i + 1 \in DOMAIN d
  BY <1>0, AppendTail
<1>2. \A i, j \in DOMAIN Tail(d) : i < j => i + 1 < j + 1
  BY <1>1
<1> QED
  BY <1>1, <1>2 DEF Apart, Free

LEMMA TailUp ==
    ASSUME NEW S, NEW u \in Seq(S), u # <<>>, NEW d, NEW x, NEW y
    PROVE  /\ Apart(x, y, d, u) => Apart(x, y, d, Tail(u))
           /\ Free(y, d, u) => Free(y, d, Tail(u))
<1>0. PICK m \in S : m = Head(u)
  OBVIOUS
<1>1. /\ DOMAIN Tail(u) = 1 .. Len(u) - 1 /\ Len(u) \in Nat
      /\ \A i \in DOMAIN Tail(u) : Tail(u)[i] = u[i + 1] /\ i + 1 \in DOMAIN u
  BY <1>0, AppendTail
<1>2. \A i, j \in DOMAIN Tail(u) : i < j => i + 1 < j + 1
  BY <1>1
<1> QED
  BY <1>1, <1>2 DEF Apart, Free

\* The client sends a message that is not of class y.
LEMMA AppendUp ==
    ASSUME NEW S, NEW u \in Seq(S), NEW m \in S, NEW d, NEW x, NEW y, ClassUp(m) # y
    PROVE  /\ Apart(x, y, d, u) => Apart(x, y, d, Append(u, m))
           /\ Free(y, d, u) => Free(y, d, Append(u, m))
<1>1. /\ DOMAIN Append(u, m) = 1 .. Len(u) + 1 /\ Len(u) \in Nat /\ DOMAIN u = 1 .. Len(u)
      /\ \A i \in DOMAIN u : Append(u, m)[i] = u[i]
      /\ Append(u, m)[Len(u) + 1] = m
  BY AppendTail
<1>2. \A j \in DOMAIN Append(u, m) : ClassUp(Append(u, m)[j]) = y => j \in DOMAIN u
  BY <1>1
<1>3. \A i \in DOMAIN Append(u, m), j \in DOMAIN u : i < j => i \in DOMAIN u
  BY <1>1
<1> QED
  BY <1>1, <1>2, <1>3 DEF Apart, Free

\* A vehicle takes a message, and its answer has the class of the message, or none.
LEMMA AnswerApart ==
    ASSUME NEW S, NEW d \in Seq(S), NEW m \in S, NEW T, NEW u \in Seq(T), u # <<>>,
           ClassDown(m) \in {ClassUp(Head(u)), "none"},
           NEW x \in {"read", "write"}, NEW y \in {"read", "write"}
    PROVE  /\ Apart(x, y, d, u) => Apart(x, y, Append(d, m), Tail(u))
           /\ Free(y, d, u) => Free(y, Append(d, m), Tail(u))
<1> DEFINE e == Append(d, m)
           w == Tail(u)
<1>0. PICK h \in T : h = Head(u)
  OBVIOUS
<1>1. /\ DOMAIN e = 1 .. Len(d) + 1 /\ Len(d) \in Nat /\ DOMAIN d = 1 .. Len(d)
      /\ \A i \in DOMAIN d : e[i] = d[i]
      /\ e[Len(d) + 1] = m
  BY AppendTail
<1>2. /\ DOMAIN w = 1 .. Len(u) - 1 /\ Len(u) \in Nat
      /\ \A i \in DOMAIN w : w[i] = u[i + 1] /\ i + 1 \in DOMAIN u /\ 1 < i + 1
      /\ h = u[1] /\ 1 \in DOMAIN u
  BY <1>0, AppendTail
<1>3. ClassDown(m) \in {ClassUp(u[1]), "none"}
  BY <1>0, <1>2
<1> HIDE DEF e, w
<1>4. \A i \in DOMAIN e : i \in DOMAIN d \/ i = Len(d) + 1
  BY <1>1
<1>5. \A i, j \in DOMAIN w : i < j => i + 1 < j + 1
  BY <1>2
<1>6. Free(y, d, u) => Free(y, e, w)
  BY <1>1, <1>2, <1>3, <1>4 DEF Free
<1>7. ASSUME Apart(x, y, d, u) PROVE Apart(x, y, e, w)
  <2>1. ASSUME NEW i \in DOMAIN e, NEW j \in DOMAIN e, i < j
        PROVE  ~(ClassDown(e[i]) = x /\ ClassDown(e[j]) = y)
    <3>1. i \in DOMAIN d
      BY <1>1, <1>4, <2>1
    <3>2. CASE j \in DOMAIN d
      BY <1>1, <1>7, <2>1, <3>1, <3>2 DEF Apart
    <3>3. CASE j = Len(d) + 1
      BY <1>1, <1>2, <1>3, <1>7, <3>1, <3>3 DEF Apart
    <3> QED
      BY <1>4, <3>2, <3>3
  <2>2. ASSUME NEW i \in DOMAIN w, NEW j \in DOMAIN w, i < j
        PROVE  ~(ClassUp(w[i]) = x /\ ClassUp(w[j]) = y)
    BY <1>2, <1>5, <1>7, <2>2 DEF Apart
  <2>3. ASSUME NEW i \in DOMAIN e, NEW j \in DOMAIN w
        PROVE  ~(ClassDown(e[i]) = x /\ ClassUp(w[j]) = y)
    <3>1. CASE i \in DOMAIN d
      BY <1>1, <1>2, <1>7, <3>1 DEF Apart
    <3>2. CASE i = Len(d) + 1
      BY <1>1, <1>2, <1>3, <1>7, <3>2 DEF Apart
    <3> QED
      BY <1>4, <3>1, <3>2
  <2> QED
    BY <2>1, <2>2, <2>3 DEF Apart
<1> QED
  BY <1>6, <1>7 DEF e, w

\* What follows the first message, and what comes before the one a vehicle takes.
LEMMA FirstDown ==
    ASSUME NEW S, NEW d \in Seq(S), d # <<>>, NEW u, NEW x, NEW y, x # y, Apart(x, y, d, u),
           ClassDown(Head(d)) = x
    PROVE  Free(y, d, u)
<1>1. /\ 1 \in DOMAIN d /\ DOMAIN d = 1 .. Len(d) /\ Len(d) \in Nat /\ Head(d) = d[1]
  OBVIOUS
<1>2. \A i \in DOMAIN d : i = 1 \/ 1 < i
  BY <1>1
<1> QED
  BY <1>1, <1>2 DEF Apart, Free

LEMMA FirstUp ==
    ASSUME NEW T, NEW u \in Seq(T), u # <<>>, NEW d, NEW x, NEW y, Apart(x, y, d, u),
           ClassUp(Head(u)) = y
    PROVE  \A i \in DOMAIN d : ClassDown(d[i]) # x
<1>1. 1 \in DOMAIN u /\ Head(u) = u[1]
  OBVIOUS
<1> QED
  BY <1>1 DEF Apart

LEMMA FreeIsApart ==
    ASSUME NEW d, NEW u, NEW x, NEW y, Free(y, d, u)
    PROVE  Apart(x, y, d, u) /\ Apart(y, x, d, u)
BY DEF Free, Apart

LEMMA RequestClass ==
    ASSUME NEW r \in OpRecords, Fits(r)
    PROVE  ClassUp(Request(r)) = IF r.role = "download" THEN "read" ELSE "write"
BY DEF OpRecords, Roles, Fits, Request, Message, ClassUp

LEMMA TellsTail ==
    ASSUME NEW S, NEW d \in Seq(S), d # <<>>, NEW lists, \A i \in DOMAIN d : Tells(d[i], lists)
    PROVE  \A i \in DOMAIN Tail(d) : Tells(Tail(d)[i], lists)
<1>0. PICK m \in S : m = Head(d)
  OBVIOUS
<1>1. \A i \in DOMAIN Tail(d) : Tail(d)[i] = d[i + 1] /\ i + 1 \in DOMAIN d
  BY <1>0, AppendTail
<1> QED
  BY <1>1

LEMMA FreeTells ==
    ASSUME NEW d, NEW u, Free("read", d, u), NEW lists
    PROVE  \A i \in DOMAIN d : Tells(d[i], lists)
BY DEF Free, ClassDown, Tells

\* What was given up stays given up, and what was held was held.
LEMMA HeldGrows == ASSUME Transfers, [Next]_vars PROVE held \subseteq held'
<1>1. CASE VehicleReceives
  <2>1. PICK m \in Sent(UpKinds) : m = Head(up)
    BY <1>1, HeadTyped DEF VehicleReceives, Transfers
  <2>2. m.kind \in UpKinds
    BY DEF Sent, Messages
  <2>3. \/ VehicleSends(m) \/ VehicleCount(m) \/ VehicleItem(m) \/ Store(m, <<>>) \/ UNCHANGED vehicle
    BY <1>1, <2>1, <2>2 DEF VehicleReceives, UpKinds
  <2> QED
    BY <2>3 DEF VehicleSends, VehicleCount, VehicleItem, Store, vehicle
<1>2. CASE ~VehicleReceives
  BY <1>2 DEF Next, vars, vehicle, Enter, Refuse, Download, Upload, Clear, Begin, Tick, Abort,
       SendFailed, Dispose, OnMessage, Link, VehicleRejects, LoseUp, LoseDown
<1> QED
  BY <1>1, <1>2

LEMMA StillGivenUp == ASSUME Transfers, [Next]_vars, NothingGivenUp' PROVE NothingGivenUp
<1> SUFFICES ASSUME NEW o \in Ops,
                    op[o].status \in {"timeout", "aborted", "send-failed", "disposed", "rejected"}
             PROVE  FALSE
  BY DEF NothingGivenUp
<1>1. op'[o] = op[o]
  BY EndedStays DEF Settled, Rejections
<1> QED
  BY <1>1 DEF NothingGivenUp

\* What has been returned stays true; only what is returned now has to be looked at.
LEMMA HistoryKept ==
    ASSUME WholeLists, [Next]_vars,
           \A o \in Ops :
              NothingGivenUp /\ op[o].status # "resolved" /\ op'[o].status = "resolved" =>
                 /\ op'[o].call = "download" => Held(o, op[o].items)'
                 /\ op'[o].call = "upload" /\ op'[o].verify => Held(o, op[o].plan)'
    PROVE  DownloadedIsHeld' /\ VerifiedUploadIsHeld'
<1>1. SUFFICES ASSUME NothingGivenUp', NEW o \in Ops, op'[o].status = "resolved"
               PROVE  /\ op'[o].call = "download" => Held(o, op[o].items)'
                      /\ op'[o].call = "upload" /\ op'[o].verify => Held(o, op[o].plan)'
  BY DEF DownloadedIsHeld, VerifiedUploadIsHeld
<1>2. NothingGivenUp
  BY <1>1, StillGivenUp DEF WholeLists
<1>3. CASE op[o].status = "resolved"
  <2>1. op'[o] = op[o]
    BY <1>3, EndedStays DEF WholeLists, Settled
  <2>2. held \subseteq held'
    BY HeldGrows DEF WholeLists
  <2> QED
    BY <1>2, <1>3, <2>1, <2>2 DEF WholeLists, DownloadedIsHeld, VerifiedUploadIsHeld, Held
<1> QED
  BY <1>1, <1>2, <1>3

\* No record changes but of what has ended.
LEMMA RecordsKept ==
    ASSUME WholeLists, \A o \in Pending' : o \in Pending /\ op'[o] = op[o], UNCHANGED <<stored, held>>
    PROVE  Records'
BY DEF WholeLists, Records

\* A transfer goes on, alone, and sends what it asks for.
LEMMA TransmitInOrder ==
    ASSUME Transfers, NEW o \in Ops, Pending \subseteq {o}, NEW r \in OpRecords, Fits(r), Transmit(o, r),
           UNCHANGED stored,
           r.role = "download" =>
              Apart("read", "write", down', up) /\ \A i \in DOMAIN down' : Tells(down'[i], stored),
           r.role # "download" => Apart("write", "read", down', up),
           r.role = "download" /\ r.phase = "items" => Free("write", down', up) /\ Follows(r, stored)
    PROVE  LinkInOrder'
<1>1. up' = Append(up, Request(r)) /\ Request(r) \in Sent(UpKinds) /\ up \in Seq(Sent(UpKinds))
  BY RequestTyped DEF Transmit, Transfers
<1>2. op'[o] = r /\ Pending' = {o}
  <2>1. op' = [op EXCEPT ![o] = r] /\ op \in [Ops -> OpRecords]
    BY DEF Transmit, Transfers, TypeOK
  <2> QED
    BY <2>1 DEF Pending, Fits
<1>3. CASE r.role = "download"
  <2>1. ClassUp(Request(r)) = "read"
    BY <1>3, RequestClass
  <2>2. Apart("read", "write", down', up')
    BY <1>1, <1>3, <2>1, AppendUp
  <2>3. r.phase = "items" => Free("write", down', up')
    BY <1>1, <1>3, <2>1, AppendUp
  <2> QED
    BY <1>2, <1>3, <2>2, <2>3 DEF LinkInOrder, Reading, Writing
<1>4. CASE r.role # "download"
  <2>1. ClassUp(Request(r)) = "write"
    BY <1>4, RequestClass
  <2>2. Apart("write", "read", down', up')
    BY <1>1, <1>4, <2>1, AppendUp
  <2> QED
    BY <1>2, <1>4, <2>2 DEF LinkInOrder, Reading, Writing
<1> QED
  BY <1>3, <1>4

\* The only transfer ends, and leaves messages of one class.
LEMMA EndInOrder ==
    ASSUME Pending' = {}, UNCHANGED stored,
           \/ Free("read", down', up')
           \/ Free("write", down', up') /\ \A i \in DOMAIN down' : Tells(down'[i], stored)
    PROVE  LinkInOrder'
<1>1. /\ Apart("read", "write", down', up') /\ Apart("write", "read", down', up')
      /\ \A i \in DOMAIN down' : Tells(down'[i], stored)
  BY FreeIsApart, FreeTells
<1> QED
  BY <1>1 DEF LinkInOrder

\* The transfers stay as they are, and messages go.
LEMMA LessInOrder ==
    ASSUME Transfers, LinkInOrder, UNCHANGED <<op, stored>>,
           up' = up \/ (up # <<>> /\ up' = Tail(up)),
           down' = down \/ (down # <<>> /\ down' = Tail(down))
    PROVE  LinkInOrder'
<1>1. up \in Seq(Sent(UpKinds)) /\ down \in Seq(Sent(DownKinds))
  BY DEF Transfers
<1>2. ASSUME NEW x, NEW y
      PROVE  /\ Apart(x, y, down, up) => Apart(x, y, down', up')
             /\ Free(y, down, up) => Free(y, down', up')
  <2>1. /\ Apart(x, y, down, up) => Apart(x, y, down', up)
        /\ Free(y, down, up) => Free(y, down', up)
    BY <1>1, TailDown
  <2> QED
    BY <1>1, <2>1, TailUp
<1>3. (\A i \in DOMAIN down : Tells(down[i], stored)) => \A i \in DOMAIN down' : Tells(down'[i], stored)
  BY <1>1, TellsTail
<1> QED
  BY <1>2, <1>3 DEF LinkInOrder, Reading, Writing, Pending

\* A call begins, on its own, or is refused.
LEMMA EnterWhole ==
    ASSUME WholeLists, OneAtATime, Types = {Mission}, NEW o \in Ops, Enter(o)
    PROVE  Records' /\ (NothingGivenUp' => LinkInOrder')
<1> USE DEF WholeLists
<1>0. op[o].status = "idle" /\ op \in [Ops -> OpRecords] /\ UNCHANGED <<down, vehicle>>
  BY DEF Enter, Refuse, Download, Upload, Clear, Begin, Transfers, TypeOK
<1>1. ASSUME NEW c \in Roles, NEW t \in Systems \cup {None}, Refuse(o, c, t)
      PROVE  Records' /\ (NothingGivenUp' => LinkInOrder')
  <2>1. PICK why \in {"disposed", "no-target", "aborted"} :
          op' = [op EXCEPT ![o].status = why, ![o].call = c, ![o].role = c] /\ UNCHANGED up
    BY <1>1 DEF Refuse, Refusals
  <2>2. op'[o].status = why /\ \A q \in Ops : q # o => op'[q] = op[q]
    BY <1>0, <2>1 DEF OpRecords
  <2>3. Pending' = Pending /\ \A q \in Pending : op'[q] = op[q]
    BY <1>0, <2>2 DEF Pending
  <2>4. Records'
    BY <1>0, <2>3, RecordsKept DEF vehicle
  <2>5. NothingGivenUp' => NothingGivenUp
    BY <1>0, <2>2 DEF NothingGivenUp
  <2>6. NothingGivenUp => LinkInOrder'
    BY <1>0, <2>1, <2>3 DEF LinkInOrder, Reading, Writing, vehicle
  <2> QED
    BY <2>4, <2>5, <2>6
<1>2. ASSUME NEW c \in Roles, NEW ty \in Types, NEW t \in Systems, NEW p \in Plans,
             NEW verify \in BOOLEAN, Begin(o, c, ty, t, p, verify)
      PROVE  Records' /\ (NothingGivenUp' => LinkInOrder')
  <2>1. PICK r \in OpRecords : r = NewOp(c, ty, t, p, verify) /\ Fits(r)
    BY NewTransfer
  <2>2. Transmit(o, r) /\ Pending = {}
    BY <1>2, <2>1 DEF Begin
  <2>3. r.role = c /\ r.call = c /\ r.phase = "count" /\ r.items = <<>>
    BY <2>1 DEF NewOp
  <2>4. op'[o] = r /\ Pending' = {o}
    BY <1>0, <2>1, <2>2 DEF Transmit, Pending, Fits
  <2>5. Records'
    BY <1>0, <2>3, <2>4 DEF Records, vehicle
  <2>6. NothingGivenUp' => NothingGivenUp
    BY <1>0, <2>2 DEF NothingGivenUp, Transmit
  <2>7. ASSUME NothingGivenUp PROVE LinkInOrder'
    BY <1>0, <2>1, <2>2, <2>3, <2>7, TransmitInOrder DEF LinkInOrder, Reading, Writing, vehicle
  <2> QED
    BY <2>5, <2>6, <2>7
<1>3. <<>> \in Plans
  BY MissionAssumption
<1> QED
  BY <1>1, <1>2, <1>3 DEF Enter, Download, Upload, Clear, Roles

\* A request is sent again, or the transfer has timed out.
LEMMA TickWhole ==
    ASSUME WholeLists, NEW o \in Ops, Tick(o)
    PROVE  Records' /\ (NothingGivenUp' => LinkInOrder')
<1> USE DEF WholeLists
<1>1. /\ o \in Pending /\ op[o] \in OpRecords /\ Fits(op[o]) /\ UNCHANGED <<down, stored, held>>
      /\ op \in [Ops -> OpRecords]
  BY DEF Tick, Transfers, TimersMatchPending, TypeOK, Pending, vehicle
<1>2. Pending = {o}
  BY <1>1 DEF Records
<1>3. CASE op[o].attempts >= MaxAttempts
  <2>1. Settle({o}, "timeout")
    BY <1>3 DEF Tick
  <2>2. op'[o].status = "timeout" /\ \A q \in Ops \ {o} : op'[q] = op[q]
    BY <1>1, <2>1 DEF Settle, OpRecords
  <2>3. Pending' = {}
    BY <1>2, <2>2 DEF Pending
  <2> QED
    BY <1>1, <2>2, <2>3 DEF Records, NothingGivenUp
<1>4. CASE ~(op[o].attempts >= MaxAttempts)
  <2>1. Transmit(o, [op[o] EXCEPT !.attempts = @ + 1])
    BY <1>4 DEF Tick
  <2>0. op[o].attempts + 1 \in Nat
    BY <1>1 DEF OpRecords
  <2>2. PICK r \in OpRecords : r = [op[o] EXCEPT !.attempts = @ + 1]
    BY <1>1, <2>0 DEF OpRecords
  <2>3. /\ r.status = op[o].status /\ r.target = op[o].target /\ r.role = op[o].role
        /\ r.phase = op[o].phase /\ r.next = op[o].next /\ r.plan = op[o].plan
        /\ r.items = op[o].items /\ r.count = op[o].count /\ r.call = op[o].call
    BY <1>1, <2>2 DEF OpRecords
  <2>4. Fits(r)
    BY <1>1, <2>3 DEF Fits
  <2>5. op'[o] = r /\ Pending' = {o} /\ \A q \in Ops : q # o => op'[q] = op[q]
    BY <1>1, <1>2, <2>1, <2>2, <2>4 DEF Transmit, Pending, Fits
  <2>6. Records'
    BY <1>1, <1>2, <2>3, <2>5 DEF Records
  <2>7. NothingGivenUp' => NothingGivenUp
    BY <1>1, <2>5 DEF NothingGivenUp, Pending
  <2>8. ASSUME NothingGivenUp PROVE LinkInOrder'
    <3>1. Follows(op[o], stored) => Follows(r, stored)
      BY <2>3 DEF Follows
    <3> QED
      BY <1>1, <1>2, <2>1, <2>2, <2>3, <2>4, <2>8, <3>1, TransmitInOrder
         DEF LinkInOrder, Reading, Writing
  <2> QED
    BY <2>6, <2>7, <2>8
<1> QED
  BY <1>3, <1>4

\* Transfers are given up.
LEMMA EndWhole ==
    ASSUME WholeLists, (\E o \in Ops : Abort(o)) \/ Dispose \/ SendFailed
    PROVE  Records' /\ (NothingGivenUp' => LinkInOrder')
<1> USE DEF WholeLists
<1>1. PICK S \in SUBSET Pending, outcome \in {"aborted", "disposed", "send-failed"} :
        /\ Settle(S, outcome) /\ UNCHANGED <<down, vehicle>>
        /\ up' = up \/ (up # <<>> /\ up' = Tail(up))
  <2>1. ASSUME NEW o \in Ops, Abort(o)
        PROVE  {o} \in SUBSET Pending /\ Settle({o}, "aborted") /\ UNCHANGED <<down, vehicle>> /\ up' = up
    BY <2>1 DEF Abort
  <2>2. Dispose => Settle(Pending, "disposed") /\ UNCHANGED <<down, vehicle>> /\ up' = up
    BY DEF Dispose
  <2>3. SendFailed => Settle(Pending, "send-failed") /\ UNCHANGED <<down, vehicle>>
                      /\ up # <<>> /\ up' = Tail(up)
    BY DEF SendFailed
  <2> QED
    BY <2>1, <2>2, <2>3
<1>2. op \in [Ops -> OpRecords] /\ op' = [o \in Ops |-> IF o \in S THEN [op[o] EXCEPT !.status = outcome] ELSE op[o]]
  BY <1>1 DEF Settle, Transfers, TypeOK
<1>3. /\ \A o \in S : op'[o].status = outcome
      /\ \A o \in Ops \ S : op'[o] = op[o]
  BY <1>2 DEF Pending, OpRecords
<1>4. \A o \in Pending' : o \in Pending /\ op'[o] = op[o]
  <2>1. ASSUME NEW o \in Pending' PROVE o \in Ops \ S
    BY <1>3, <2>1 DEF Pending
  <2> QED
    BY <1>3, <2>1 DEF Pending
<1>5. Records'
  BY <1>1, <1>4, RecordsKept DEF vehicle
<1>6. CASE S = {}
  <2>1. op' = op
    BY <1>2, <1>3, <1>6
  <2>2. NothingGivenUp' => NothingGivenUp
    BY <2>1 DEF NothingGivenUp
  <2>3. NothingGivenUp => LinkInOrder'
    BY <1>1, <2>1, LessInOrder DEF vehicle
  <2> QED
    BY <1>5, <2>2, <2>3
<1>7. CASE S # {}
  <2>1. ~NothingGivenUp'
    BY <1>3, <1>7 DEF NothingGivenUp, Pending
  <2> QED
    BY <1>5, <2>1
<1> QED
  BY <1>6, <1>7

\* What a transfer that resolves now is about is what the vehicle held.
ResolvesTruly ==
    \A o \in Ops :
        NothingGivenUp /\ op[o].status # "resolved" /\ op'[o].status = "resolved" =>
            /\ op'[o].call = "download" => Held(o, op[o].items)'
            /\ op'[o].call = "upload" /\ op'[o].verify => Held(o, op[o].plan)'

\* What the client does with the message m at the head of its queue.
Whole ==
    /\ Records' /\ (NothingGivenUp' => LinkInOrder')
    /\ ResolvesTruly

\* The rest of the link is free of what the message at its head comes after.
LEMMA HeadIsFirst ==
    ASSUME Transfers, LinkInOrder, down # <<>>, down' = Tail(down)
    PROVE  /\ Reading /\ ClassDown(Head(down)) = "read" => Free("write", down', up)
           /\ Writing /\ ClassDown(Head(down)) = "write" => Free("read", down', up)
           /\ Reading => /\ Apart("read", "write", down', up)
                         /\ \A i \in DOMAIN down' : Tells(down'[i], stored)
           /\ Writing => Apart("write", "read", down', up)
           /\ Free("write", down, up) => Free("write", down', up)
<1>1. down \in Seq(Sent(DownKinds))
  BY DEF Transfers
<1>2. Reading /\ ClassDown(Head(down)) = "read" => Free("write", down, up)
  BY <1>1, FirstDown DEF LinkInOrder
<1>3. Writing /\ ClassDown(Head(down)) = "write" => Free("read", down, up)
  BY <1>1, FirstDown DEF LinkInOrder
<1> QED
  BY <1>1, <1>2, <1>3, TailDown, TellsTail DEF LinkInOrder

\* The records of other transfers stay, and that of o becomes r.
LEMMA OneChanges ==
    ASSUME WholeLists, NEW o \in Pending, NEW r \in OpRecords, op' = [op EXCEPT ![o] = r],
           UNCHANGED <<stored, held>>,
           r.status = "pending" =>
              /\ r.role # "download" \/ r.phase = "count" => r.items = <<>>
              /\ r.role # "download" => r.call = r.role
    PROVE  /\ Records' /\ Pending = {o} /\ o \in Ops /\ op'[o] = r
           /\ \A q \in Ops : q # o => op'[q] = op[q]
           /\ Pending' = IF r.status = "pending" THEN {o} ELSE {}
           /\ Reading <=> op[o].role = "download"
           /\ Writing <=> op[o].role # "download"
<1>1. Pending = {o} /\ o \in Ops
  BY DEF WholeLists, Records, Pending
<1>2. op'[o] = r /\ \A q \in Ops : q # o => op'[q] = op[q]
  BY <1>1 DEF WholeLists, Transfers, TypeOK
<1>3. Pending' = IF r.status = "pending" THEN {o} ELSE {}
  BY <1>1, <1>2 DEF Pending
<1>4. Records'
  BY <1>1, <1>2, <1>3 DEF WholeLists, Records
<1>5. (Reading <=> op[o].role = "download") /\ (Writing <=> op[o].role # "download")
  BY <1>1 DEF Reading, Writing
<1> QED
  BY <1>1, <1>2, <1>3, <1>4, <1>5

\* A download that is complete has the list that its vehicle holds.
LEMMA DownloadedWhole ==
    ASSUME WholeLists, Types = {Mission}, NEW o \in Pending, op[o].role = "download",
           NEW items \in Seq(Elements), Downloaded(o, items),
           down # <<>>, down' = Tail(down), UNCHANGED vehicle,
           ClassDown(Head(down)) = "read",
           NothingGivenUp => items = stored[op[o].target][Mission]
    PROVE  Whole
<1> USE DEF WholeLists
<1>1. op[o] \in OpRecords /\ o \in Ops /\ Fits(op[o]) /\ op \in [Ops -> OpRecords]
  BY DEF Pending, Transfers, TypeOK
<1>2. PICK outcome \in {"verify", "resolved"} :
         /\ op' = [op EXCEPT ![o].items = items, ![o].status = outcome]
         /\ up' = Append(up, FinalAck(op[o]))
         /\ outcome = "resolved" /\ op[o].call = "upload" => items = op[o].plan
  BY DEF Downloaded
<1>3. PICK r \in OpRecords : r = [op[o] EXCEPT !.items = items, !.status = outcome]
  BY <1>1 DEF OpRecords, Statuses, Rejections
<1>4. /\ r.items = items /\ r.status = outcome /\ r.target = op[o].target /\ r.type = Mission
      /\ r.call = op[o].call /\ r.plan = op[o].plan /\ r.verify = op[o].verify
  BY <1>1, <1>3 DEF OpRecords
<1>5. op' = [op EXCEPT ![o] = r]
  BY <1>1, <1>2, <1>3 DEF OpRecords
<1>6. /\ Records' /\ Pending = {o} /\ op'[o] = r /\ \A q \in Ops : q # o => op'[q] = op[q]
      /\ Pending' = {} /\ Reading
  BY <1>4, <1>5, OneChanges DEF vehicle
<1>7. ASSUME NothingGivenUp' PROVE LinkInOrder'
  <2>1. LinkInOrder
    BY <1>1, <1>4, <1>6, <1>7 DEF NothingGivenUp, Pending
  <2>2. Free("write", down', up) /\ \A i \in DOMAIN down' : Tells(down'[i], stored)
    BY <1>6, <2>1, HeadIsFirst
  <2>3. ClassUp(FinalAck(op[o])) = "none" /\ FinalAck(op[o]) \in Sent(UpKinds) /\ up \in Seq(Sent(UpKinds))
    BY <1>1 DEF FinalAck, Message, ClassUp, Sent, Messages, UpKinds, OpRecords, Fits, Transfers
  <2>4. Free("write", down', up')
    BY <1>2, <2>2, <2>3, AppendUp
  <2> QED
    BY <1>6, <2>2, <2>4, EndInOrder DEF vehicle
<1>8. ResolvesTruly
  <2>1. SUFFICES ASSUME NothingGivenUp, outcome = "resolved"
                 PROVE  /\ r.call = "download" => <<r.target, r.type, r.items>> \in held
                        /\ r.call = "upload" => <<r.target, r.type, r.plan>> \in held
    BY <1>4, <1>6 DEF ResolvesTruly, Held, vehicle
  <2>2. <<r.target, Mission, items>> \in held
    BY <1>1, <1>4, <2>1 DEF Records, Fits
  <2> QED
    BY <1>2, <1>4, <2>1, <2>2
<1> QED
  BY <1>6, <1>7, <1>8 DEF Whole

\* The message is not for a transfer that waits for it.
LEMMA IgnoredWhole ==
    ASSUME WholeLists, Ignore, down # <<>>, down' = Tail(down), UNCHANGED vehicle
    PROVE  Whole
<1> USE DEF WholeLists, Ignore, vehicle
<1>1. Records'
  BY DEF Records, Pending
<1>2. NothingGivenUp' => LinkInOrder'
  BY LessInOrder DEF NothingGivenUp
<1> QED
  BY <1>1, <1>2 DEF Whole, ResolvesTruly

\* A transfer goes on and sends what it asks for next.
LEMMA GoesOnWhole ==
    ASSUME WholeLists, NEW o \in Pending, NEW r \in OpRecords, Fits(r), Transmit(o, r),
           down # <<>>, down' = Tail(down), UNCHANGED vehicle,
           r.role # "download" \/ r.phase = "count" => r.items = <<>>,
           r.role # "download" => r.call = r.role,
           r.role = "download" /\ (op[o].role # "download" \/ op[o].phase = "count") =>
              ClassDown(Head(down)) = IF op[o].role = "download" THEN "read" ELSE "write",
           r.role # "download" => op[o].role # "download",
           op[o].role # "download" => ~(r.role = "download" /\ r.phase = "items"),
           NothingGivenUp /\ LinkInOrder /\ r.role = "download" /\ r.phase = "items" => Follows(r, stored)
    PROVE  Whole
<1> USE DEF WholeLists, vehicle
<1>1. op' = [op EXCEPT ![o] = r] /\ r.status = "pending" /\ up \in Seq(Sent(UpKinds))
  BY DEF Transmit, Fits, Transfers
<1>2. /\ Records' /\ Pending = {o} /\ o \in Ops /\ op'[o] = r /\ \A q \in Ops : q # o => op'[q] = op[q]
      /\ (Reading <=> op[o].role = "download") /\ (Writing <=> op[o].role # "download")
  BY <1>1, OneChanges
<1>3. NothingGivenUp' => NothingGivenUp
  BY <1>1, <1>2 DEF NothingGivenUp, Pending
<1>4. ResolvesTruly
  BY <1>1, <1>2 DEF ResolvesTruly
<1>5. ASSUME NothingGivenUp PROVE LinkInOrder'
  <2>1. LinkInOrder
    BY <1>5
  <2>2. CASE op[o].role = "download"
    <3>1. ClassDown(Head(down)) = "read" => Free("write", down', up)
      BY <1>2, <2>1, <2>2, HeadIsFirst
    <3>2. op[o].phase = "items" => Free("write", down', up)
      BY <1>2, <2>1, <2>2, HeadIsFirst DEF LinkInOrder
    <3>3. /\ Apart("read", "write", down', up)
          /\ \A i \in DOMAIN down' : Tells(down'[i], stored)
      BY <1>2, <2>1, <2>2, HeadIsFirst
    <3>4. op[o].phase \in {"count", "items"} /\ r.role = "download"
      BY <1>2, <2>2 DEF Transfers, TypeOK, OpRecords
    <3> QED
      BY <1>2, <1>5, <2>1, <2>2, <3>1, <3>2, <3>3, <3>4, TransmitInOrder
  <2>3. CASE op[o].role # "download" /\ r.role # "download"
    BY <1>2, <2>1, <2>3, HeadIsFirst, TransmitInOrder
  <2>4. CASE op[o].role # "download" /\ r.role = "download"
    <3>1. Free("read", down', up)
      BY <1>2, <2>1, <2>4, HeadIsFirst
    <3>2. /\ Apart("read", "write", down', up)
          /\ \A i \in DOMAIN down' : Tells(down'[i], stored)
      BY <3>1, FreeIsApart, FreeTells
    <3> QED
      BY <1>2, <2>4, <3>2, TransmitInOrder
  <2> QED
    BY <2>2, <2>3, <2>4
<1> QED
  BY <1>2, <1>3, <1>4, <1>5 DEF Whole

LEMMA HeadTells ==
    ASSUME WholeLists, NothingGivenUp, NEW o \in Pending, op[o].role = "download", down # <<>>
    PROVE  Tells(Head(down), stored)
<1>1. Reading
  BY DEF WholeLists, Records, Reading
<1>2. down \in Seq(Sent(DownKinds)) /\ 1 \in DOMAIN down /\ Head(down) = down[1]
  BY DEF WholeLists, Transfers
<1> QED
  BY <1>1, <1>2 DEF WholeLists, LinkInOrder

LEMMA CountWhole ==
    ASSUME WholeLists, Types = {Mission}, NEW o \in Pending, op[o].role = "download",
           NEW m \in Sent(DownKinds), down # <<>>, m = Head(down), down' = Tail(down),
           m.kind = "COUNT", op[o].target = m.sys, OnCount(o, m), UNCHANGED vehicle
    PROVE  Whole
<1>1. /\ op[o] \in OpRecords /\ o \in Ops /\ Fits(op[o]) /\ m.n \in Nat /\ <<>> \in Seq(Elements)
      /\ stored[op[o].target][Mission] \in Seq(Elements)
  BY DEF WholeLists, Transfers, Pending, TypeOK, Sent, Messages
<1>2. ClassDown(m) = "read"
  BY DEF ClassDown
<1>3. NothingGivenUp => m.n = Len(stored[op[o].target][Mission])
  BY HeadTells DEF Tells
<1>4. CASE Ignore
  BY <1>4, IgnoredWhole
<1>5. CASE m.n = 0 /\ Downloaded(o, <<>>)
  <2>1. NothingGivenUp => stored[op[o].target][Mission] = <<>>
    BY <1>1, <1>3, <1>5
  <2> QED
    BY <1>1, <1>2, <1>5, <2>1, DownloadedWhole
<1>6. ASSUME op[o].phase = "count", m.n # 0, UNCHANGED issued,
             NEW r, r = [op[o] EXCEPT !.phase = "items", !.count = m.n, !.next = 0, !.attempts = 1],
             Transmit(o, r)
      PROVE  Whole
  <2>0. 0 \in Int /\ 1 \in Nat
    OBVIOUS
  <2>1. /\ r.role = "download" /\ r.status = "pending" /\ r.target = op[o].target /\ r.next = 0
        /\ r.phase = "items" /\ r.count = m.n /\ r.items = op[o].items
    BY <1>1, <1>6 DEF OpRecords, Fits
  <2>2. r \in OpRecords
    BY <1>1, <1>6, <2>0, Zenon DEF OpRecords
  <2>3. Fits(r)
    BY <1>1, <2>1 DEF Fits
  <2>4. r.items = <<>>
    BY <1>6, <2>1 DEF WholeLists, Records
  <2>5. NothingGivenUp => Follows(r, stored)
    BY <1>1, <1>3, <1>6, <2>1, <2>4 DEF Follows
  <2> QED
    BY <1>2, <1>6, <2>1, <2>2, <2>3, <2>5, GoesOnWhole
<1> QED
  BY <1>4, <1>5, <1>6 DEF OnCount

LEMMA AppendItem ==
    ASSUME NEW items \in Seq(Elements), NEW e \in Elements
    PROVE  /\ Append(items, e) \in Seq(Elements) /\ Len(Append(items, e)) = Len(items) + 1
           /\ \A i \in 1 .. Len(items) : Append(items, e)[i] = items[i]
           /\ Append(items, e)[Len(items) + 1] = e
           /\ Len(items) \in Nat
OBVIOUS

LEMMA SameItems ==
    ASSUME NEW a \in Seq(Elements), NEW b \in Seq(Elements), Len(a) = Len(b),
           \A i \in 1 .. Len(a) : a[i] = b[i]
    PROVE  a = b
BY SeqEqual

LEMMA ItemWhole ==
    ASSUME WholeLists, Types = {Mission}, NEW o \in Pending, op[o].role = "download",
           NEW m \in Sent(DownKinds), down # <<>>, m = Head(down), down' = Tail(down),
           m.kind = "ITEM", op[o].target = m.sys, OnItemInt(o, m), UNCHANGED vehicle
    PROVE  Whole
<1> DEFINE list == stored[op[o].target][Mission]
           items == Append(op[o].items, m.body)
<1>1. /\ op[o] \in OpRecords /\ o \in Ops /\ Fits(op[o]) /\ m.n \in Nat /\ m.body \in Elements
      /\ op[o].items \in Seq(Elements) /\ list \in Seq(Elements) /\ op[o].next \in Nat
  BY DEF WholeLists, Transfers, Pending, TypeOK, Sent, Messages, OpRecords, Fits
<1>2. ClassDown(m) = "read"
  BY DEF ClassDown
<1>3. items \in Seq(Elements) /\ Len(items) = Len(op[o].items) + 1
      /\ (\A i \in 1 .. Len(op[o].items) : items[i] = op[o].items[i])
      /\ items[Len(op[o].items) + 1] = m.body /\ Len(op[o].items) \in Nat
  BY <1>1, AppendItem
<1>4. ASSUME NothingGivenUp, op[o].phase = "items", m.n = op[o].next
      PROVE  /\ op[o].count = Len(list) /\ op[o].next = Len(op[o].items) /\ op[o].next < op[o].count
             /\ \A i \in 1 .. Len(items) : items[i] = list[i]
  <2>1. Follows(op[o], stored)
    BY <1>4 DEF WholeLists, LinkInOrder
  <2>2. m.body = list[m.n + 1]
    BY <1>4, HeadTells DEF Tells
  <2> HIDE DEF items
  <2>4. /\ op[o].count = Len(list) /\ op[o].next = Len(op[o].items) /\ op[o].next < op[o].count
        /\ \A i \in 1 .. op[o].next : op[o].items[i] = list[i]
    BY <2>1 DEF Follows
  <2>3. ASSUME NEW i \in 1 .. Len(items) PROVE items[i] = list[i]
    <3>1. i \in 1 .. Len(op[o].items) \/ i = Len(op[o].items) + 1
      BY <1>3
    <3>2. CASE i \in 1 .. Len(op[o].items)
      <4>1. items[i] = op[o].items[i]
        BY <1>3, <3>2
      <4> QED
        BY <2>4, <3>2, <4>1
    <3>3. CASE i = Len(op[o].items) + 1
      <4>1. items[i] = m.body
        BY <1>3, <3>3
      <4> QED
        BY <1>4, <2>2, <2>4, <3>3, <4>1
    <3> QED
      BY <3>1, <3>2, <3>3
  <2> QED
    BY <2>3, <2>4
<1> HIDE DEF items
<1>5. CASE Ignore
  BY <1>5, IgnoredWhole
<1>6. CASE op[o].phase = "items" /\ m.n = op[o].next /\ Len(items) >= op[o].count /\ Downloaded(o, items)
  <2>1. ASSUME NothingGivenUp PROVE items = list
    <3>1. Len(list) \in Nat
      BY <1>1
    <3>2. /\ op[o].count = Len(list) /\ op[o].next = Len(op[o].items) /\ op[o].next < op[o].count
          /\ \A i \in 1 .. Len(items) : items[i] = list[i]
      BY <1>4, <1>6, <2>1
    <3>3. Len(items) = Len(list)
      BY <1>1, <1>3, <1>6, <3>1, <3>2
    <3> HIDE DEF list
    <3> QED
      BY <1>1, <1>3, <3>2, <3>3, SameItems
  <2> QED
    BY <1>2, <1>3, <1>6, <2>1, DownloadedWhole
<1>7. ASSUME op[o].phase = "items", m.n = op[o].next, ~(Len(items) >= op[o].count), UNCHANGED issued,
             NEW r, r = [op[o] EXCEPT !.items = items, !.next = @ + 1, !.attempts = 1],
             Transmit(o, r)
      PROVE  Whole
  <2>0. op[o].next + 1 \in Int /\ 1 \in Nat /\ op[o].count \in Nat
    BY <1>1 DEF OpRecords
  <2>1. /\ r.role = "download" /\ r.status = "pending" /\ r.target = op[o].target
        /\ r.next = op[o].next + 1 /\ r.phase = "items" /\ r.count = op[o].count /\ r.items = items
    BY <1>1, <1>7 DEF OpRecords, Fits
  <2>2. r \in OpRecords
    BY <1>1, <1>3, <1>7, <2>0, Zenon DEF OpRecords
  <2>3. Fits(r)
    BY <1>1, <2>0, <2>1 DEF Fits
  <2>4. ASSUME NothingGivenUp PROVE Follows(r, stored)
    <3>1. /\ op[o].count = Len(list) /\ op[o].next = Len(op[o].items)
          /\ \A i \in 1 .. Len(items) : items[i] = list[i]
      BY <1>4, <1>7, <2>4
    <3>2. r.next = Len(items) /\ Len(items) < r.count
      BY <1>3, <1>7, <2>0, <2>1, <3>1
    <3> QED
      BY <2>1, <3>1, <3>2 DEF Follows
  <2> QED
    BY <1>7, <2>1, <2>2, <2>3, <2>4, GoesOnWhole
<1> QED
  BY <1>5, <1>6, <1>7 DEF OnItemInt, items

LEMMA RequestWhole ==
    ASSUME WholeLists, NEW o \in Pending, op[o].role = "upload",
           NEW m \in Sent(DownKinds), down # <<>>, m = Head(down), down' = Tail(down),
           OnItemRequest(o, m), UNCHANGED vehicle
    PROVE  Whole
<1>1. /\ op[o] \in OpRecords /\ o \in Ops /\ Fits(op[o]) /\ m.n \in Nat /\ Len(op[o].plan) \in Nat
  BY PlansTyped DEF WholeLists, Transfers, Pending, TypeOK, Sent, Messages, OpRecords
<1>2. CASE Ignore
  BY <1>2, IgnoredWhole
<1>3. ASSUME m.n < Len(op[o].plan), UNCHANGED issued,
             NEW r, r = [op[o] EXCEPT !.phase = "items", !.next = m.n, !.attempts = 1], Transmit(o, r)
      PROVE  Whole
  <2>0. m.n \in Int /\ 1 \in Nat
    BY <1>1
  <2>1. /\ r.role = "upload" /\ r.status = "pending" /\ r.target = op[o].target
        /\ r.next = m.n /\ r.plan = op[o].plan /\ r.items = op[o].items /\ r.call = op[o].call
    BY <1>1, <1>3 DEF OpRecords, Fits
  <2>2. r \in OpRecords
    BY <1>1, <1>3, <2>0, Zenon DEF OpRecords
  <2>3. Fits(r)
    BY <1>1, <1>3, <2>1 DEF Fits
  <2>4. r.items = <<>> /\ r.call = r.role
    BY <2>1 DEF WholeLists, Records
  <2> QED
    BY <1>3, <2>1, <2>2, <2>3, <2>4, GoesOnWhole
<1> QED
  BY <1>1, <1>2, <1>3 DEF OnItemRequest

LEMMA AckWhole ==
    ASSUME WholeLists, NEW o \in Pending, op[o].role \in {"upload", "clear"},
           NEW m \in Sent(DownKinds), down # <<>>, m = Head(down), down' = Tail(down),
           m.kind = "ACK", NEW t \in Systems \cup {None}, OnAck(o, m, t), UNCHANGED vehicle
    PROVE  Whole
<1> USE DEF WholeLists
<1>1. /\ op[o] \in OpRecords /\ o \in Ops /\ Fits(op[o]) /\ op \in [Ops -> OpRecords] /\ issued \in Nat
      /\ op[o].call = op[o].role /\ op[o].items = <<>> /\ op[o].role # "download"
  BY DEF Transfers, Pending, TypeOK, Records
<1>2. ClassDown(m) = IF m.body = "ACCEPTED" THEN "write" ELSE "none"
  BY DEF ClassDown
<1>3. ASSUME NEW outcome \in {"rejected", "resolved", "no-target"}, Settle({o}, outcome), UNCHANGED up,
             outcome # "rejected" => m.body = "ACCEPTED",
             outcome = "resolved" /\ op[o].role = "upload" => ~op[o].verify
      PROVE  Whole
  <2>1. PICK r \in OpRecords : r = [op[o] EXCEPT !.status = outcome]
    BY <1>1 DEF OpRecords, Statuses, Rejections
  <2>2. r.status = outcome /\ r.call = op[o].call /\ r.verify = op[o].verify
    BY <1>1, <2>1 DEF OpRecords
  <2>3. op' = [op EXCEPT ![o] = r]
    BY <1>1, <1>3, <2>1 DEF Settle
  <2>4. /\ Records' /\ Pending = {o} /\ op'[o] = r /\ \A q \in Ops : q # o => op'[q] = op[q]
        /\ Pending' = {} /\ Writing
    BY <1>1, <1>3, <2>2, <2>3, OneChanges DEF vehicle
  <2>5. ASSUME NothingGivenUp' PROVE LinkInOrder'
    <3>1. outcome # "rejected"
      BY <1>1, <2>2, <2>4, <2>5 DEF NothingGivenUp
    <3>2. LinkInOrder
      BY <1>1, <2>4, <2>5 DEF NothingGivenUp, Pending
    <3>3. Free("read", down', up)
      BY <1>2, <1>3, <2>4, <3>1, <3>2, HeadIsFirst
    <3> QED
      BY <1>3, <2>4, <3>3, EndInOrder DEF vehicle
  <2>6. ResolvesTruly
    <3>1. r.status = "resolved" => r.call # "download" /\ ~(r.call = "upload" /\ r.verify)
      BY <1>1, <1>3, <2>2
    <3> QED
      BY <2>4, <3>1 DEF ResolvesTruly
  <2> QED
    BY <2>4, <2>5, <2>6 DEF Whole
<1>4. ASSUME t # None, m.body = "ACCEPTED",
             NEW r, r = [op[o] EXCEPT !.role = "download", !.target = t, !.phase = "count",
                                      !.next = 0, !.attempts = 1, !.ord = issued],
             Transmit(o, r)
      PROVE  Whole
  <2>0. 0 \in Int /\ 1 \in Nat /\ "download" \in Roles
    BY DEF Roles
  <2>1. /\ r.role = "download" /\ r.status = "pending" /\ r.target = t /\ r.next = 0
        /\ r.phase = "count" /\ r.items = <<>>
    BY <1>1, <1>4 DEF OpRecords, Fits
  <2>2. r \in OpRecords
    BY <1>1, <1>4, <2>0, Zenon DEF OpRecords
  <2>3. Fits(r)
    BY <1>4, <2>1 DEF Fits
  <2> QED
    BY <1>1, <1>2, <1>4, <2>1, <2>2, <2>3, GoesOnWhole
<1>5. CASE op[o].role = "upload"
  BY <1>3, <1>4, <1>5 DEF OnAck, OnUploadAck, StartVerify
<1>6. CASE op[o].role = "clear"
  BY <1>3, <1>6 DEF OnAck, OnClearAck
<1> QED
  BY <1>5, <1>6

LEMMA MessageWhole ==
    ASSUME WholeLists, Types = {Mission}, NEW t \in Systems \cup {None}, OnMessage(t)
    PROVE  Whole
<1>1. down # <<>> /\ down' = Tail(down) /\ UNCHANGED vehicle /\ down \in Seq(Sent(DownKinds))
  BY DEF OnMessage, WholeLists, Transfers
<1>2. CASE Ignore
  BY <1>1, <1>2, IgnoredWhole
<1>3. PICK m \in Sent(DownKinds) : m = Head(down)
  BY <1>1, HeadTyped
<1>4. m \in Messages(DownKinds) /\ m.kind \in DownKinds
  BY DEF Sent, Messages
<1>5. ASSUME ~Ignore PROVE Whole
  <2>1. PICK o \in Addressee(m) :
          CASE m.kind = "COUNT" -> OnCount(o, m)
            [] m.kind = "ITEM" -> OnItemInt(o, m)
            [] m.kind = "REQUEST_INT" -> OnItemRequest(o, m)
            [] m.kind = "ACK" -> OnAck(o, m, t)
    BY <1>3, <1>5 DEF OnMessage
  <2>2. /\ o \in Pending /\ op[o].target = m.sys
        /\ m.kind \in {"COUNT", "ITEM"} => op[o].role = "download"
        /\ m.kind = "REQUEST_INT" => op[o].role = "upload"
        /\ m.kind = "ACK" => op[o].role \in {"upload", "clear"}
    BY <1>4, <2>1, AddresseeIsPending
  <2>3. m.kind = "COUNT" => Whole
    BY <1>1, <1>3, <2>1, <2>2, CountWhole
  <2>4. m.kind = "ITEM" => Whole
    BY <1>1, <1>3, <2>1, <2>2, ItemWhole
  <2>5. m.kind = "REQUEST_INT" => Whole
    BY <1>1, <1>3, <2>1, <2>2, RequestWhole
  <2>6. m.kind = "ACK" => Whole
    BY <1>1, <1>3, <2>1, <2>2, AckWhole
  <2> QED
    BY <1>4, <2>3, <2>4, <2>5, <2>6 DEF DownKinds
<1> QED
  BY <1>2, <1>5

\* A vehicle takes a message: what it answers tells what it holds, and it changes what
\* it holds only on a message that is to change it.
Answers(m) ==
    /\ \/ down' = down
       \/ \E a : /\ down' = Append(down, a) /\ ClassDown(a) \in {ClassUp(m), "none"}
                 /\ ClassDown(a) = "read" => Tells(a, stored)
    /\ UNCHANGED <<stored, held>> \/ ClassUp(m) = "write"
    /\ held \subseteq held'
    /\ \A v \in Systems :
          stored'[v] # stored[v] => <<v, Mission, stored'[v][Mission]>> \in held'

LEMMA VehicleAnswers ==
    ASSUME Transfers, Types = {Mission}, VehicleReceives \/ VehicleRejects
    PROVE  /\ up # <<>> /\ up' = Tail(up) /\ UNCHANGED op
           /\ Answers(Head(up))
<1>1. up # <<>> /\ up' = Tail(up) /\ UNCHANGED op
  BY DEF VehicleReceives, VehicleRejects, client
<1>2. PICK m \in Sent(UpKinds) : m = Head(up)
  BY <1>1, HeadTyped DEF Transfers
<1>3. /\ m.kind \in UpKinds /\ m.sys \in Systems /\ m.type = Mission /\ m.n \in Nat
      /\ stored \in [Systems -> [{Mission} -> Seq(Elements)]]
  BY DEF Sent, Messages, Transfers, TypeOK
<1>4. ASSUME NEW kind, NEW n, NEW body, Reply(kind, m, n, body),
             LET answer == Message(kind, m.sys, Mission, n, body)
             IN  /\ ClassDown(answer) \in {ClassUp(m), "none"}
                 /\ ClassDown(answer) = "read" => Tells(answer, stored)
      PROVE  \E a : /\ down' = Append(down, a) /\ ClassDown(a) \in {ClassUp(m), "none"}
                    /\ ClassDown(a) = "read" => Tells(a, stored)
  BY <1>3, <1>4 DEF Reply, WireType
<1>5. ASSUME NEW kind, NEW n, NEW body, Reply(kind, m, n, body), UNCHANGED <<stored, held>>,
             \/ kind = "REQUEST_INT" /\ ClassUp(m) = "write"
             \/ kind = "ACK" /\ body = "ERROR"
      PROVE  Answers(m)
  <2>1. ClassDown(Message(kind, m.sys, Mission, n, body)) =
           IF kind = "REQUEST_INT" THEN "write" ELSE "none"
    BY <1>5 DEF Message, ClassDown
  <2> QED
    BY <1>4, <1>5, <2>1 DEF Answers
<1>6. ASSUME NEW items, Store(m, items), ClassUp(m) = "write" PROVE Answers(m)
  <2>1. ClassDown(Message("ACK", m.sys, Mission, 0, "ACCEPTED")) = "write"
    BY DEF Message, ClassDown
  <2>2. /\ stored' = [stored EXCEPT ![m.sys][Mission] = items]
        /\ held' = held \cup {<<m.sys, Mission, items>>}
        /\ Reply("ACK", m, 0, "ACCEPTED")
    BY <1>3, <1>6 DEF Store
  <2>3. ASSUME NEW v \in Systems, stored'[v] # stored[v]
        PROVE  <<v, Mission, stored'[v][Mission]>> \in held'
    <3>1. v = m.sys /\ stored'[m.sys][Mission] = items
      BY <1>3, <2>2, <2>3
    <3> QED
      BY <2>2, <3>1
  <2> QED
    BY <1>4, <1>6, <2>1, <2>2, <2>3 DEF Answers
<1>7. ASSUME UNCHANGED <<vehicle, down>> PROVE Answers(m)
  BY <1>7 DEF Answers, vehicle
<1>8. ASSUME m.kind \in {"REQUEST_LIST", "REQUEST_INT"}, VehicleSends(m) PROVE Answers(m)
  <2> DEFINE plan == stored[m.sys][Mission]
  <2>1. ClassUp(m) = "read" /\ UNCHANGED <<stored, held>>
    BY <1>8 DEF ClassUp, VehicleSends, vehicle
  <2>2. ASSUME NEW kind \in {"COUNT", "ITEM"}, NEW n, NEW body, Reply(kind, m, n, body),
               kind = "COUNT" => n = Len(plan),
               kind = "ITEM" => n < Len(plan) /\ body = plan[n + 1]
        PROVE  Answers(m)
    <3>1. /\ ClassDown(Message(kind, m.sys, Mission, n, body)) = "read"
          /\ Tells(Message(kind, m.sys, Mission, n, body), stored)
      BY <2>2 DEF Message, ClassDown, Tells
    <3> QED
      BY <1>4, <2>1, <2>2, <3>1 DEF Answers
  <2> HIDE DEF plan
  <2>3. CASE Reply("COUNT", m, Len(plan), None)
    BY <2>2, <2>3
  <2>4. CASE m.n < Len(plan) /\ Reply("ITEM", m, m.n, plan[m.n + 1])
    BY <2>2, <2>4
  <2>5. CASE UNCHANGED down
    BY <1>7, <1>8, <2>5 DEF VehicleSends
  <2> QED
    BY <1>3, <1>8, <2>3, <2>4, <2>5 DEF VehicleSends, plan
<1>9. ASSUME m.kind = "COUNT", VehicleCount(m) PROVE Answers(m)
  <2>1. ClassUp(m) = "write"
    BY <1>9 DEF ClassUp
  <2> QED
    BY <1>5, <1>6, <1>9, <2>1 DEF VehicleCount
<1>10. ASSUME m.kind = "ITEM", VehicleItem(m) PROVE Answers(m)
  <2>1. ClassUp(m) = "write"
    BY <1>10 DEF ClassUp
  <2>2. \/ UNCHANGED <<vehicle, down>>
        \/ \E items : Store(m, items)
        \/ \E n : Reply("REQUEST_INT", m, n, None) /\ UNCHANGED <<stored, held>>
    BY <1>10 DEF VehicleItem
  <2> QED
    BY <1>5, <1>6, <1>7, <2>1, <2>2
<1>11. ASSUME m.kind = "CLEAR_ALL", Store(m, <<>>) PROVE Answers(m)
  BY <1>6, <1>11 DEF ClassUp
<1>12. ASSUME VehicleRejects PROVE Answers(m)
  BY <1>2, <1>5, <1>12 DEF VehicleRejects
<1>13. ASSUME VehicleReceives PROVE Answers(m)
  BY <1>2, <1>3, <1>7, <1>8, <1>9, <1>10, <1>11, <1>13 DEF VehicleReceives, UpKinds
<1> QED
  BY <1>1, <1>2, <1>12, <1>13

LEMMA LinkWhole ==
    ASSUME WholeLists, Types = {Mission}, Link
    PROVE  Records' /\ (NothingGivenUp' => LinkInOrder')
<1> USE DEF WholeLists
<1>1. UNCHANGED op /\ (NothingGivenUp' => NothingGivenUp) /\ UNCHANGED Pending
  <2>1. UNCHANGED op
    BY DEF Link, VehicleReceives, VehicleRejects, LoseUp, LoseDown, client
  <2> QED
    BY <2>1 DEF NothingGivenUp, Pending
<1>2. CASE LoseUp \/ LoseDown
  <2>1. UNCHANGED <<stored, held>>
    BY <1>2 DEF LoseUp, LoseDown, vehicle
  <2>2. Records'
    BY <1>1, <2>1 DEF Records
  <2>3. NothingGivenUp => LinkInOrder'
    BY <1>1, <1>2, <2>1, LessInOrder DEF LoseUp, LoseDown
  <2> QED
    BY <1>1, <2>2, <2>3
<1>3. CASE VehicleReceives \/ VehicleRejects
  <2>1. up # <<>> /\ up' = Tail(up) /\ Answers(Head(up))
    BY <1>3, VehicleAnswers
  <2>2. Records'
    <3>1. ASSUME NEW v \in Systems PROVE <<v, Mission, stored'[v][Mission]>> \in held'
      BY <2>1 DEF Answers, Records
    <3> QED
      BY <1>1, <3>1 DEF Records
  <2>3. ASSUME NothingGivenUp PROVE LinkInOrder'
    <3>0. LinkInOrder /\ up \in Seq(Sent(UpKinds)) /\ down \in Seq(Sent(DownKinds))
          /\ 1 \in DOMAIN up /\ Head(up) = up[1]
      BY <2>1, <2>3 DEF Transfers
    <3>1. ASSUME NEW x \in {"read", "write"}, NEW y \in {"read", "write"}
          PROVE  /\ Apart(x, y, down, up) => Apart(x, y, down', up')
                 /\ Free(y, down, up) => Free(y, down', up')
      <4>1. CASE down' = down
        BY <2>1, <3>0, <4>1, TailUp
      <4>2. ASSUME NEW a, down' = Append(down, a), ClassDown(a) \in {ClassUp(Head(up)), "none"}
            PROVE  /\ Apart(x, y, down, up) => Apart(x, y, down', up')
                   /\ Free(y, down, up) => Free(y, down', up')
        <5>1. down \in Seq(Sent(DownKinds) \cup {a}) /\ a \in Sent(DownKinds) \cup {a}
          BY <3>0
        <5> QED
          BY <2>1, <3>0, <4>2, <5>1, AnswerApart
      <4> QED
        BY <2>1, <4>1, <4>2 DEF Answers
    <3>2. ASSUME Reading PROVE \A i \in DOMAIN down' : Tells(down'[i], stored')
      <4>1. Apart("read", "write", down, up) /\ \A i \in DOMAIN down : Tells(down[i], stored)
        BY <3>0, <3>2 DEF LinkInOrder
      <4>2. CASE UNCHANGED stored
        <5>1. CASE down' = down
          BY <4>1, <4>2, <5>1
        <5>2. ASSUME NEW a, down' = Append(down, a), ClassDown(a) = "read" => Tells(a, stored)
              PROVE  \A i \in DOMAIN down' : Tells(down'[i], stored')
          <6>1. down \in Seq(Sent(DownKinds) \cup {a}) /\ a \in Sent(DownKinds) \cup {a}
            BY <3>0
          <6>2. ClassDown(a) # "read" => Tells(a, stored)
            BY DEF ClassDown, Tells
          <6>3. \A i \in DOMAIN down' : down'[i] = a \/ (i \in DOMAIN down /\ down'[i] = down[i])
            BY <5>2, <6>1, AppendTail
          <6> QED
            BY <4>1, <4>2, <5>2, <6>2, <6>3
        <5> QED
          BY <2>1, <5>1, <5>2 DEF Answers
      <4>3. CASE ClassUp(Head(up)) = "write"
        <5>1. \A i \in DOMAIN down : ClassDown(down[i]) # "read"
          BY <2>1, <3>0, <4>1, <4>3, FirstUp
        <5>2. \A i \in DOMAIN down' : ClassDown(down'[i]) # "read"
          <6>1. CASE down' = down
            BY <5>1, <6>1
          <6>2. ASSUME NEW a, down' = Append(down, a), ClassDown(a) \in {"write", "none"}
                PROVE  \A i \in DOMAIN down' : ClassDown(down'[i]) # "read"
            <7>1. down \in Seq(Sent(DownKinds) \cup {a}) /\ a \in Sent(DownKinds) \cup {a}
              BY <3>0
            <7>2. \A i \in DOMAIN down' : down'[i] = a \/ (i \in DOMAIN down /\ down'[i] = down[i])
              BY <6>2, <7>1, AppendTail
            <7> QED
              BY <5>1, <6>2, <7>2
          <6> QED
            BY <2>1, <4>3, <6>1, <6>2 DEF Answers
        <5> QED
          BY <5>2 DEF ClassDown, Tells
      <4> QED
        BY <2>1, <4>2, <4>3 DEF Answers
    <3>3. ASSUME NEW o \in Pending, op[o].role = "download", op[o].phase = "items"
          PROVE  Free("write", down', up') /\ Follows(op[o], stored')
      <4>1. Free("write", down, up) /\ Follows(op[o], stored)
        BY <3>0, <3>3 DEF LinkInOrder
      <4>2. ClassUp(Head(up)) # "write"
        BY <3>0, <4>1 DEF Free
      <4>3. UNCHANGED stored
        BY <2>1, <4>2 DEF Answers
      <4> QED
        BY <3>1, <4>1, <4>3
    <3> QED
      BY <1>1, <3>0, <3>1, <3>2, <3>3 DEF LinkInOrder, Reading, Writing
  <2> QED
    BY <1>1, <2>2, <2>3
<1> QED
  BY <1>2, <1>3 DEF Link

LEMMA InitWhole == ASSUME Init, Types = {Mission} PROVE WholeLists
<1>1. Transfers
  BY InitTransfers
<1>2. Pending = {} /\ (\A o \in Ops : op[o].status = "idle") /\ up = <<>> /\ down = <<>>
  BY DEF Init, Pending
<1>3. \A v \in Systems : <<v, Mission, stored[v][Mission]>> \in held
  BY MissionAssumption DEF Init
<1>4. LinkInOrder
  BY <1>2 DEF LinkInOrder, Apart
<1>5. DownloadedIsHeld /\ VerifiedUploadIsHeld
  BY <1>2 DEF DownloadedIsHeld, VerifiedUploadIsHeld
<1> QED
  BY <1>1, <1>2, <1>3, <1>4, <1>5 DEF WholeLists, Records

LEMMA NextWhole == ASSUME WholeLists, OneAtATime, Types = {Mission}, [Next]_vars PROVE WholeLists'
<1>1. Transfers'
  BY NextTransfers DEF WholeLists
<1>2. ASSUME Records', NothingGivenUp' => LinkInOrder', ResolvesTruly PROVE WholeLists'
  BY <1>1, <1>2, HistoryKept DEF WholeLists, ResolvesTruly
<1>3. ASSUME \A o \in Ops : op'[o].status = "resolved" => op[o].status = "resolved"
      PROVE  ResolvesTruly
  BY <1>3 DEF ResolvesTruly
<1>4. op \in [Ops -> OpRecords]
  BY DEF WholeLists, Transfers, TypeOK
<1>5. CASE UNCHANGED vars
  <2>1. Records' /\ (NothingGivenUp' => LinkInOrder')
    BY <1>5 DEF vars, client, vehicle, WholeLists, Records, LinkInOrder, Reading, Writing, Pending,
         NothingGivenUp
  <2> QED
    BY <1>2, <1>3, <1>5, <2>1 DEF vars, client
<1>6. ASSUME NEW o \in Ops, Enter(o) PROVE WholeLists'
  <2>1. ASSUME NEW q \in Ops, op'[q].status = "resolved" PROVE op[q].status = "resolved"
    <3>1. ASSUME NEW c \in Roles, NEW t \in Systems \cup {None}, Refuse(o, c, t)
          PROVE  op[q].status = "resolved"
      BY <1>4, <2>1, <3>1 DEF Refuse, Refusals, OpRecords
    <3>2. ASSUME NEW c \in Roles, NEW ty \in Types, NEW t \in Systems, NEW p \in Plans,
                 NEW verify \in BOOLEAN, Begin(o, c, ty, t, p, verify)
          PROVE  op[q].status = "resolved"
      BY <1>4, <2>1, <3>2 DEF Begin, Transmit, NewOp
    <3>3. <<>> \in Plans
      BY MissionAssumption
    <3> QED
      BY <1>6, <3>1, <3>2, <3>3 DEF Enter, Download, Upload, Clear, Roles
  <2> QED
    BY <1>2, <1>3, <1>6, <2>1, EnterWhole
<1>7. ASSUME NEW o \in Ops, Tick(o) PROVE WholeLists'
  <2>1. ASSUME NEW q \in Ops, op'[q].status = "resolved" PROVE op[q].status = "resolved"
    <3>1. o \in Pending
      BY <1>7 DEF Tick, WholeLists, Transfers, TimersMatchPending
    <3>2. Transmit(o, [op[o] EXCEPT !.attempts = @ + 1]) => op[q].status = "resolved"
      BY <1>4, <2>1, <3>1 DEF Transmit, Pending, OpRecords
    <3>3. Settle({o}, "timeout") => op[q].status = "resolved"
      BY <1>4, <2>1 DEF Settle, OpRecords
    <3> QED
      BY <1>7, <3>2, <3>3 DEF Tick
  <2> QED
    BY <1>2, <1>3, <1>7, <2>1, TickWhole
<1>8. ASSUME (\E o \in Ops : Abort(o)) \/ Dispose \/ SendFailed PROVE WholeLists'
  <2>1. ASSUME NEW q \in Ops, op'[q].status = "resolved" PROVE op[q].status = "resolved"
    <3>1. ASSUME NEW S, NEW outcome \in {"aborted", "disposed", "send-failed"}, Settle(S, outcome)
          PROVE  op[q].status = "resolved"
      BY <1>4, <2>1, <3>1 DEF Settle, OpRecords
    <3> QED
      BY <1>8, <3>1 DEF Abort, Dispose, SendFailed
  <2> QED
    BY <1>2, <1>3, <1>8, <2>1, EndWhole
<1>9. ASSUME NEW t \in Systems \cup {None}, OnMessage(t) PROVE WholeLists'
  BY <1>2, <1>9, MessageWhole DEF Whole
<1>10. ASSUME Link PROVE WholeLists'
  <2>1. UNCHANGED op
    BY <1>10 DEF Link, VehicleReceives, VehicleRejects, LoseUp, LoseDown, client
  <2> QED
    BY <1>2, <1>3, <1>10, <2>1, LinkWhole
<1> QED
  BY <1>5, <1>6, <1>7, <1>8, <1>9, <1>10 DEF Next

LEMMA WholeListsKept == ASSUME OneAtATime, Types = {Mission} PROVE Spec => []WholeLists
<1>1. Init => WholeLists
  BY InitWhole
<1>2. WholeLists /\ [Next]_vars => WholeLists'
  BY NextWhole
<1> QED
  BY <1>1, <1>2, PTL DEF Spec

\* Transfers one after the other, as the plan screen runs them, of one mission type:
\* unless one was given up, what a download returns is a list that the vehicle held
\* (onCount, onItemInt and the resends of onDownloadTick).
THEOREM DownloadsAreWhole ==
    ASSUME OneAtATime, Types = {Mission}
    PROVE  Spec => []DownloadedIsHeld
<1>1. WholeLists => DownloadedIsHeld
  BY DEF WholeLists
<1> QED
  BY <1>1, WholeListsKept, PTL

\* Likewise an upload with verify resolves only when the vehicle held what it was given
\* (onAck, finishUpload and the comparison of the list that is read back).
THEOREM VerifiedUploadsAreHeld ==
    ASSUME OneAtATime, Types = {Mission}
    PROVE  Spec => []VerifiedUploadIsHeld
<1>1. WholeLists => VerifiedUploadIsHeld
  BY DEF WholeLists
<1> QED
  BY <1>1, WholeListsKept, PTL
=============================================================================
