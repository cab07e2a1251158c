------------------------- MODULE CommandClientProofs -------------------------
(***************************************************************************)
(* Proofs that CommandClient keeps its promises for any number of calls,   *)
(* vehicles, commands and attempts.                                        *)
(***************************************************************************)
EXTENDS CommandClient, TLAPS

\* What a call's record guarantees while the call lives.
OpsConsistent ==
    \A o \in Ops :
        /\ op[o].attempts <= MaxAttempts
        /\ op[o].status \in {"pending", "legacy"} => op[o].target \in Targets
        /\ op[o].status = "pending" => op[o].kind # "oneway"
        /\ op[o].status = "legacy" => op[o].kind # "send"
        /\ op[o].status = "legacy" /\ op[o].kind = "mode" =>
              Answered(op[o].target.sysid, op[o].cmd, "UNSUPPORTED")

\* A message in flight belongs to a call that was made, and a one-way message
\* that is still being sent to a call that waits for it.
MessagesConsistent ==
    \A m \in sends \cup wire :
        /\ op[m.op].status # "idle"
        /\ m.target = op[m.op].target
        /\ m.cmd = op[m.op].cmd
        /\ m.confirm < MaxAttempts
        /\ m.oneway => m.confirm = 0
        /\ m.oneway /\ m \in sends => op[m.op].status = "legacy"

IInv ==
    /\ TypeOK
    /\ OpsConsistent
    /\ MessagesConsistent
    /\ TimersMatchPending
    /\ TimeoutMeansExhausted
    /\ ResolvedWasAccepted

USE CommandAssumption

\* The initial state satisfies the inductive invariant.
LEMMA InitIInv == Init => IInv
<1> SUFFICES ASSUME Init PROVE IInv
  OBVIOUS
<1> USE DEF Init
<1>1. TypeOK
  <2>1. op \in [Ops -> OpRecords]
    BY DEF OpRecords, Statuses, Kinds
  <2>2. QED
    BY <2>1 DEF TypeOK
<1>2. OpsConsistent
  BY DEF OpsConsistent
<1>3. MessagesConsistent
  BY DEF MessagesConsistent
<1>4. TimersMatchPending
  BY DEF TimersMatchPending, Pending
<1>5. TimeoutMeansExhausted
  BY DEF TimeoutMeansExhausted
<1>6. ResolvedWasAccepted
  BY DEF ResolvedWasAccepted
<1>7. QED
  BY <1>1, <1>2, <1>3, <1>4, <1>5, <1>6 DEF IInv

\* What settling a set S of calls does to each record, field by field.
LEMMA SettleEffect ==
  ASSUME TypeOK, NEW S, NEW r \in Statuses, Settle(S, r)
  PROVE  /\ op' \in [Ops -> OpRecords]
         /\ armed' = armed \ S
         /\ listening' = listening \ S
         /\ \A o \in Ops :
              /\ op'[o].status = IF o \in S THEN r ELSE op[o].status
              /\ op'[o].kind = op[o].kind
              /\ op'[o].target = op[o].target
              /\ op'[o].cmd = op[o].cmd
              /\ op'[o].attempts = op[o].attempts
              /\ op'[o].inProgress = op[o].inProgress
<1>1. \A o \in Ops : op[o] \in OpRecords
  BY DEF TypeOK
<1>2. \A o \in Ops : [op[o] EXCEPT !.status = r] \in OpRecords
  BY <1>1 DEF OpRecords
<1>3. op' = [o \in Ops |-> IF o \in S THEN [op[o] EXCEPT !.status = r] ELSE op[o]]
  BY DEF Settle
<1>4. \A o \in Ops : op'[o] = IF o \in S THEN [op[o] EXCEPT !.status = r] ELSE op[o]
  BY <1>3
<1>5. \A o \in Ops : op'[o] \in OpRecords
  BY <1>1, <1>2, <1>4
<1>6. op' \in [Ops -> OpRecords]
  BY <1>3, <1>5
<1>7. ASSUME NEW o \in Ops
      PROVE  /\ op'[o].status = IF o \in S THEN r ELSE op[o].status
             /\ op'[o].kind = op[o].kind
             /\ op'[o].target = op[o].target
             /\ op'[o].cmd = op[o].cmd
             /\ op'[o].attempts = op[o].attempts
             /\ op'[o].inProgress = op[o].inProgress
  BY <1>1, <1>4 DEF OpRecords
<1>8. QED
  BY <1>6, <1>7 DEF Settle

\* Settling open calls with a failure keeps the invariant when nothing new is
\* sent; a timeout needs the attempts of the call to be used up.
LEMMA SettleFailure ==
  ASSUME IInv, NEW S \in SUBSET Ops, NEW r \in Rejections, Settle(S, r),
         \A o \in S : op[o].status \in {"pending", "legacy"},
         r = "timeout" => \A o \in S : op[o].attempts = MaxAttempts \/ op[o].inProgress,
         sends' \subseteq sends, \A m \in sends' : m.oneway => m.op \notin S,
         wire' = wire, acks' = acks, issued' = issued, disposed' \in BOOLEAN
  PROVE  IInv'
<1>1. TypeOK /\ r \in Statuses
  BY DEF IInv, Statuses
<1> DEFINE Effect(o) ==
      /\ op'[o].status = IF o \in S THEN r ELSE op[o].status
      /\ op'[o].kind = op[o].kind
      /\ op'[o].target = op[o].target
      /\ op'[o].cmd = op[o].cmd
      /\ op'[o].attempts = op[o].attempts
      /\ op'[o].inProgress = op[o].inProgress
<1>2. /\ op' \in [Ops -> OpRecords]
      /\ armed' = armed \ S
      /\ listening' = listening \ S
      /\ \A o \in Ops : Effect(o)
  BY <1>1, SettleEffect
<1>3. r \notin {"idle", "pending", "legacy", "resolved"}
  BY DEF Rejections
<1>4. \A m \in sends \cup wire : m.op \in Ops
  BY <1>1 DEF TypeOK, Messages
<1>5. TypeOK'
  BY <1>1, <1>2 DEF TypeOK
<1>6. OpsConsistent'
  BY <1>2, <1>3 DEF IInv, OpsConsistent, Answered
<1>7. MessagesConsistent'
  BY <1>2, <1>3, <1>4 DEF IInv, MessagesConsistent
<1>8. TimersMatchPending'
  BY <1>2, <1>3 DEF IInv, TimersMatchPending, Pending
<1>9. TimeoutMeansExhausted'
  BY <1>2 DEF IInv, TimeoutMeansExhausted
<1>10. ResolvedWasAccepted'
  BY <1>2, <1>3 DEF IInv, ResolvedWasAccepted, Answered
<1>11. QED
  BY <1>5, <1>6, <1>7, <1>8, <1>9, <1>10 DEF IInv

\* A call has at most one one-way message on its way to the worker.
LEMMA OneWayUnique ==
  ASSUME IInv, NEW m \in sends, NEW n \in sends, m.oneway, n.oneway, m.op = n.op
  PROVE  m = n
<1>1. m \in Messages /\ n \in Messages
  BY DEF IInv, TypeOK
<1>2. m.confirm = 0 /\ n.confirm = 0 /\ m.target = n.target /\ m.cmd = n.cmd
  BY DEF IInv, MessagesConsistent
<1>3. QED
  BY <1>1, <1>2 DEF Messages

\* An answer once given stays given: acks only grows.
LEMMA AnsweredStays ==
  ASSUME acks \subseteq acks', NEW v, NEW c, NEW r, Answered(v, c, r)
  PROVE  Answered(v, c, r)'
BY DEF Answered

LEMMA RefuseKeeps ==
  ASSUME IInv, NEW o \in Ops, NEW k \in Kinds, NEW t \in Targets \cup {None}, Refuse(o, k, t)
  PROVE  IInv'
<1>1. PICK why \in Refusals(k, t) : op' = [op EXCEPT ![o].status = why, ![o].kind = k]
  BY DEF Refuse
<1>2. why \in {"no-vehicle", "aborted", "rejected"}
  BY <1>1 DEF Refusals, Kinds
<1>3. TypeOK /\ op[o] \in OpRecords /\ op[o].status = "idle"
  BY DEF IInv, TypeOK, Refuse
<1>4. /\ \A q \in Ops : q # o => op'[q] = op[q]
      /\ op' = [q \in Ops |-> op'[q]]
  BY <1>1, <1>3 DEF TypeOK
<1>5. op'[o] \in OpRecords /\ op'[o].status = why /\ op'[o].attempts = op[o].attempts
  <2>1. op'[o] = [op[o] EXCEPT !.status = why, !.kind = k]
    BY <1>1, <1>3 DEF TypeOK
  <2>2. QED
    BY <1>2, <1>3, <2>1 DEF OpRecords, Statuses, Rejections
<1>6. UNCHANGED <<disposed, issued, armed, listening, sends, wire, acks>>
  BY DEF Refuse
<1>7. TypeOK'
  BY <1>3, <1>4, <1>5, <1>6 DEF TypeOK
<1>8. OpsConsistent'
  BY <1>2, <1>4, <1>5, <1>6 DEF IInv, OpsConsistent, Answered
<1>9. MessagesConsistent'
  <2>1. \A m \in sends \cup wire : m.op \in Ops /\ m.op # o
    BY <1>3 DEF IInv, TypeOK, Messages, MessagesConsistent
  <2>2. QED
    BY <2>1, <1>4, <1>6 DEF IInv, MessagesConsistent
<1>10. TimersMatchPending'
  BY <1>2, <1>3, <1>4, <1>5, <1>6 DEF IInv, TimersMatchPending, Pending
<1>11. TimeoutMeansExhausted'
  BY <1>2, <1>4, <1>5 DEF IInv, TimeoutMeansExhausted
<1>12. ResolvedWasAccepted'
  BY <1>2, <1>4, <1>5, <1>6 DEF IInv, ResolvedWasAccepted, Answered
<1>13. QED
  BY <1>7, <1>8, <1>9, <1>10, <1>11, <1>12 DEF IInv

LEMMA SendKeeps ==
  ASSUME IInv, NEW o \in Ops, NEW k \in {"send", "mode"}, NEW c \in Commands,
         NEW t \in Targets, NEW s \in BOOLEAN, Send(o, k, c, t, s)
  PROVE  IInv'
<1> DEFINE rec == [status |-> "pending", kind |-> k, target |-> t, cmd |-> c,
                   attempts |-> 1, inProgress |-> FALSE, ord |-> issued]
           msg == CommandMessage(o, t, c, 0)
<1>1. TypeOK /\ op[o].status = "idle"
  BY DEF IInv, Send
<1>2. /\ op'[o] = rec
      /\ \A q \in Ops : q # o => op'[q] = op[q]
      /\ op' = [q \in Ops |-> op'[q]]
  BY <1>1 DEF TypeOK, Send
<1>3. rec \in OpRecords
  BY <1>1 DEF TypeOK, OpRecords, Statuses, Kinds
<1>4. msg \in Messages /\ msg.op = o /\ msg.target = t /\ msg.cmd = c
        /\ msg.confirm = 0 /\ ~msg.oneway
  BY DEF CommandMessage, Messages
<1>5. /\ sends' = sends \cup {msg}
      /\ armed' = armed \cup {o}
      /\ listening \subseteq listening' /\ listening' \subseteq listening \cup {o}
      /\ issued' = issued + 1
      /\ UNCHANGED <<disposed, wire, acks>>
  BY DEF Send
<1> HIDE DEF rec, msg
<1>6. op'[o].status = "pending" /\ op'[o].kind = k /\ op'[o].target = t
        /\ op'[o].cmd = c /\ op'[o].attempts = 1
  BY <1>2 DEF rec
<1>7. TypeOK'
  BY <1>1, <1>2, <1>3, <1>4, <1>5 DEF TypeOK
<1>8. OpsConsistent'
  BY <1>2, <1>5, <1>6, CommandAssumption DEF IInv, OpsConsistent, Answered
<1>9. MessagesConsistent'
  <2>1. \A m \in sends \cup wire : m.op \in Ops /\ m.op # o
    BY <1>1 DEF IInv, TypeOK, Messages, MessagesConsistent
  <2>2. 0 < MaxAttempts
    BY CommandAssumption
  <2>3. QED
    BY <2>1, <2>2, <1>2, <1>4, <1>5, <1>6 DEF IInv, MessagesConsistent
<1>10. TimersMatchPending'
  BY <1>1, <1>2, <1>5, <1>6 DEF IInv, TimersMatchPending, Pending
<1>11. TimeoutMeansExhausted'
  BY <1>2, <1>6 DEF IInv, TimeoutMeansExhausted
<1>12. ResolvedWasAccepted'
  BY <1>2, <1>5, <1>6 DEF IInv, ResolvedWasAccepted, Answered
<1>13. QED
  BY <1>7, <1>8, <1>9, <1>10, <1>11, <1>12 DEF IInv

LEMMA SendOneWayKeeps ==
  ASSUME IInv, NEW o \in Ops, NEW c \in Commands, NEW t \in Targets, SendOneWay(o, c, t)
  PROVE  IInv'
<1> DEFINE msg == OneWayMessage(o, t, c)
<1>1. TypeOK /\ op[o] \in OpRecords /\ op[o].status = "idle"
  BY DEF IInv, TypeOK, SendOneWay
<1>2. /\ \A q \in Ops : q # o => op'[q] = op[q]
      /\ op' = [q \in Ops |-> op'[q]]
  BY <1>1 DEF TypeOK, SendOneWay
<1>3. op'[o] \in OpRecords /\ op'[o].status = "legacy" /\ op'[o].kind = "oneway"
        /\ op'[o].target = t /\ op'[o].cmd = c /\ op'[o].attempts = op[o].attempts
  <2>1. op'[o] = [op[o] EXCEPT !.status = "legacy", !.kind = "oneway",
                               !.target = t, !.cmd = c]
    BY <1>1 DEF TypeOK, SendOneWay
  <2>2. QED
    BY <1>1, <2>1 DEF OpRecords, Statuses, Kinds
<1>4. msg \in Messages /\ msg.op = o /\ msg.target = t /\ msg.cmd = c /\ msg.confirm = 0
  BY DEF OneWayMessage, Messages
<1>5. /\ sends' = sends \cup {msg}
      /\ UNCHANGED <<disposed, issued, armed, listening, wire, acks>>
  BY DEF SendOneWay
<1> HIDE DEF msg
<1>6. TypeOK'
  BY <1>1, <1>2, <1>3, <1>4, <1>5 DEF TypeOK
<1>7. OpsConsistent'
  BY <1>2, <1>3, <1>5 DEF IInv, OpsConsistent, Answered
<1>8. MessagesConsistent'
  <2>1. \A m \in sends \cup wire : m.op \in Ops /\ m.op # o
    BY <1>1 DEF IInv, TypeOK, Messages, MessagesConsistent
  <2>2. 0 < MaxAttempts
    BY CommandAssumption
  <2>3. QED
    BY <2>1, <2>2, <1>2, <1>3, <1>4, <1>5 DEF IInv, MessagesConsistent
<1>9. TimersMatchPending'
  BY <1>1, <1>2, <1>3, <1>5 DEF IInv, TimersMatchPending, Pending
<1>10. TimeoutMeansExhausted'
  BY <1>2, <1>3 DEF IInv, TimeoutMeansExhausted
<1>11. ResolvedWasAccepted'
  BY <1>2, <1>3, <1>5 DEF IInv, ResolvedWasAccepted, Answered
<1>12. QED
  BY <1>6, <1>7, <1>8, <1>9, <1>10, <1>11 DEF IInv

LEMMA SendDoneKeeps ==
  ASSUME IInv, NEW m \in sends, SendDone(m)
  PROVE  IInv'
<1>1. TypeOK /\ m \in Messages /\ m.op \in Ops
  BY DEF IInv, TypeOK, Messages
<1>2. /\ sends' = sends \ {m}
      /\ wire' = wire \cup {m}
      /\ UNCHANGED <<disposed, issued, armed, listening, acks>>
  BY DEF SendDone
<1>3. CASE ~m.oneway
  <2>1. op' = op
    BY <1>3 DEF SendDone
  <2>2. TypeOK'
    BY <1>1, <1>2, <2>1 DEF TypeOK
  <2>3. OpsConsistent' /\ TimersMatchPending' /\ TimeoutMeansExhausted'
    BY <1>2, <2>1 DEF IInv, OpsConsistent, TimersMatchPending, TimeoutMeansExhausted,
       Pending, Answered
  <2>4. MessagesConsistent'
    BY <1>2, <1>3, <2>1 DEF IInv, MessagesConsistent
  <2>5. ResolvedWasAccepted'
    BY <1>2, <2>1 DEF IInv, ResolvedWasAccepted, Answered
  <2>6. QED
    BY <2>2, <2>3, <2>4, <2>5 DEF IInv
<1>4. CASE m.oneway
  <2> DEFINE o == m.op
  <2>1. op[o] \in OpRecords /\ op[o].status = "legacy"
    BY <1>1, <1>4 DEF IInv, TypeOK, MessagesConsistent
  <2>2. /\ \A q \in Ops : q # o => op'[q] = op[q]
        /\ op' = [q \in Ops |-> op'[q]]
    BY <1>1, <1>4 DEF TypeOK, SendDone
  <2>3. /\ op'[o] \in OpRecords /\ op'[o].status = "resolved"
        /\ op'[o].kind = op[o].kind /\ op'[o].target = op[o].target
        /\ op'[o].cmd = op[o].cmd /\ op'[o].attempts = op[o].attempts
    <3>1. op'[o] = [op[o] EXCEPT !.status = "resolved"]
      BY <1>1, <1>4 DEF TypeOK, SendDone
    <3>2. QED
      BY <2>1, <3>1 DEF OpRecords, Statuses
  <2>4. TypeOK'
    BY <1>1, <1>2, <2>2, <2>3 DEF TypeOK
  <2>5. OpsConsistent'
    BY <1>1, <1>2, <2>2, <2>3 DEF IInv, OpsConsistent, Answered
  <2>6. MessagesConsistent'
    <3>1. \A n \in sends' : n.oneway => n.op # o
      BY <1>2, <1>4, OneWayUnique
    <3>2. \A n \in sends \cup wire : n.op \in Ops
      BY <1>1 DEF TypeOK, Messages
    <3>3. QED
      BY <1>1, <1>2, <1>4, <2>1, <2>2, <2>3, <3>1, <3>2 DEF IInv, MessagesConsistent
  <2>7. TimersMatchPending'
    BY <1>1, <1>2, <2>1, <2>2, <2>3 DEF IInv, TimersMatchPending, Pending
  <2>8. TimeoutMeansExhausted'
    BY <1>1, <2>2, <2>3 DEF IInv, TimeoutMeansExhausted
  <2>9. ResolvedWasAccepted'
    <3>1. \A q \in Ops : q # o => op'[q] = op[q]
      BY <2>2
    <3>2. op[o].kind # "oneway" =>
            op[o].kind = "mode" /\ Answered(op[o].target.sysid, op[o].cmd, "UNSUPPORTED")
      BY <1>1, <2>1 DEF IInv, OpsConsistent, OpRecords, Kinds
    <3>3. m \in wire' /\ m.oneway /\ m.op = o /\ wire \subseteq wire' /\ acks' = acks
      BY <1>2, <1>4
    <3>4. QED
      BY <1>1, <2>3, <3>1, <3>2, <3>3 DEF IInv, ResolvedWasAccepted, Answered
  <2>10. QED
    BY <2>4, <2>5, <2>6, <2>7, <2>8, <2>9 DEF IInv
<1>5. QED
  BY <1>3, <1>4

LEMMA SendFailedKeeps ==
  ASSUME IInv, NEW m \in sends, SendFailed(m)
  PROVE  IInv'
<1> DEFINE S == IF m.oneway \/ m.op \in Pending THEN {m.op} ELSE {}
<1>1. TypeOK /\ m.op \in Ops
  BY DEF IInv, TypeOK, Messages
<1>2. Settle(S, "send-failed")
  BY DEF SendFailed
<1>3. \A o \in S : op[o].status \in {"pending", "legacy"}
  BY DEF Pending, IInv, MessagesConsistent
<1>4. \A n \in sends' : n.oneway => n.op \notin S
  <2>1. ASSUME NEW n \in sends', n.oneway, n.op \in S PROVE FALSE
    <3>1. n \in sends /\ n # m /\ n.op = m.op
      BY <2>1 DEF SendFailed
    <3>2. op[m.op].status = "legacy"
      BY <2>1, <3>1 DEF IInv, MessagesConsistent
    <3>3. m.oneway
      BY <2>1, <3>2 DEF Pending
    <3>4. QED
      BY <2>1, <3>1, <3>3, OneWayUnique
  <2>2. QED
    BY <2>1
<1>5. /\ sends' \subseteq sends
      /\ wire' = wire /\ acks' = acks /\ issued' = issued /\ disposed' \in BOOLEAN
  BY <1>1 DEF SendFailed, TypeOK
<1>6. S \in SUBSET Ops /\ "send-failed" \in Rejections
  BY <1>1 DEF Rejections
<1>7. QED
  BY <1>2, <1>3, <1>4, <1>5, <1>6, SettleFailure

LEMMA TickKeeps ==
  ASSUME IInv, NEW o \in Ops, Tick(o)
  PROVE  IInv'
<1>1. TypeOK /\ op[o] \in OpRecords
  BY DEF IInv, TypeOK
<1>2. op[o].status = "pending"
  BY DEF Tick, TickWithLimit, IInv, TimersMatchPending, Pending
<1>3. UNCHANGED <<disposed, issued, wire, acks>>
  BY DEF Tick, TickWithLimit
<1>4. CASE op[o].inProgress \/ op[o].attempts >= MaxAttempts
  <2>1. Settle({o}, "timeout") /\ sends' = sends
    BY <1>4 DEF Tick, TickWithLimit
  <2>2. op[o].attempts = MaxAttempts \/ op[o].inProgress
    BY <1>1, <1>4, CommandAssumption DEF IInv, OpsConsistent, OpRecords
  <2>3. \A n \in sends' : n.oneway => n.op \notin {o}
    BY <1>2, <2>1 DEF IInv, MessagesConsistent
  <2>4. disposed' \in BOOLEAN
    BY <1>1, <1>3 DEF TypeOK
  <2>5. "timeout" \in Rejections
    BY DEF Rejections
  <2>6. QED
    BY <1>2, <1>3, <2>1, <2>2, <2>3, <2>4, <2>5, SettleFailure
<1>5. CASE ~(op[o].inProgress \/ op[o].attempts >= MaxAttempts)
  <2> DEFINE msg == CommandMessage(o, op[o].target, op[o].cmd, op[o].attempts)
  <2>1. /\ sends' = sends \cup {msg}
        /\ UNCHANGED <<armed, listening>>
        /\ \A q \in Ops : q # o => op'[q] = op[q]
        /\ op' = [q \in Ops |-> op'[q]]
    BY <1>1, <1>5 DEF Tick, TickWithLimit, TypeOK
  <2>2. /\ op'[o] \in OpRecords /\ op'[o].status = "pending"
        /\ op'[o].kind = op[o].kind /\ op'[o].target = op[o].target
        /\ op'[o].cmd = op[o].cmd /\ op'[o].attempts <= MaxAttempts
    <3>1. op'[o] = [op[o] EXCEPT !.attempts = op[o].attempts + 1]
      BY <1>1, <1>5 DEF Tick, TickWithLimit, TypeOK
    <3>2. op[o].attempts + 1 \in Nat /\ op[o].attempts + 1 <= MaxAttempts
      BY <1>1, <1>5, CommandAssumption DEF OpRecords
    <3>3. QED
      BY <1>1, <1>2, <3>1, <3>2 DEF OpRecords
  <2>3. op[o].target \in Targets
    BY <1>2 DEF IInv, OpsConsistent
  <2>4. /\ msg \in Messages /\ msg.op = o /\ msg.target = op[o].target
        /\ msg.cmd = op[o].cmd /\ msg.confirm < MaxAttempts /\ ~msg.oneway
    BY <1>1, <1>5, <2>3, CommandAssumption DEF CommandMessage, Messages, OpRecords
  <2> HIDE DEF msg
  <2>5. TypeOK'
    BY <1>1, <1>3, <2>1, <2>2, <2>4 DEF TypeOK
  <2>6. OpsConsistent'
    BY <1>2, <1>3, <2>1, <2>2, <2>3 DEF IInv, OpsConsistent, Answered
  <2>7. MessagesConsistent'
    <3>1. \A n \in sends \cup wire : n.op \in Ops
      BY <1>1 DEF TypeOK, Messages
    <3>2. QED
      BY <1>2, <1>3, <2>1, <2>2, <2>4, <3>1 DEF IInv, MessagesConsistent
  <2>8. TimersMatchPending'
    BY <1>2, <2>1, <2>2 DEF IInv, TimersMatchPending, Pending
  <2>9. TimeoutMeansExhausted'
    BY <2>1, <2>2 DEF IInv, TimeoutMeansExhausted
  <2>10. ResolvedWasAccepted'
    BY <1>3, <2>1, <2>2 DEF IInv, ResolvedWasAccepted, Answered
  <2>11. QED
    BY <2>5, <2>6, <2>7, <2>8, <2>9, <2>10 DEF IInv
<1>6. QED
  BY <1>4, <1>5

LEMMA AbortKeeps ==
  ASSUME IInv, NEW o \in Ops, Abort(o)
  PROVE  IInv'
<1>1. Settle({o}, "aborted") /\ UNCHANGED <<disposed, issued, sends, wire, acks>>
  BY DEF Abort
<1>2. op[o].status = "pending"
  BY DEF Abort, IInv, TimersMatchPending, Pending
<1>3. \A n \in sends' : n.oneway => n.op \notin {o}
  BY <1>1, <1>2 DEF IInv, MessagesConsistent
<1>4. disposed' \in BOOLEAN /\ "aborted" \in Rejections /\ "aborted" # "timeout"
  BY <1>1 DEF IInv, TypeOK, Rejections
<1>5. QED
  BY <1>1, <1>2, <1>3, <1>4, SettleFailure

LEMMA DisposeKeeps ==
  ASSUME IInv, Dispose
  PROVE  IInv'
<1>1. Settle(Pending, "aborted") /\ UNCHANGED <<issued, sends, wire, acks>>
        /\ disposed' = TRUE
  BY DEF Dispose
<1>2. Pending \in SUBSET Ops /\ \A o \in Pending : op[o].status = "pending"
  BY DEF Pending
<1>3. \A n \in sends' : n.oneway => n.op \notin Pending
  BY <1>1, <1>2 DEF IInv, MessagesConsistent
<1>4. "aborted" \in Rejections /\ "aborted" # "timeout"
  BY DEF Rejections
<1>5. QED
  BY <1>1, <1>2, <1>3, <1>4, SettleFailure

\* An acknowledgement is only ever matched with a pending call that asked the
\* sender for this very command (the filter at the head of onAck).
LEMMA CorrelatedIsCandidate ==
  ASSUME NEW a, NEW p \in Correlated(a)
  PROVE  /\ p \in Ops /\ op[p].status = "pending"
         /\ op[p].cmd = a.cmd /\ op[p].target.sysid = a.sysid
BY DEF Correlated, Oldest, SameComponent, Candidates, Pending

LEMMA ProgressKeeps ==
  ASSUME IInv, NEW p \in Ops, op[p].status = "pending", Progress(p),
         UNCHANGED <<disposed, issued, wire, acks>>
  PROVE  IInv'
<1>1. TypeOK /\ op[p] \in OpRecords
  BY DEF IInv, TypeOK
<1>2. /\ \A q \in Ops : q # p => op'[q] = op[q]
      /\ op' = [q \in Ops |-> op'[q]]
      /\ armed' = armed \cup {p}
      /\ UNCHANGED <<listening, sends>>
  BY <1>1 DEF TypeOK, Progress
<1>3. /\ op'[p] \in OpRecords /\ op'[p].status = "pending"
      /\ op'[p].kind = op[p].kind /\ op'[p].target = op[p].target
      /\ op'[p].cmd = op[p].cmd /\ op'[p].attempts = op[p].attempts
  <2>1. op'[p] = [op[p] EXCEPT !.inProgress = TRUE]
    BY <1>1 DEF TypeOK, Progress
  <2>2. QED
    BY <1>1, <2>1 DEF OpRecords
<1>4. TypeOK'
  BY <1>1, <1>2, <1>3 DEF TypeOK
<1>5. OpsConsistent'
  BY <1>2, <1>3 DEF IInv, OpsConsistent, Answered
<1>6. MessagesConsistent'
  <2>1. \A n \in sends \cup wire : n.op \in Ops
    BY <1>1 DEF TypeOK, Messages
  <2>2. QED
    BY <1>2, <1>3, <2>1 DEF IInv, MessagesConsistent
<1>7. TimersMatchPending'
  BY <1>2, <1>3 DEF IInv, TimersMatchPending, Pending
<1>8. TimeoutMeansExhausted'
  BY <1>2, <1>3 DEF IInv, TimeoutMeansExhausted
<1>9. ResolvedWasAccepted'
  BY <1>2, <1>3 DEF IInv, ResolvedWasAccepted, Answered
<1>10. QED
  BY <1>4, <1>5, <1>6, <1>7, <1>8, <1>9 DEF IInv

LEMMA AcceptKeeps ==
  ASSUME IInv, NEW p \in Ops, op[p].status = "pending", Settle({p}, "resolved"),
         Answered(op[p].target.sysid, op[p].cmd, "ACCEPTED"),
         UNCHANGED <<disposed, issued, sends, wire, acks>>
  PROVE  IInv'
<1>1. TypeOK /\ "resolved" \in Statuses
  BY DEF IInv, Statuses
<1> DEFINE Effect(o) ==
      /\ op'[o].status = IF o \in {p} THEN "resolved" ELSE op[o].status
      /\ op'[o].kind = op[o].kind
      /\ op'[o].target = op[o].target
      /\ op'[o].cmd = op[o].cmd
      /\ op'[o].attempts = op[o].attempts
      /\ op'[o].inProgress = op[o].inProgress
<1>2. /\ op' \in [Ops -> OpRecords]
      /\ armed' = armed \ {p}
      /\ listening' = listening \ {p}
      /\ \A o \in Ops : Effect(o)
  BY <1>1, SettleEffect
<1>3. TypeOK'
  BY <1>1, <1>2 DEF TypeOK
<1>4. OpsConsistent'
  BY <1>2 DEF IInv, OpsConsistent, Answered
<1>5. MessagesConsistent'
  <2>1. \A n \in sends \cup wire : n.op \in Ops
    BY <1>1 DEF TypeOK, Messages
  <2>2. QED
    BY <1>2, <2>1 DEF IInv, MessagesConsistent
<1>6. TimersMatchPending'
  BY <1>2 DEF IInv, TimersMatchPending, Pending
<1>7. TimeoutMeansExhausted'
  BY <1>2 DEF IInv, TimeoutMeansExhausted
<1>8. ResolvedWasAccepted'
  BY <1>2 DEF IInv, ResolvedWasAccepted, Answered
<1>9. QED
  BY <1>3, <1>4, <1>5, <1>6, <1>7, <1>8 DEF IInv

LEMMA FallBackKeeps ==
  ASSUME IInv, NEW p \in Ops, op[p].status = "pending", op[p].kind = "mode",
         Answered(op[p].target.sysid, op[p].cmd, "UNSUPPORTED"),
         FallBack(p), UNCHANGED <<disposed, issued, wire, acks>>
  PROVE  IInv'
<1> DEFINE msg == OneWayMessage(p, op[p].target, op[p].cmd)
<1>1. TypeOK /\ "legacy" \in Statuses /\ op[p] \in OpRecords /\ op[p].target \in Targets
  BY DEF IInv, Statuses, TypeOK, OpsConsistent
<1> DEFINE Effect(o) ==
      /\ op'[o].status = IF o \in {p} THEN "legacy" ELSE op[o].status
      /\ op'[o].kind = op[o].kind
      /\ op'[o].target = op[o].target
      /\ op'[o].cmd = op[o].cmd
      /\ op'[o].attempts = op[o].attempts
      /\ op'[o].inProgress = op[o].inProgress
<1>2. /\ op' \in [Ops -> OpRecords]
      /\ armed' = armed \ {p}
      /\ listening' = listening \ {p}
      /\ \A o \in Ops : Effect(o)
  BY <1>1, SettleEffect DEF FallBack
<1>3. /\ msg \in Messages /\ msg.op = p /\ msg.target = op[p].target
      /\ msg.cmd = op[p].cmd /\ msg.confirm = 0
  BY <1>1 DEF OneWayMessage, Messages, OpRecords
<1>4. sends' = sends \cup {msg}
  BY DEF FallBack
<1> HIDE DEF msg
<1>5. TypeOK'
  BY <1>1, <1>2, <1>3, <1>4 DEF TypeOK
<1>6. OpsConsistent'
  BY <1>1, <1>2 DEF IInv, OpsConsistent, Answered
<1>7. MessagesConsistent'
  <2>1. \A n \in sends \cup wire : n.op \in Ops
    BY <1>1 DEF TypeOK, Messages
  <2>2. 0 < MaxAttempts
    BY CommandAssumption
  <2>3. QED
    BY <1>2, <1>3, <1>4, <2>1, <2>2 DEF IInv, MessagesConsistent
<1>8. TimersMatchPending'
  BY <1>2 DEF IInv, TimersMatchPending, Pending
<1>9. TimeoutMeansExhausted'
  BY <1>2 DEF IInv, TimeoutMeansExhausted
<1>10. ResolvedWasAccepted'
  BY <1>2 DEF IInv, ResolvedWasAccepted, Answered
<1>11. QED
  BY <1>5, <1>6, <1>7, <1>8, <1>9, <1>10 DEF IInv

\* Nothing changed but the acknowledgements, and none was lost.
LEMMA AcksGrow ==
  ASSUME IInv, UNCHANGED <<disposed, op, issued, armed, listening, sends, wire>>,
         acks \subseteq acks', acks' \subseteq Acks
  PROVE  IInv'
<1>1. TypeOK' /\ TimersMatchPending' /\ TimeoutMeansExhausted' /\ MessagesConsistent'
  BY DEF IInv, TypeOK, TimersMatchPending, TimeoutMeansExhausted, MessagesConsistent, Pending
<1>2. OpsConsistent'
  BY DEF IInv, OpsConsistent, Answered
<1>3. ResolvedWasAccepted'
  BY DEF IInv, ResolvedWasAccepted, Answered
<1>4. QED
  BY <1>1, <1>2, <1>3 DEF IInv

LEMMA OnAckKeeps ==
  ASSUME IInv, NEW a \in acks, OnAck(a)
  PROVE  IInv'
<1> DEFINE Reaction(p) ==
      CASE a.result = "IN_PROGRESS" -> Progress(p)
        [] a.result = "ACCEPTED" -> Settle({p}, "resolved") /\ UNCHANGED sends
        [] a.result = "TEMPORARILY_REJECTED" -> UNCHANGED <<op, armed, listening, sends>>
        [] a.result = "UNSUPPORTED" /\ op[p].kind = "mode" -> FallBack(p)
        [] OTHER -> Settle({p}, "rejected") /\ UNCHANGED sends
<1>1. PICK p \in Correlated(a) : Reaction(p)
  BY DEF OnAck
<1>2. /\ p \in Ops /\ op[p].status = "pending"
      /\ op[p].cmd = a.cmd /\ op[p].target.sysid = a.sysid
  BY CorrelatedIsCandidate
<1>3. UNCHANGED <<disposed, issued, wire, acks>>
  BY DEF OnAck
<1>4. Answered(op[p].target.sysid, op[p].cmd, a.result)
  BY <1>2 DEF Answered
<1>5. CASE a.result = "IN_PROGRESS"
  BY <1>1, <1>2, <1>3, <1>5, ProgressKeeps
<1>6. CASE a.result = "ACCEPTED"
  <2>1. Settle({p}, "resolved") /\ UNCHANGED sends
    BY <1>1, <1>6
  <2>2. QED
    BY <1>2, <1>3, <1>4, <1>6, <2>1, AcceptKeeps
<1>7. CASE a.result = "TEMPORARILY_REJECTED"
  <2>1. UNCHANGED <<op, armed, listening, sends>>
    BY <1>1, <1>7
  <2>2. acks' \subseteq Acks
    BY <1>3 DEF IInv, TypeOK
  <2>3. QED
    BY <1>3, <2>1, <2>2, AcksGrow
<1>8. CASE a.result = "UNSUPPORTED" /\ op[p].kind = "mode"
  <2>1. FallBack(p)
    BY <1>1, <1>8
  <2>2. QED
    BY <1>2, <1>3, <1>4, <1>8, <2>1, FallBackKeeps
<1>9. CASE /\ a.result \notin {"IN_PROGRESS", "ACCEPTED", "TEMPORARILY_REJECTED"}
           /\ ~(a.result = "UNSUPPORTED" /\ op[p].kind = "mode")
  <2>1. Settle({p}, "rejected") /\ UNCHANGED sends
    BY <1>1, <1>9
  <2>2. \A n \in sends' : n.oneway => n.op \notin {p}
    BY <1>2, <2>1 DEF IInv, MessagesConsistent
  <2>3. disposed' \in BOOLEAN /\ "rejected" \in Rejections /\ "rejected" # "timeout"
    BY <1>3 DEF IInv, TypeOK, Rejections
  <2>4. QED
    BY <1>2, <1>3, <2>1, <2>2, <2>3, SettleFailure
<1>10. QED
  BY <1>5, <1>6, <1>7, <1>8, <1>9

LEMMA VehicleAnswersKeeps ==
  ASSUME IInv, NEW m \in wire, NEW comp \in Components, NEW r \in Results,
         VehicleAnswers(m, comp, r)
  PROVE  IInv'
<1>1. m \in Messages
  BY DEF IInv, TypeOK
<1>2. [sysid |-> m.target.sysid, compid |-> comp, cmd |-> m.cmd, result |-> r] \in Acks
  BY <1>1 DEF Messages, Targets, Acks
<1>3. acks \subseteq acks' /\ acks' \subseteq Acks
  BY <1>2 DEF VehicleAnswers, IInv, TypeOK
<1>4. QED
  BY <1>3, AcksGrow DEF VehicleAnswers

-----------------------------------------------------------------------------

\* Every step of the client, the link and the vehicles keeps the invariant.
LEMMA NextKeeps ==
  ASSUME IInv, [Next]_vars
  PROVE  IInv'
<1>1. CASE UNCHANGED vars
  <2>1. acks' \subseteq Acks
    BY <1>1 DEF vars, IInv, TypeOK
  <2>2. QED
    BY <1>1, <2>1, AcksGrow DEF vars
<1>2. CASE \E o \in Ops : Enter(o)
  <2>1. PICK o \in Ops : Enter(o)
    BY <1>2
  <2>2. CASE \E k \in Kinds, t \in Targets \cup {None} : Refuse(o, k, t)
    BY <2>2, RefuseKeeps
  <2>3. CASE \E k \in {"send", "mode"}, c \in Commands, t \in Targets, s \in BOOLEAN :
               Send(o, k, c, t, s)
    BY <2>3, SendKeeps
  <2>4. CASE \E c \in Commands, t \in Targets : SendOneWay(o, c, t)
    BY <2>4, SendOneWayKeeps
  <2>5. QED
    BY <2>1, <2>2, <2>3, <2>4 DEF Enter
<1>3. CASE \E o \in Ops : Tick(o) \/ Abort(o)
  BY <1>3, TickKeeps, AbortKeeps
<1>4. CASE \E m \in sends : SendDone(m) \/ SendFailed(m)
  BY <1>4, SendDoneKeeps, SendFailedKeeps
<1>5. CASE \E a \in acks : OnAck(a)
  BY <1>5, OnAckKeeps
<1>6. CASE \E m \in wire, comp \in Components, r \in Results : VehicleAnswers(m, comp, r)
  BY <1>6, VehicleAnswersKeeps
<1>7. CASE Dispose
  BY <1>7, DisposeKeeps
<1>8. QED
  BY <1>1, <1>2, <1>3, <1>4, <1>5, <1>6, <1>7 DEF Next

\* The inductive invariant holds in every reachable state.
THEOREM Invariance == Spec => []IInv
<1>1. Init => IInv
  BY InitIInv
<1>2. IInv /\ [Next]_vars => IInv'
  BY NextKeeps
<1>3. QED
  BY <1>1, <1>2, PTL DEF Spec

\* Every record of CommandClient keeps its type: in particular every message on
\* the link has a target, whichever vehicle is active.
THEOREM TypeCorrect == Spec => []TypeOK
<1>1. IInv => TypeOK
  BY DEF IInv
<1>2. QED
  BY <1>1, Invariance, PTL

\* However many calls, vehicles and commands there are, "done" is reported only
\* for a command its vehicle accepted (onAck's correlation).
THEOREM ResolvedOnlyIfAccepted == Spec => []ResolvedWasAccepted
<1>1. IInv => ResolvedWasAccepted
  BY DEF IInv
<1>2. QED
  BY <1>1, Invariance, PTL

\* Resends never exceed maxAttempts and never change their addressee (transmit,
\* tick, the legacy fallback of setMode).
THEOREM TransmissionsBounded == Spec => []TransmissionsBoundedAndAddressed
<1>1. IInv => TransmissionsBoundedAndAddressed
  BY DEF IInv, MessagesConsistent, TransmissionsBoundedAndAddressed
<1>2. QED
  BY <1>1, Invariance, PTL

\* The running timers are those of the pending calls: none hangs, none leaks.
THEOREM NoTimerLeaks == Spec => []TimersMatchPending
<1>1. IInv => TimersMatchPending
  BY DEF IInv
<1>2. QED
  BY <1>1, Invariance, PTL

\* A timeout is reported only after all transmissions, or after IN_PROGRESS.
THEOREM TimeoutIsHonest == Spec => []TimeoutMeansExhausted
<1>1. IInv => TimeoutMeansExhausted
  BY DEF IInv
<1>2. QED
  BY <1>1, Invariance, PTL

-----------------------------------------------------------------------------

\* Settling calls that are open leaves the calls that ended alone.
LEMMA SettleOpenOnly ==
  ASSUME TypeOK, NEW S \in SUBSET Ops, NEW outcome, Settle(S, outcome),
         \A o \in S : op[o].status \in {"pending", "legacy"}
  PROVE  \A o \in Ops : op[o].status \in Settled => op'[o] = op[o]
BY DEF Settle, Settled, Rejections

\* Changing one open call, or one that was never made, does too.
LEMMA ChangeOneOnly ==
  ASSUME NEW p \in Ops, op[p].status \notin Settled,
         \A o \in Ops \ {p} : op'[o] = op[o]
  PROVE  \A o \in Ops : op[o].status \in Settled => op'[o] = op[o]
OBVIOUS

\* Of a matched acknowledgement, whatever its result, only an open call hears.
LEMMA OnAckSettlesOnce ==
  ASSUME TypeOK, NEW a \in acks, OnAck(a)
  PROVE  \A o \in Ops : op[o].status \in Settled => op'[o] = op[o]
<1>1. PICK p \in Correlated(a) :
         CASE a.result = "IN_PROGRESS" -> Progress(p)
           [] a.result = "ACCEPTED" -> Settle({p}, "resolved") /\ UNCHANGED sends
           [] a.result = "TEMPORARILY_REJECTED" -> UNCHANGED <<op, armed, listening, sends>>
           [] a.result = "UNSUPPORTED" /\ op[p].kind = "mode" -> FallBack(p)
           [] OTHER -> Settle({p}, "rejected") /\ UNCHANGED sends
  BY DEF OnAck
<1>2. p \in Ops /\ op[p].status = "pending"
  BY CorrelatedIsCandidate
<1>3. \/ Progress(p)
      \/ \E outcome \in {"resolved", "legacy", "rejected"} : Settle({p}, outcome)
      \/ UNCHANGED op
  BY <1>1 DEF FallBack
<1>4. CASE Progress(p)
  <2>1. \A o \in Ops \ {p} : op'[o] = op[o]
    BY <1>4 DEF Progress, TypeOK
  <2>2. op[p].status \notin Settled
    BY <1>2 DEF Settled, Rejections
  <2>3. QED
    BY <1>2, <2>1, <2>2, ChangeOneOnly
<1>5. CASE \E outcome \in {"resolved", "legacy", "rejected"} : Settle({p}, outcome)
  BY <1>2, <1>5, SettleOpenOnly
<1>6. QED
  BY <1>3, <1>4, <1>5

\* A worker's answer to a message ends at most the one call that waits for it.
LEMMA SendAnswerSettlesOnce ==
  ASSUME IInv, NEW m \in sends, SendDone(m) \/ SendFailed(m)
  PROVE  \A o \in Ops : op[o].status \in Settled => op'[o] = op[o]
<1>1. TypeOK /\ m.op \in Ops /\ (m.oneway => op[m.op].status = "legacy")
  BY DEF IInv, TypeOK, Messages, MessagesConsistent
<1>2. CASE SendDone(m)
  <2>1. CASE m.oneway
    <3>1. \A o \in Ops \ {m.op} : op'[o] = op[o]
      BY <1>1, <1>2, <2>1 DEF SendDone, TypeOK
    <3>2. op[m.op].status \notin Settled
      BY <1>1, <2>1 DEF Settled, Rejections
    <3>3. QED
      BY <1>1, <3>1, <3>2, ChangeOneOnly
  <2>2. CASE ~m.oneway
    BY <1>2, <2>2 DEF SendDone
  <2>3. QED
    BY <2>1, <2>2
<1>3. CASE SendFailed(m)
  <2> DEFINE S == IF m.oneway \/ m.op \in Pending THEN {m.op} ELSE {}
  <2>1. S \in SUBSET Ops /\ \A o \in S : op[o].status \in {"pending", "legacy"}
    BY <1>1 DEF Pending
  <2>2. Settle(S, "send-failed")
    BY <1>3 DEF SendFailed
  <2>3. QED
    BY <1>1, <2>1, <2>2, SettleOpenOnly
<1>4. QED
  BY <1>2, <1>3

\* A step of a timer, an abort or a new call leaves the ended calls alone.
LEMMA CallStepSettlesOnce ==
  ASSUME IInv, NEW p \in Ops, Enter(p) \/ Tick(p) \/ Abort(p)
  PROVE  \A o \in Ops : op[o].status \in Settled => op'[o] = op[o]
<1>1. TypeOK /\ armed = Pending /\ listening \subseteq Pending
  BY DEF IInv, TimersMatchPending
<1>2. CASE Enter(p)
  <2>1. op[p].status = "idle" /\ \A o \in Ops \ {p} : op'[o] = op[o]
    <3>1. CASE \E k \in Kinds, t \in Targets \cup {None} : Refuse(p, k, t)
      BY <1>1, <3>1 DEF Refuse, TypeOK
    <3>2. CASE \E k \in {"send", "mode"}, c \in Commands, t \in Targets, s \in BOOLEAN :
                 Send(p, k, c, t, s)
      BY <1>1, <3>2 DEF Send, TypeOK
    <3>3. CASE \E c \in Commands, t \in Targets : SendOneWay(p, c, t)
      BY <1>1, <3>3 DEF SendOneWay, TypeOK
    <3>4. QED
      BY <1>2, <3>1, <3>2, <3>3 DEF Enter
  <2>2. op[p].status \notin Settled
    BY <2>1 DEF Settled, Rejections
  <2>3. QED
    BY <2>1, <2>2, ChangeOneOnly
<1>3. CASE Tick(p)
  <2>1. op[p].status = "pending"
    BY <1>1, <1>3 DEF Tick, TickWithLimit, Pending
  <2>2. CASE Settle({p}, "timeout")
    BY <1>1, <2>1, <2>2, SettleOpenOnly
  <2>3. CASE op' = [op EXCEPT ![p].attempts = @ + 1]
    <3>1. \A o \in Ops \ {p} : op'[o] = op[o]
      BY <1>1, <2>3 DEF TypeOK
    <3>2. op[p].status \notin Settled
      BY <2>1 DEF Settled, Rejections
    <3>3. QED
      BY <1>1, <3>1, <3>2, ChangeOneOnly
  <2>4. QED
    BY <1>3, <2>2, <2>3 DEF Tick, TickWithLimit
<1>4. CASE Abort(p)
  <2>1. op[p].status = "pending" /\ Settle({p}, "aborted")
    BY <1>1, <1>4 DEF Abort, Pending
  <2>2. QED
    BY <1>1, <2>1, SettleOpenOnly
<1>5. QED
  BY <1>2, <1>3, <1>4

\* A promise settles once, for any number of calls: the settled flag of settle()
\* and the single owner of a one-way message leave an ended call alone.
THEOREM SettledOnce == Spec => SettledForever
<1> DEFINE Once == \A o \in Ops : op[o].status \in Settled => op'[o] = op[o]
<1>1. ASSUME IInv, [Next]_vars
      PROVE  Once
  <2>1. CASE UNCHANGED vars
    BY <2>1 DEF vars
  <2>2. CASE \E o \in Ops : Enter(o) \/ Tick(o) \/ Abort(o)
    BY <1>1, <2>2, CallStepSettlesOnce
  <2>3. CASE \E m \in sends : SendDone(m) \/ SendFailed(m)
    BY <1>1, <2>3, SendAnswerSettlesOnce
  <2>4. CASE \E a \in acks : OnAck(a)
    BY <1>1, <2>4, OnAckSettlesOnce DEF IInv
  <2>5. CASE \E m \in wire, comp \in Components, r \in Results : VehicleAnswers(m, comp, r)
    BY <2>5 DEF VehicleAnswers
  <2>6. CASE Dispose
    <3>1. Pending \in SUBSET Ops /\ \A o \in Pending : op[o].status = "pending"
      BY DEF Pending
    <3>2. Settle(Pending, "aborted")
      BY <2>6 DEF Dispose
    <3>3. QED
      BY <1>1, <3>1, <3>2, SettleOpenOnly DEF IInv
  <2>7. QED
    BY <1>1, <2>1, <2>2, <2>3, <2>4, <2>5, <2>6 DEF Next
<1>2. QED
  BY <1>1, Invariance, PTL DEF Spec, SettledForever

-----------------------------------------------------------------------------
(***************************************************************************)
(* CommandClient implements OneShotCalls, for any number of calls,         *)
(* vehicles and commands: every step of the client, the link and the       *)
(* vehicles is a step of the abstract calls, or leaves them as they are.   *)
(***************************************************************************)

\* Targets and commands are kept: so are the abstract keys.
KeepsKeys == \A o \in Ops : op'[o].target = op[o].target /\ op'[o].cmd = op[o].cmd

USE CommandAssumption

\* The calls of S, and no others, take the status st.
Moves(S, st) ==
    \A o \in Ops : op'[o].status = IF o \in S THEN st ELSE op[o].status

LEMMA KeysKept ==
  ASSUME KeepsKeys
  PROVE  UNCHANGED CallKey
BY DEF KeepsKeys, CallKey

LEMMA StatusKept ==
  ASSUME Moves({}, "idle")
  PROVE  UNCHANGED CallStatus
BY DEF Moves, CallStatus

LEMMA StatusMoved ==
  ASSUME NEW S \in SUBSET Ops, NEW st, Moves(S, st)
  PROVE  CallStatus' = [o \in Ops |-> IF o \in S THEN AbstractStatus(st) ELSE CallStatus[o]]
BY DEF Moves, CallStatus

LEMMA StatusValues ==
  /\ AbstractStatus("idle") = "idle"
  /\ AbstractStatus("pending") = "open"
  /\ AbstractStatus("legacy") = "open"
  /\ AbstractStatus("resolved") = "ok"
  /\ \A why \in Rejections : AbstractStatus(why) = "failed"
BY DEF AbstractStatus, Rejections

\* settle() moves its calls and keeps their keys.
LEMMA SettleMoves ==
  ASSUME TypeOK, NEW S \in SUBSET Ops, NEW outcome, Settle(S, outcome)
  PROVE  Moves(S, outcome) /\ KeepsKeys
<1>1. \A o \in Ops : op[o] \in OpRecords
  BY DEF TypeOK
<1>2. \A o \in S : op'[o] = [op[o] EXCEPT !.status = outcome]
  BY DEF Settle
<1>3. \A o \in Ops \ S : op'[o] = op[o]
  BY DEF Settle
<1>4. \A o \in S : op'[o].status = outcome /\ op'[o].target = op[o].target
                   /\ op'[o].cmd = op[o].cmd
  BY <1>1, <1>2 DEF OpRecords
<1>5. QED
  BY <1>3, <1>4 DEF Moves, KeepsKeys

\* Calls that are open and fail together are given up.
LEMMA FailureIsGiveUp ==
  ASSUME TypeOK, NEW S \in SUBSET Ops, S # {}, NEW why \in Rejections, Settle(S, why),
         \A o \in S : op[o].status \in {"pending", "legacy"}, UNCHANGED <<wire, acks>>
  PROVE  Abstract!GiveUp(S)
<1>1. Moves(S, why) /\ KeepsKeys
  BY SettleMoves
<1>2. UNCHANGED <<CallKey, Granted>>
  BY <1>1, KeysKept DEF Granted
<1>3. CallStatus' = [o \in Ops |-> IF o \in S THEN "failed" ELSE CallStatus[o]]
  BY <1>1, StatusMoved, StatusValues
<1>4. \A o \in S : CallStatus[o] = "open"
  BY StatusValues DEF CallStatus
<1>5. QED
  BY <1>2, <1>3, <1>4 DEF Abstract!GiveUp, Abstract!Move

LEMMA RefuseRefines ==
  ASSUME TypeOK, NEW o \in Ops, NEW k \in Kinds, NEW t, Refuse(o, k, t)
  PROVE  Abstract!Refuse(o)
<1>1. PICK why \in Refusals(k, t) : op' = [op EXCEPT ![o].status = why, ![o].kind = k]
  BY DEF Refuse
<1>2. why \in Rejections /\ op[o].status = "idle"
  BY DEF Refuse, Refusals, Rejections, Kinds
<1>3. Moves({o}, why) /\ KeepsKeys
  BY <1>1 DEF TypeOK, OpRecords, Moves, KeepsKeys
<1>4. CallStatus' = [c \in Ops |-> IF c \in {o} THEN "failed" ELSE CallStatus[c]]
  <2>1. AbstractStatus(why) = "failed"
    BY <1>2, StatusValues
  <2>2. CallStatus' = [c \in Ops |-> IF c \in {o} THEN AbstractStatus(why) ELSE CallStatus[c]]
    BY <1>3, StatusMoved
  <2>3. QED
    BY <2>1, <2>2
<1>5. UNCHANGED <<CallKey, Granted>>
  BY <1>3, KeysKept DEF Refuse, Granted
<1>6. CallStatus[o] = "idle"
  BY <1>2, StatusValues DEF CallStatus
<1>7. QED
  BY <1>4, <1>5, <1>6 DEF Abstract!Refuse, Abstract!Move

\* A call that enters the client, with a message of its own, is issued.
LEMMA IssueRefines ==
  ASSUME TypeOK, NEW o \in Ops, NEW c \in Commands, NEW t \in Targets,
         op[o].status = "idle",
         op'[o].status \in {"pending", "legacy"}, op'[o].target = t, op'[o].cmd = c,
         \A p \in Ops \ {o} : op'[p] = op[p], UNCHANGED <<wire, acks>>
  PROVE  \E k \in (Systems \cup {None}) \X Commands : Abstract!Issue(o, k)
<1> DEFINE k == <<t.sysid, c>>
<1>1. k \in (Systems \cup {None}) \X Commands
  BY DEF Targets
<1>2. KeyOf(t, c) = k
  BY DEF KeyOf
<1>3. CallKey' = [CallKey EXCEPT ![o] = k]
  BY <1>2 DEF CallKey
<1>4. PICK st \in {"pending", "legacy"} : Moves({o}, st)
  BY DEF Moves
<1>5. CallStatus' = [p \in Ops |-> IF p \in {o} THEN "open" ELSE CallStatus[p]]
  BY <1>4, StatusMoved, StatusValues
<1>6. CallStatus[o] = "idle" /\ UNCHANGED Granted
  BY StatusValues DEF CallStatus, Granted
<1>7. QED
  BY <1>1, <1>3, <1>5, <1>6 DEF Abstract!Issue, Abstract!Move

\* Nothing the abstract calls see has changed.
LEMMA NothingMoved ==
  ASSUME \A o \in Ops : op'[o].status = op[o].status, KeepsKeys, UNCHANGED Granted
  PROVE  UNCHANGED Abstract!vars
<1>1. UNCHANGED <<CallStatus, CallKey>>
  BY StatusKept, KeysKept DEF Moves
<1>2. QED
  BY <1>1 DEF Abstract!vars

\* The worker took a message: a one-way call is completed, and granted by that.
LEMMA SendDoneRefines ==
  ASSUME IInv, NEW m \in sends, SendDone(m)
  PROVE  (\E o \in Ops : Abstract!Complete(o)) \/ UNCHANGED Abstract!vars
<1>1. m \in Messages /\ m.op \in Ops /\ TypeOK
  BY DEF IInv, TypeOK, Messages
<1>2. wire' = wire \cup {m} /\ UNCHANGED acks
  BY DEF SendDone
<1>3. CASE ~m.oneway
  <2>1. UNCHANGED Granted
    BY <1>2, <1>3 DEF Granted
  <2>2. UNCHANGED op
    BY <1>3 DEF SendDone
  <2>3. QED
    BY <2>1, <2>2, NothingMoved DEF KeepsKeys
<1>4. CASE m.oneway
  <2>1. op[m.op].status = "legacy" /\ op[m.op].target \in Targets
        /\ m.target = op[m.op].target /\ m.cmd = op[m.op].cmd
    BY <1>1, <1>4 DEF IInv, MessagesConsistent, OpsConsistent
  <2>2. op' = [op EXCEPT ![m.op].status = "resolved"]
    BY <1>4 DEF SendDone
  <2>3. Moves({m.op}, "resolved") /\ KeepsKeys
    BY <1>1, <2>2 DEF TypeOK, OpRecords, Moves, KeepsKeys
  <2>4. CallStatus' = [o \in Ops |-> IF o \in {m.op} THEN "ok" ELSE CallStatus[o]]
    <3>1. CallStatus' =
            [o \in Ops |-> IF o \in {m.op} THEN AbstractStatus("resolved") ELSE CallStatus[o]]
      BY <1>1, <2>3, StatusMoved
    <3>2. QED
      BY <3>1, StatusValues
  <2>5. CallStatus[m.op] = "open"
    BY <1>1, <2>1, StatusValues DEF CallStatus
  <2>6. CallKey[m.op] = <<m.target.sysid, m.cmd>>
    BY <1>1, <2>1 DEF CallKey, KeyOf
  <2>7. Granted' = Granted \cup {<<m.target.sysid, m.cmd>>}
    BY <1>2, <1>4 DEF Granted
  <2>8. UNCHANGED CallKey
    BY <2>3, KeysKept
  <2>9. Granted' = Granted \cup {CallKey[m.op]} /\ CallKey[m.op] \in Granted'
    BY <2>6, <2>7
  <2>10. Abstract!Complete(m.op)
    BY <2>4, <2>5, <2>8, <2>9 DEF Abstract!Complete, Abstract!Move
  <2>11. QED
    BY <1>1, <2>10
<1>5. QED
  BY <1>3, <1>4

\* The calls that a step gives up, if any.
LEMMA FailuresRefine ==
  ASSUME TypeOK, NEW S \in SUBSET Ops, NEW why \in Rejections, Settle(S, why),
         \A o \in S : op[o].status \in {"pending", "legacy"}, UNCHANGED <<wire, acks>>
  PROVE  (\E T \in SUBSET Ops : Abstract!GiveUp(T)) \/ UNCHANGED Abstract!vars
<1>1. CASE S = {}
  <2>1. Moves(S, why) /\ KeepsKeys
    BY SettleMoves
  <2>2. UNCHANGED Granted
    BY DEF Granted
  <2>3. QED
    BY <1>1, <2>1, <2>2, NothingMoved DEF Moves
<1>2. CASE S # {}
  BY <1>2, FailureIsGiveUp
<1>3. QED
  BY <1>1, <1>2

LEMMA TickRefines ==
  ASSUME IInv, NEW o \in Ops, Tick(o)
  PROVE  (\E T \in SUBSET Ops : Abstract!GiveUp(T)) \/ UNCHANGED Abstract!vars
<1>1. TypeOK /\ op[o].status = "pending" /\ UNCHANGED <<wire, acks>>
  BY DEF IInv, TimersMatchPending, Pending, Tick, TickWithLimit
<1>2. CASE Settle({o}, "timeout")
  BY <1>1, <1>2, FailuresRefine DEF Rejections
<1>3. CASE op' = [op EXCEPT ![o].attempts = @ + 1]
  <2>1. (\A p \in Ops : op'[p].status = op[p].status) /\ KeepsKeys
    BY <1>1, <1>3 DEF TypeOK, OpRecords, KeepsKeys
  <2>2. QED
    BY <1>1, <2>1, NothingMoved DEF Granted
<1>4. QED
  BY <1>2, <1>3 DEF Tick, TickWithLimit

\* The vehicle of a matched acknowledgement is the one its call is addressed to.
LEMMA OnAckRefines ==
  ASSUME IInv, NEW a \in acks, OnAck(a)
  PROVE  \/ \E o \in Ops : Abstract!Complete(o)
         \/ \E T \in SUBSET Ops : Abstract!GiveUp(T)
         \/ UNCHANGED Abstract!vars
<1>1. PICK p \in Correlated(a) :
         CASE a.result = "IN_PROGRESS" -> Progress(p)
           [] a.result = "ACCEPTED" -> Settle({p}, "resolved") /\ UNCHANGED sends
           [] a.result = "TEMPORARILY_REJECTED" -> UNCHANGED <<op, armed, listening, sends>>
           [] a.result = "UNSUPPORTED" /\ op[p].kind = "mode" -> FallBack(p)
           [] OTHER -> Settle({p}, "rejected") /\ UNCHANGED sends
  BY DEF OnAck
<1>2. p \in Ops /\ op[p].status = "pending" /\ op[p].cmd = a.cmd /\ op[p].target.sysid = a.sysid
  BY CorrelatedIsCandidate
<1>3. TypeOK /\ op[p].target \in Targets /\ UNCHANGED <<wire, acks>>
  BY <1>2 DEF OnAck, IInv, OpsConsistent
<1>4. UNCHANGED Granted
  BY <1>3 DEF Granted
<1>5. CASE Progress(p) \/ UNCHANGED op
  <2>1. (\A o \in Ops : op'[o].status = op[o].status) /\ KeepsKeys
    BY <1>2, <1>3, <1>5 DEF Progress, TypeOK, OpRecords, KeepsKeys
  <2>2. QED
    BY <1>4, <2>1, NothingMoved
<1>6. CASE a.result = "ACCEPTED" /\ Settle({p}, "resolved")
  <2>1. Moves({p}, "resolved") /\ KeepsKeys
    BY <1>2, <1>3, <1>6, SettleMoves
  <2>2. CallStatus' = [o \in Ops |-> IF o \in {p} THEN "ok" ELSE CallStatus[o]]
    BY <1>2, <2>1, StatusMoved, StatusValues
  <2>3. CallStatus[p] = "open"
    BY <1>2, StatusValues DEF CallStatus
  <2>4. CallKey[p] = <<a.sysid, a.cmd>>
    BY <1>2, <1>3 DEF CallKey, KeyOf
  <2>5. <<a.sysid, a.cmd>> \in Granted
    BY <1>6 DEF Granted
  <2>6. Abstract!Complete(p)
    BY <1>4, <2>1, <2>2, <2>3, <2>4, <2>5, KeysKept DEF Abstract!Complete, Abstract!Move
  <2>7. QED
    BY <1>2, <2>6
<1>7. CASE Settle({p}, "legacy")
  <2>1. Moves({p}, "legacy") /\ KeepsKeys
    BY <1>2, <1>3, <1>7, SettleMoves
  <2>2. CallStatus' = [o \in Ops |-> IF o \in {p} THEN "open" ELSE CallStatus[o]]
    <3>1. CallStatus' =
            [o \in Ops |-> IF o \in {p} THEN AbstractStatus("legacy") ELSE CallStatus[o]]
      BY <1>2, <2>1, StatusMoved
    <3>2. QED
      BY <3>1, StatusValues
  <2>3. CallStatus[p] = "open" /\ CallStatus = [o \in Ops |-> CallStatus[o]]
    BY <1>2, StatusValues DEF CallStatus
  <2>4. UNCHANGED CallStatus
    BY <2>2, <2>3
  <2>5. QED
    BY <1>4, <2>1, <2>4, KeysKept DEF Abstract!vars
<1>8. CASE Settle({p}, "rejected")
  <2>1. {p} \in SUBSET Ops /\ {p} # {} /\ "rejected" \in Rejections
    BY <1>2 DEF Rejections
  <2>2. Abstract!GiveUp({p})
    BY <1>2, <1>3, <1>8, <2>1, FailureIsGiveUp
  <2>3. QED
    BY <2>1, <2>2
<1>9. \/ Progress(p) \/ UNCHANGED op
      \/ a.result = "ACCEPTED" /\ Settle({p}, "resolved")
      \/ Settle({p}, "legacy")
      \/ Settle({p}, "rejected")
  BY <1>1 DEF FallBack
<1>10. QED
  BY <1>5, <1>6, <1>7, <1>8, <1>9

\* A vehicle accepts only what some call has asked it for.
LEMMA VehicleAnswersRefines ==
  ASSUME IInv, NEW m \in wire, NEW comp \in Components, NEW r \in Results,
         VehicleAnswers(m, comp, r)
  PROVE  \/ \E k \in (Systems \cup {None}) \X Commands : Abstract!Grant(k)
         \/ UNCHANGED Abstract!vars
<1> DEFINE k == <<m.target.sysid, m.cmd>>
<1> DEFINE a == [sysid |-> m.target.sysid, compid |-> comp, cmd |-> m.cmd, result |-> r]
<1>1. acks' = acks \cup {a} /\ UNCHANGED <<op, wire>>
  BY DEF VehicleAnswers
<1>2. m \in Messages /\ m.op \in Ops /\ TypeOK
  BY DEF IInv, TypeOK, Messages
<1>3. UNCHANGED <<CallStatus, CallKey>>
  BY <1>1 DEF CallStatus, CallKey
<1>4. CASE r = "ACCEPTED"
  <2>1. Granted' = Granted \cup {k}
    <3>1. {b \in acks' : b.result = "ACCEPTED"} = {b \in acks : b.result = "ACCEPTED"} \cup {a}
      BY <1>1, <1>4
    <3>2. a.sysid = m.target.sysid /\ a.cmd = m.cmd
      OBVIOUS
    <3> HIDE DEF a
    <3>3. QED
      BY <1>1, <3>1, <3>2 DEF Granted
  <2>2. k \in (Systems \cup {None}) \X Commands /\ m.target \in Targets
    BY <1>2 DEF Messages, Targets
  <2>3. op[m.op].status # "idle" /\ m.target = op[m.op].target /\ m.cmd = op[m.op].cmd
    BY DEF IInv, MessagesConsistent
  <2>4. op[m.op].status \in Statuses
    BY <1>2 DEF TypeOK, OpRecords
  <2>5. CallStatus[m.op] # "idle"
    BY <1>2, <2>3, <2>4, StatusValues DEF CallStatus, Statuses
  <2>6. CallKey[m.op] = k
    BY <1>2, <2>2, <2>3 DEF CallKey, KeyOf
  <2>7. Abstract!Grant(k)
    BY <1>2, <1>3, <2>1, <2>5, <2>6 DEF Abstract!Grant
  <2>8. QED
    BY <2>2, <2>7
<1>5. CASE r # "ACCEPTED"
  <2>1. UNCHANGED Granted
    BY <1>1, <1>5 DEF Granted
  <2>2. QED
    BY <1>3, <2>1 DEF Abstract!vars
<1>6. QED
  BY <1>4, <1>5

LEMMA InitRefines == Init => Abstract!Init
<1> SUFFICES ASSUME Init PROVE Abstract!Init
  OBVIOUS
<1>1. \A o \in Ops : op[o].status = "idle" /\ op[o].target = None /\ op[o].cmd = ModeCommand
  BY DEF Init
<1>2. CallStatus = [o \in Ops |-> "idle"]
  BY <1>1, StatusValues DEF CallStatus
<1>3. CallKey \in [Ops -> (Systems \cup {None}) \X Commands]
  BY <1>1 DEF CallKey, KeyOf
<1>4. Granted = {}
  BY DEF Init, Granted
<1>5. QED
  BY <1>2, <1>3, <1>4 DEF Abstract!Init

LEMMA EnterRefines ==
  ASSUME IInv, NEW o \in Ops, Enter(o)
  PROVE  \/ Abstract!Refuse(o)
         \/ \E k \in (Systems \cup {None}) \X Commands : Abstract!Issue(o, k)
<1>1. TypeOK
  BY DEF IInv
<1>2. CASE \E k \in Kinds, t \in Targets \cup {None} : Refuse(o, k, t)
  BY <1>1, <1>2, RefuseRefines
<1>3. CASE \E k \in {"send", "mode"}, c \in Commands, t \in Targets, s \in BOOLEAN :
             Send(o, k, c, t, s)
  <2>1. PICK k \in {"send", "mode"}, c \in Commands, t \in Targets, s \in BOOLEAN :
               Send(o, k, c, t, s)
    BY <1>3
  <2>2. op[o].status = "idle" /\ op'[o].status = "pending" /\ op'[o].target = t /\ op'[o].cmd = c
    BY <1>1, <2>1 DEF Send, TypeOK
  <2>3. (\A p \in Ops \ {o} : op'[p] = op[p]) /\ UNCHANGED <<wire, acks>>
    BY <1>1, <2>1 DEF Send, TypeOK
  <2>4. QED
    BY <1>1, <2>1, <2>2, <2>3, IssueRefines
<1>4. CASE \E c \in Commands, t \in Targets : SendOneWay(o, c, t)
  <2>1. PICK c \in Commands, t \in Targets : SendOneWay(o, c, t)
    BY <1>4
  <2>2. op[o].status = "idle" /\ op'[o].status = "legacy" /\ op'[o].target = t /\ op'[o].cmd = c
    BY <1>1, <2>1 DEF SendOneWay, TypeOK, OpRecords
  <2>3. (\A p \in Ops \ {o} : op'[p] = op[p]) /\ UNCHANGED <<wire, acks>>
    BY <1>1, <2>1 DEF SendOneWay, TypeOK
  <2>4. QED
    BY <1>1, <2>1, <2>2, <2>3, IssueRefines
<1>5. QED
  BY <1>2, <1>3, <1>4 DEF Enter

\* The client keeps the promises of OneShotCalls, for any number of calls,
\* vehicles and commands: send, setMode and the one-way helpers with all their
\* retries, fallbacks, failures and late answers hide the link.
THEOREM Refinement == Spec => ImplementsOneShotCalls
<1>1. ASSUME IInv, [Next]_vars
      PROVE  [Abstract!Next]_(Abstract!vars)
  <2>1. CASE UNCHANGED vars
    BY <2>1 DEF vars, Abstract!vars, CallStatus, CallKey, Granted
  <2>2. CASE \E o \in Ops : Enter(o)
    BY <1>1, <2>2, EnterRefines DEF Abstract!Next
  <2>3. CASE \E o \in Ops : Tick(o)
    BY <1>1, <2>3, TickRefines DEF Abstract!Next
  <2>4. CASE \E o \in Ops : Abort(o)
    <3>1. PICK o \in Ops : Abort(o)
      BY <2>4
    <3>2. TypeOK /\ op[o].status = "pending" /\ "aborted" \in Rejections
      BY <1>1, <3>1 DEF Abort, IInv, TimersMatchPending, Pending, Rejections
    <3>3. Settle({o}, "aborted") /\ UNCHANGED <<wire, acks>>
      BY <3>1 DEF Abort
    <3>4. QED
      BY <3>2, <3>3, FailuresRefine DEF Abstract!Next
  <2>5. CASE \E m \in sends : SendDone(m)
    BY <1>1, <2>5, SendDoneRefines DEF Abstract!Next
  <2>6. CASE \E m \in sends : SendFailed(m)
    <3>1. PICK m \in sends : SendFailed(m)
      BY <2>6
    <3> DEFINE S == IF m.oneway \/ m.op \in Pending THEN {m.op} ELSE {}
    <3>2. TypeOK /\ m.op \in Ops /\ (m.oneway => op[m.op].status = "legacy")
      BY <1>1 DEF IInv, TypeOK, Messages, MessagesConsistent
    <3>3. S \in SUBSET Ops /\ \A o \in S : op[o].status \in {"pending", "legacy"}
      BY <3>2 DEF Pending
    <3>4. Settle(S, "send-failed") /\ UNCHANGED <<wire, acks>> /\ "send-failed" \in Rejections
      BY <3>1 DEF SendFailed, Rejections
    <3>5. QED
      BY <3>2, <3>3, <3>4, FailuresRefine DEF Abstract!Next
  <2>7. CASE \E a \in acks : OnAck(a)
    BY <1>1, <2>7, OnAckRefines DEF Abstract!Next
  <2>8. CASE \E m \in wire, comp \in Components, r \in Results : VehicleAnswers(m, comp, r)
    BY <1>1, <2>8, VehicleAnswersRefines DEF Abstract!Next
  <2>9. CASE Dispose
    <3>1. TypeOK /\ "aborted" \in Rejections
      BY <1>1 DEF IInv, Rejections
    <3>2. Pending \in SUBSET Ops /\ \A o \in Pending : op[o].status \in {"pending", "legacy"}
      BY DEF Pending
    <3>3. Settle(Pending, "aborted") /\ UNCHANGED <<wire, acks>>
      BY <2>9 DEF Dispose
    <3>4. QED
      BY <3>1, <3>2, <3>3, FailuresRefine DEF Abstract!Next
  <2>10. QED
    BY <1>1, <2>1, <2>2, <2>3, <2>4, <2>5, <2>6, <2>7, <2>8, <2>9 DEF Next
<1>2. QED
  BY <1>1, InitRefines, Invariance, PTL DEF Spec, ImplementsOneShotCalls, Abstract!Spec
=============================================================================
