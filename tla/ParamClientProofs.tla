-------------------------- MODULE ParamClientProofs --------------------------
(***************************************************************************)
(* Proofs about ParamClient for any number of calls, vehicles, parameters, *)
(* values and resends, and for any interference of other stations.         *)
(***************************************************************************)
EXTENDS ParamClient, FiniteSetTheorems, SequenceTheorems, TLAPS

\* A call in flight has a vehicle to be about.
TargetsKnown == \A o \in Ops : op[o].status = "pending" => op[o].target \in Systems

\* The inductive invariant for the types and the bookkeeping: a confirmation and a
\* failed send name a call through the map of sets, and a tick through the timers.
Books == TypeOK /\ SetsMatchPending /\ TargetsKnown

\* The calls after the calls S have ended, field by field.
LEMMA SettledRecords ==
    ASSUME op \in [Ops -> OpRecords], NEW S, NEW outcome \in Ended, op' = Settled(S, outcome)
    PROVE  /\ op' \in [Ops -> OpRecords]
           /\ \A o \in Ops : op'[o] = IF o \in S THEN [op[o] EXCEPT !.status = outcome] ELSE op[o]
           /\ \A o \in Ops : o \in S => op'[o].status = outcome
           /\ \A o \in Ops : /\ op'[o].call = op[o].call /\ op'[o].name = op[o].name
                             /\ op'[o].target = op[o].target /\ op'[o].value = op[o].value
                             /\ op'[o].total = op[o].total /\ op'[o].received = op[o].received
<1>1. \A o \in Ops : op'[o] = IF o \in S THEN [op[o] EXCEPT !.status = outcome] ELSE op[o]
  BY DEF Settled
<1>2. outcome \in Statuses
  BY DEF Ended, Statuses
<1>3. ASSUME NEW o \in Ops PROVE op'[o] \in OpRecords
  <2>1. op[o] \in OpRecords
    OBVIOUS
  <2>2. [op[o] EXCEPT !.status = outcome] \in OpRecords
    BY <1>2, <2>1 DEF OpRecords
  <2> QED
    BY <1>1, <2>1, <2>2
<1>4. op' \in [Ops -> OpRecords]
  BY <1>3 DEF Settled
<1>5. ASSUME NEW o \in Ops
      PROVE  /\ o \in S => op'[o].status = outcome
             /\ op'[o].call = op[o].call /\ op'[o].name = op[o].name
             /\ op'[o].target = op[o].target /\ op'[o].value = op[o].value
             /\ op'[o].total = op[o].total /\ op'[o].received = op[o].received
  BY <1>1, <1>2 DEF OpRecords
<1> QED
  BY <1>1, <1>4, <1>5

\* Ending calls in flight keeps the books.
LEMMA SettleKeepsBooks ==
    ASSUME Books, NEW S \in SUBSET Pending, NEW outcome \in Ended, Settle(S, outcome)
    PROVE  /\ op' \in [Ops -> OpRecords] /\ armed' \subseteq Ops
           /\ sets' \in [Names -> Ops \cup {None}]
           /\ SetsMatchPending' /\ TargetsKnown'
<1> USE DEF Books
<1>0. op' = Settled(S, outcome) /\ armed' = armed \ S
      /\ sets' = [n \in Names |-> IF sets[n] \in S THEN None ELSE sets[n]]
  BY DEF Settle
<1>1. /\ op' \in [Ops -> OpRecords]
      /\ \A o \in Ops : op'[o] = IF o \in S THEN [op[o] EXCEPT !.status = outcome] ELSE op[o]
      /\ \A o \in Ops : o \in S => op'[o].status = outcome
      /\ \A o \in Ops : /\ op'[o].call = op[o].call /\ op'[o].name = op[o].name
                        /\ op'[o].target = op[o].target /\ op'[o].value = op[o].value
  BY <1>0, SettledRecords DEF TypeOK
<1>2. outcome # "pending"
  BY DEF Ended, Rejections
<1>3. Pending' = Pending \ S
  BY <1>1, <1>2 DEF Pending
<1>4. Fetches' = Fetches \ S
  <2>1. \A o \in Pending : op'[o].call = op[o].call
    BY <1>1 DEF Pending
  <2>2. Fetches' = {o \in Pending \ S : op'[o].call = "fetch"}
    BY <1>3 DEF Fetches
  <2> QED
    BY <2>1, <2>2 DEF Fetches
<1>5. armed' \subseteq Ops /\ sets' \in [Names -> Ops \cup {None}]
  BY <1>0 DEF TypeOK
<1>6. Pending' \ Fetches' = {sets'[n] : n \in Names} \ {None}
  <2>1. Pending' \ Fetches' = ({sets[n] : n \in Names} \ {None}) \ S
    BY <1>3, <1>4 DEF SetsMatchPending
  <2>2. None \notin S
    BY ParamAssumption DEF Pending
  <2> QED
    BY <1>0, <2>1, <2>2
<1>7. \A n \in Names : sets'[n] # None => op'[sets'[n]].name = n
  BY <1>0, <1>1, <1>5 DEF SetsMatchPending
<1>8. SetsMatchPending'
  BY <1>0, <1>3, <1>6, <1>7 DEF SetsMatchPending
<1>9. TargetsKnown'
  BY <1>1, <1>2 DEF TargetsKnown
<1> QED
  BY <1>1, <1>5, <1>8, <1>9

-----------------------------------------------------------------------------
(* The types and the books.                                                *)

LEMMA NamesOfList == List[1] \in Names /\ \A i \in Indices : List[i + 1] \in Names /\ i + 1 \in Nat
<1>1. List \in Seq(Names) /\ List # <<>>
  BY ParamAssumption
<1>2. Len(List) \in Nat /\ DOMAIN List = 1 .. Len(List) /\ Len(List) > 0
  BY <1>1
<1>3. \A i \in Indices : i \in Nat /\ i + 1 \in DOMAIN List
  BY <1>2 DEF Indices
<1> QED
  BY <1>2, <1>3 DEF Names

LEMMA InitBooks == Init => Books
<1> SUFFICES ASSUME Init PROVE Books
  OBVIOUS
<1> USE DEF Init
<1>1. AnyValue \in Values
  BY ParamAssumption DEF AnyValue
<1>2. op \in [Ops -> OpRecords]
  BY <1>1, NamesOfList DEF OpRecords, Statuses
<1>3. size \in [Systems -> 1 .. Len(List)]
  <2>1. Len(List) \in Nat /\ Len(List) > 0
    BY ParamAssumption
  <2> QED
    BY <2>1
<1>4. /\ changes \in 0 .. MaxChanges
      /\ value \in [Systems -> [Names -> Values]]
      /\ held \subseteq Systems \X Names \X Values
  BY ParamAssumption
<1>5. TypeOK
  <2>1. up \in Seq(UpMessages) /\ down \in Seq(DownMessages)
    OBVIOUS
  <2>2. sets \in [Names -> Ops \cup {None}] /\ armed \subseteq Ops /\ disposed \in BOOLEAN
    OBVIOUS
  <2>3. cache \in [Names -> Values \cup {None}] /\ told \in [Names -> Values \cup {None}]
    OBVIOUS
  <2> QED
    BY <1>2, <1>3, <1>4, <2>1, <2>2, <2>3 DEF TypeOK
<1>6. Pending = {} /\ Fetches = {}
  BY DEF Pending, Fetches
<1> QED
  BY <1>5, <1>6 DEF Books, SetsMatchPending, TargetsKnown

\* A request of a call that is in flight is a message to its vehicle.
LEMMA RequestsTyped ==
    ASSUME op' \in [Ops -> OpRecords], NEW o \in Ops, op'[o].target \in Systems
    PROVE  /\ \A kind \in {"LIST", "READ", "SET"}, i \in Indices : UpMessage(kind, o, i) \in UpMessages
           /\ RequestList(o) \in Seq(UpMessages) /\ RequestSet(o) \in Seq(UpMessages)
<1>1. op'[o].name \in Names /\ op'[o].value \in Values
  BY DEF OpRecords
<1>2. \A kind \in {"LIST", "READ", "SET"}, i \in Indices : UpMessage(kind, o, i) \in UpMessages
  BY <1>1 DEF UpMessage, UpMessages
<1>3. 0 \in Indices
  <2>1. Len(List) \in Nat /\ Len(List) > 0
    BY ParamAssumption
  <2> QED
    BY <2>1 DEF Indices
<1> QED
  BY <1>2, <1>3 DEF RequestList, RequestSet

\* The calls are entered: one that is refused, and one that takes a timer.
LEMMA RefuseBooks ==
    ASSUME Books, NEW o \in Ops, NEW call \in {"fetch", "set"}, NEW t \in Systems \cup {None},
           Refuse(o, call, t)
    PROVE  Books'
<1> USE DEF Books
<1>1. PICK why \in {"disposed", "no-target", "aborted"} :
         op' = [op EXCEPT ![o].status = why, ![o].call = call]
  BY DEF Refuse
<1>2. op[o] \in OpRecords /\ op[o].status = "idle"
  BY DEF TypeOK, Refuse
<1>3. [op[o] EXCEPT !.status = why, !.call = call] \in OpRecords
  BY <1>1, <1>2 DEF OpRecords, Statuses, Rejections
<1>4. op' \in [Ops -> OpRecords]
  BY <1>1, <1>3 DEF TypeOK
<1>5. op'[o].status = why /\ \A p \in Ops \ {o} : op'[p] = op[p]
  BY <1>1, <1>2 DEF TypeOK, OpRecords
<1>6. Pending' = Pending /\ o \notin Pending
  BY <1>1, <1>2, <1>5 DEF Pending
<1>7. Fetches' = Fetches
  <2>1. \A p \in Pending : p \in Ops \ {o}
    BY <1>6 DEF Pending
  <2>2. Fetches' = {p \in Pending : op'[p].call = "fetch"}
    BY <1>6 DEF Fetches
  <2> QED
    BY <1>5, <2>1, <2>2 DEF Fetches
<1>8. \A n \in Names : sets[n] # None => sets[n] \in Pending
  BY DEF SetsMatchPending
<1>9. SetsMatchPending'
  <2>1. sets' = sets /\ armed' = armed
    BY DEF Refuse
  <2>2. \A n \in Names : sets[n] # None => op'[sets[n]].name = n
    BY <1>5, <1>6, <1>8 DEF SetsMatchPending, Pending
  <2> QED
    BY <1>6, <1>7, <2>1, <2>2 DEF SetsMatchPending
<1>10. TargetsKnown'
  BY <1>1, <1>5 DEF TargetsKnown
<1>11. TypeOK'
  BY <1>4 DEF TypeOK, Refuse, known, vehicle
<1> QED
  BY <1>9, <1>10, <1>11

\* A call that is refused is over.
LEMMA RefusedIsOver ==
    ASSUME Books, NEW o \in Ops, NEW call, NEW t, Refuse(o, call, t)
    PROVE  op'[o].status \in {"disposed", "no-target", "aborted"}
<1>1. PICK why \in {"disposed", "no-target", "aborted"} :
         op' = [op EXCEPT ![o].status = why, ![o].call = call]
  BY DEF Refuse
<1>2. op[o] \in OpRecords
  BY DEF Books, TypeOK
<1> QED
  BY <1>1, <1>2 DEF Books, TypeOK, OpRecords

LEMMA FetchBooks ==
    ASSUME Books, NEW o \in Ops, NEW t \in Systems, Fetch(o, t)
    PROVE  Books'
<1> USE DEF Books
<1> DEFINE r == [op[o] EXCEPT !.status = "pending", !.call = "fetch", !.target = t]
<1>1. op[o] \in OpRecords /\ op[o].status = "idle" /\ o \notin Pending
  BY DEF TypeOK, Fetch, Pending
<1>2. r \in OpRecords /\ r.status = "pending" /\ r.call = "fetch" /\ r.target = t
  BY <1>1 DEF OpRecords, Statuses
<1>3. op' = [op EXCEPT ![o] = r]
  BY DEF Fetch
<1> HIDE DEF r
<1>4. op' \in [Ops -> OpRecords] /\ op'[o] = r /\ \A p \in Ops \ {o} : op'[p] = op[p]
  BY <1>2, <1>3 DEF TypeOK
<1>5. Pending' = Pending \cup {o}
  BY <1>2, <1>4 DEF Pending
<1>6. Pending' \ Fetches' = Pending \ Fetches
  BY <1>1, <1>2, <1>4, <1>5 DEF Pending, Fetches
<1>7. \A n \in Names : sets[n] # None => sets[n] \in Pending
  BY DEF SetsMatchPending
<1>8. SetsMatchPending'
  <2>1. sets' = sets /\ armed' = armed \cup {o}
    BY DEF Fetch
  <2>2. \A n \in Names : sets[n] # None => op'[sets[n]].name = n
    BY <1>1, <1>4, <1>7 DEF SetsMatchPending, Pending
  <2> QED
    BY <1>5, <1>6, <2>1, <2>2 DEF SetsMatchPending
<1>9. TargetsKnown'
  BY <1>2, <1>4 DEF TargetsKnown
<1>10. up' \in Seq(UpMessages)
  <2>1. RequestList(o) \in Seq(UpMessages)
    BY <1>2, <1>4, RequestsTyped
  <2> QED
    BY <2>1 DEF Fetch, TypeOK
<1>11. TypeOK'
  BY <1>4, <1>10 DEF TypeOK, Fetch, known, vehicle
<1> QED
  BY <1>8, <1>9, <1>11

\* A write supersedes the one in flight of the same name.
LEMMA SetBooks ==
    ASSUME Books, NEW o \in Ops, NEW t \in Systems, NEW n \in Names, NEW x \in Values, Set(o, t, n, x)
    PROVE  Books'
<1> USE DEF Books
<1> DEFINE r == [op[o] EXCEPT !.status = "pending", !.call = "set", !.target = t,
                              !.name = n, !.value = x, !.attempts = 1]
           old == [op[sets[n]] EXCEPT !.status = "aborted"]
<1>1. op[o] \in OpRecords /\ op[o].status = "idle" /\ o \notin Pending
  BY DEF TypeOK, Set, Pending
<1>2. r \in OpRecords /\ r.status = "pending" /\ r.call = "set" /\ r.target = t /\ r.name = n
  BY <1>1 DEF OpRecords, Statuses
<1>3. \A m \in Names : sets[m] # None => sets[m] \in Pending
  BY DEF SetsMatchPending
<1>4. sets[n] # None => /\ sets[n] \in Ops \ {o} /\ old \in OpRecords
                        /\ old.status = "aborted" /\ old.call = op[sets[n]].call
  <2> SUFFICES ASSUME sets[n] # None PROVE sets[n] \in Ops \ {o} /\ old \in OpRecords
                        /\ old.status = "aborted" /\ old.call = op[sets[n]].call
    OBVIOUS
  <2>1. sets[n] \in Ops \ {o} /\ op[sets[n]] \in OpRecords
    BY <1>1, <1>3 DEF Pending, TypeOK
  <2> QED
    BY <2>1 DEF OpRecords, Statuses, Rejections
<1>5. op' = [p \in Ops |-> IF p = o THEN r ELSE IF p = sets[n] THEN old ELSE op[p]]
  BY DEF Set
<1>6. None \notin Ops
  BY ParamAssumption
<1> HIDE DEF r, old
<1>7. op' \in [Ops -> OpRecords]
  BY <1>2, <1>4, <1>5, <1>6 DEF TypeOK
<1>8. op'[o] = r /\ \A p \in Ops \ {o} : op'[p] = IF p = sets[n] THEN old ELSE op[p]
  BY <1>5
<1>9. Pending' = (Pending \ {sets[n]}) \cup {o}
  BY <1>2, <1>4, <1>6, <1>8 DEF Pending
<1>10. Pending' \ Fetches' = ((Pending \ Fetches) \ {sets[n]}) \cup {o}
  <2>1. \A p \in Ops \ {o, sets[n]} : p \in Fetches' <=> p \in Fetches
    BY <1>8, <1>9 DEF Fetches, Pending
  <2>2. o \notin Fetches'
    BY <1>2, <1>8 DEF Fetches
  <2> QED
    BY <1>1, <1>9, <2>1, <2>2 DEF Pending
<1>11. sets' = [sets EXCEPT ![n] = o] /\ armed' = (armed \ {sets[n]}) \cup {o}
  BY DEF Set
<1>12. SetsMatchPending'
  <2>1. \A m \in Names : sets'[m] = IF m = n THEN o ELSE sets[m]
    BY <1>11 DEF TypeOK
  <2>2. \A m \in Names \ {n} : sets[m] # None => sets[m] # sets[n]
    BY DEF SetsMatchPending
  <2>3. {sets'[m] : m \in Names} \ {None} = (({sets[m] : m \in Names} \ {None}) \ {sets[n]}) \cup {o}
    BY <2>1, <2>2, <1>6
  <2>4. \A m \in Names : sets'[m] # None => op'[sets'[m]].name = m
    <3> SUFFICES ASSUME NEW m \in Names \ {n}, sets[m] # None PROVE op'[sets[m]].name = m
      BY <1>2, <1>8, <2>1
    <3>1. sets[m] \in Ops \ {o} /\ sets[m] # sets[n] /\ op[sets[m]].name = m
      BY <1>1, <1>3, <2>2 DEF SetsMatchPending, Pending
    <3> QED
      BY <1>8, <3>1
  <2> QED
    BY <1>9, <1>10, <1>11, <2>3, <2>4 DEF SetsMatchPending
<1>13. TargetsKnown'
  BY <1>2, <1>4, <1>6, <1>8 DEF TargetsKnown
<1>14. up' \in Seq(UpMessages)
  <2>1. RequestSet(o) \in Seq(UpMessages)
    BY <1>2, <1>7, <1>8, RequestsTyped
  <2> QED
    BY <2>1 DEF Set, TypeOK
<1>15. sets' \in [Names -> Ops \cup {None}] /\ armed' \subseteq Ops
  BY <1>11 DEF TypeOK
<1>16. TypeOK'
  BY <1>7, <1>14, <1>15 DEF TypeOK, Set, known, vehicle
<1> QED
  BY <1>12, <1>13, <1>16

\* The calls end: by an abort, by disposal, by a send that failed.
LEMMA AbortBooks == ASSUME Books, NEW o \in Ops, Abort(o) PROVE Books'
<1>1. {o} \in SUBSET Pending /\ "aborted" \in Ended
  BY DEF Abort, Fetches, Ended, Rejections
<1>2. /\ op' \in [Ops -> OpRecords] /\ armed' \subseteq Ops
      /\ sets' \in [Names -> Ops \cup {None}] /\ SetsMatchPending' /\ TargetsKnown'
  BY <1>1, SettleKeepsBooks DEF Abort
<1> QED
  BY <1>2 DEF Books, TypeOK, Abort, known, vehicle

LEMMA DisposeBooks == ASSUME Books, Dispose PROVE Books'
<1>1. Pending \in SUBSET Pending /\ "disposed" \in Ended
  BY DEF Ended, Rejections
<1>2. /\ op' \in [Ops -> OpRecords] /\ armed' \subseteq Ops
      /\ sets' \in [Names -> Ops \cup {None}] /\ SetsMatchPending' /\ TargetsKnown'
  BY <1>1, SettleKeepsBooks DEF Dispose
<1> QED
  BY <1>2 DEF Books, TypeOK, Dispose, known, vehicle

LEMMA SendFailedBooks == ASSUME Books, SendFailed PROVE Books'
<1> DEFINE S == IF Head(up).kind = "SET" THEN {sets[Head(up).name]} \ {None} ELSE {}
<1>1. Head(up) \in UpMessages /\ Tail(up) \in Seq(UpMessages)
  BY DEF SendFailed, Books, TypeOK
<1>2. S \in SUBSET Pending /\ "send-failed" \in Ended
  BY <1>1 DEF Books, SetsMatchPending, UpMessages, Ended, Rejections
<1>3. /\ op' \in [Ops -> OpRecords] /\ armed' \subseteq Ops
      /\ sets' \in [Names -> Ops \cup {None}] /\ SetsMatchPending' /\ TargetsKnown'
  BY <1>2, SettleKeepsBooks DEF SendFailed
<1> QED
  BY <1>1, <1>3 DEF Books, TypeOK, SendFailed, known, vehicle

\* A call in flight goes on with other counters.
LEMMA CountersKeepBooks ==
    ASSUME Books, NEW o \in Pending, NEW r \in OpRecords, op' = [op EXCEPT ![o] = r],
           r.status = "pending", r.call = op[o].call, r.target = op[o].target, r.name = op[o].name,
           UNCHANGED <<sets, armed>>
    PROVE  /\ op' \in [Ops -> OpRecords] /\ op'[o] = r /\ op'[o].target \in Systems
           /\ SetsMatchPending' /\ TargetsKnown'
<1> USE DEF Books
<1>1. op' \in [Ops -> OpRecords] /\ op'[o] = r /\ \A p \in Ops \ {o} : op'[p] = op[p]
  BY DEF TypeOK, Pending
<1>2. Pending' = Pending
  BY <1>1 DEF Pending
<1>3. Fetches' = Fetches
  BY <1>1, <1>2 DEF Fetches, Pending
<1>4. \A n \in Names : sets[n] # None => sets[n] \in Pending
  BY DEF SetsMatchPending
<1>5. \A n \in Names : sets[n] # None => op'[sets[n]].name = n
  BY <1>1, <1>4 DEF SetsMatchPending, Pending
<1>6. SetsMatchPending'
  BY <1>2, <1>3, <1>5 DEF SetsMatchPending
<1>7. TargetsKnown' /\ op'[o].target \in Systems
  BY <1>1 DEF TargetsKnown, Pending
<1> QED
  BY <1>1, <1>6, <1>7

LEMMA SetTickBooks == ASSUME Books, NEW o \in Ops, SetTick(o) PROVE Books'
<1>1. o \in Pending /\ op[o] \in OpRecords
  BY DEF SetTick, Books, SetsMatchPending, TypeOK
<1>2. CASE Settle({o}, "timeout") /\ UNCHANGED up
  <2>1. {o} \in SUBSET Pending /\ "timeout" \in Ended
    BY <1>1 DEF Ended, Rejections
  <2>2. /\ op' \in [Ops -> OpRecords] /\ armed' \subseteq Ops
        /\ sets' \in [Names -> Ops \cup {None}] /\ SetsMatchPending' /\ TargetsKnown'
    BY <1>2, <2>1, SettleKeepsBooks
  <2> QED
    BY <1>2, <2>2 DEF Books, TypeOK, SetTick, known, vehicle
<1>3. CASE op' = [op EXCEPT ![o].attempts = @ + 1] /\ up' = up \o RequestSet(o) /\ UNCHANGED <<sets, armed>>
  <2> DEFINE r == [op[o] EXCEPT !.attempts = @ + 1]
  <2>1. /\ r \in OpRecords /\ r.status = op[o].status /\ r.call = op[o].call
        /\ r.target = op[o].target /\ r.name = op[o].name
    BY <1>1 DEF OpRecords
  <2>2. op' = [op EXCEPT ![o] = r]
    BY <1>3
  <2> HIDE DEF r
  <2>3. /\ op' \in [Ops -> OpRecords] /\ op'[o] = r /\ op'[o].target \in Systems
        /\ SetsMatchPending' /\ TargetsKnown'
    BY <1>1, <1>3, <2>1, <2>2, CountersKeepBooks DEF Pending
  <2>4. RequestSet(o) \in Seq(UpMessages)
    BY <2>3, RequestsTyped
  <2>5. up' \in Seq(UpMessages)
    BY <1>3, <2>4 DEF Books, TypeOK
  <2> QED
    BY <1>3, <2>3, <2>5 DEF Books, TypeOK, SetTick, known, vehicle
<1> QED
  BY <1>2, <1>3 DEF SetTick

\* The indices are finite in number, so they can be counted, and requested in order.
LEMMA IndicesCounted ==
    /\ Len(List) \in Nat /\ Len(List) > 0
    /\ IsFiniteSet(Indices) /\ Cardinality(Indices) = Len(List)
    /\ \A S \in SUBSET Indices : Cardinality(S) \in Nat
    /\ \A S \in SUBSET Indices : Cardinality(S) >= Len(List) => S = Indices
<1>1. Len(List) \in Nat /\ Len(List) > 0
  BY ParamAssumption
<1>2. IsFiniteSet(Indices) /\ Cardinality(Indices) = Len(List)
  BY <1>1, FS_Interval DEF Indices
<1>3. \A S \in SUBSET Indices : /\ Cardinality(S) \in Nat /\ Cardinality(S) <= Len(List)
                                /\ Cardinality(S) = Len(List) => S = Indices
  BY <1>2, FS_Subset, FS_CardinalityType
<1> QED
  BY <1>1, <1>2, <1>3

LEMMA FetchQuietBooks == ASSUME Books, NEW o \in Ops, FetchQuiet(o) PROVE Books'
<1>1. o \in Pending /\ op[o] \in OpRecords
  BY DEF FetchQuiet, Books, SetsMatchPending, TypeOK
<1>2. ASSUME NEW outcome \in {"resolved", "timeout"}, Settle({o}, outcome), UNCHANGED up
      PROVE  Books'
  <2>1. {o} \in SUBSET Pending /\ outcome \in Ended
    BY <1>1 DEF Ended, Rejections
  <2>2. /\ op' \in [Ops -> OpRecords] /\ armed' \subseteq Ops
        /\ sets' \in [Names -> Ops \cup {None}] /\ SetsMatchPending' /\ TargetsKnown'
    BY <1>2, <2>1, SettleKeepsBooks
  <2> QED
    BY <1>2, <2>2 DEF Books, TypeOK, FetchQuiet, known, vehicle
<1>3. CASE /\ op' = [op EXCEPT ![o].checked = Cardinality(op[o].received), ![o].stall = Stall(op[o])]
           /\ IF op[o].total = -1 THEN up' = up \o RequestList(o)
              ELSE \E s \in Ascending(Missing(o)) : up' = up \o RequestMissing(o, s)
           /\ UNCHANGED <<sets, armed>>
  <2> DEFINE r == [op[o] EXCEPT !.checked = Cardinality(op[o].received), !.stall = Stall(op[o])]
  <2>1. Cardinality(op[o].received) \in Nat /\ Stall(op[o]) \in Nat
    BY <1>1, IndicesCounted DEF OpRecords, Stall
  <2>2. /\ r \in OpRecords /\ r.status = op[o].status /\ r.call = op[o].call
        /\ r.target = op[o].target /\ r.name = op[o].name
    BY <1>1, <2>1 DEF OpRecords
  <2>3. op' = [op EXCEPT ![o] = r]
    BY <1>3
  <2> HIDE DEF r
  <2>4. /\ op' \in [Ops -> OpRecords] /\ op'[o] = r /\ op'[o].target \in Systems
        /\ SetsMatchPending' /\ TargetsKnown'
    BY <1>1, <1>3, <2>2, <2>3, CountersKeepBooks DEF Pending
  <2>5. /\ \A i \in Indices : UpMessage("READ", o, i) \in UpMessages
        /\ RequestList(o) \in Seq(UpMessages)
    BY <2>4, RequestsTyped
  <2>6. ASSUME NEW s \in Ascending(Missing(o)) PROVE RequestMissing(o, s) \in Seq(UpMessages)
    <3>1. Missing(o) \in SUBSET Indices
      BY DEF Missing
    <3>2. Cardinality(Missing(o)) \in Nat /\ s \in [1 .. Cardinality(Missing(o)) -> Indices]
      BY <3>1, IndicesCounted DEF Ascending
    <3> QED
      BY <2>5, <3>2 DEF RequestMissing
  <2>7. up' \in Seq(UpMessages)
    <3>1. \A q \in Seq(UpMessages) : up \o q \in Seq(UpMessages)
      BY DEF Books, TypeOK
    <3>2. \E q \in Seq(UpMessages) : up' = up \o q
      BY <1>3, <2>5, <2>6
    <3> QED
      BY <3>1, <3>2
  <2> QED
    BY <1>3, <2>4, <2>7 DEF Books, TypeOK, FetchQuiet, known, vehicle
<1> QED
  BY <1>2, <1>3 DEF FetchQuiet

-----------------------------------------------------------------------------
(* A value arrives.                                                        *)

LEMMA Received ==
    ASSUME Books, down # <<>>
    PROVE  Head(down) \in DownMessages /\ Tail(down) \in Seq(DownMessages)
BY DEF Books, TypeOK

\* The calls after a value, field by field.
LEMMA AfterRecords ==
    ASSUME Books, NEW m \in DownMessages, op' = After(m)
    PROVE  /\ op' \in [Ops -> OpRecords]
           /\ \A o \in Ops : /\ op'[o].call = op[o].call /\ op'[o].name = op[o].name
                             /\ op'[o].target = op[o].target /\ op'[o].value = op[o].value
                             /\ op'[o].status \in {op[o].status, "resolved"}
                             /\ op'[o].status # op[o].status => o \in Fetches \cup Confirms(m)
                             /\ o \in Confirms(m) => op'[o].status = "resolved"
<1>1. \A o \in Ops : op[o] \in OpRecords
  BY DEF Books, TypeOK
<1>2. Confirms(m) \cap Fetches = {}
  BY DEF Books, SetsMatchPending, Confirms, DownMessages
<1>3. ASSUME NEW o \in Ops
      PROVE  /\ op'[o] \in OpRecords
             /\ op'[o].call = op[o].call /\ op'[o].name = op[o].name
             /\ op'[o].target = op[o].target /\ op'[o].value = op[o].value
             /\ op'[o].status \in {op[o].status, "resolved"}
             /\ op'[o].status # op[o].status => o \in Fetches \cup Confirms(m)
             /\ o \in Confirms(m) => op'[o].status = "resolved"
  <2> DEFINE r == Record(op[o], m)
  <2>1. /\ r \in OpRecords /\ r.call = op[o].call /\ r.name = op[o].name /\ r.status = op[o].status
        /\ r.target = op[o].target /\ r.value = op[o].value
    <3> DEFINE total == IF op[o].total = -1 /\ m.count > 0 THEN m.count ELSE op[o].total
               received == IF m.index = -1 THEN op[o].received ELSE op[o].received \cup {m.index}
    <3>1. total \in Int /\ received \in SUBSET Indices
      BY <1>1 DEF OpRecords, DownMessages
    <3>2. r = [op[o] EXCEPT !.total = total, !.received = received]
      BY DEF Record
    <3> HIDE DEF total, received, r
    <3> QED
      BY <1>1, <3>1, <3>2 DEF OpRecords
  <2>2. \A q \in OpRecords : LET d == [q EXCEPT !.status = "resolved"] IN
          /\ d \in OpRecords /\ d.call = q.call /\ d.name = q.name /\ d.target = q.target
          /\ d.value = q.value /\ d.status = "resolved"
    BY DEF OpRecords, Statuses
  <2>3. op'[o] = IF o \in Fetches /\ From(m, o)
                 THEN IF Complete(r) THEN [r EXCEPT !.status = "resolved"] ELSE r
                 ELSE IF o \in Confirms(m) THEN [op[o] EXCEPT !.status = "resolved"] ELSE op[o]
    BY DEF After
  <2> HIDE DEF r
  <2> QED
    BY <1>1, <1>2, <2>1, <2>2, <2>3
<1>4. op' \in [Ops -> OpRecords]
  BY <1>3 DEF After
<1> QED
  BY <1>3, <1>4

LEMMA OnParamValueBooks ==
    ASSUME Books, NEW t \in Systems \cup {None}, OnParamValue(t)
    PROVE  Books'
<1> DEFINE m == Head(down)
<1>1. m \in DownMessages /\ Tail(down) \in Seq(DownMessages)
  BY Received DEF OnParamValue
<1>2. CASE UNCHANGED <<op, armed, sets, known>>
  <2>1. SetsMatchPending' /\ TargetsKnown'
    BY <1>2 DEF Books, SetsMatchPending, TargetsKnown, Pending, Fetches
  <2> QED
    BY <1>1, <1>2, <2>1 DEF Books, TypeOK, OnParamValue, known, vehicle
<1>3. CASE /\ op' = After(m)
           /\ armed' = {o \in armed : op'[o].status = "pending"}
           /\ sets' = [sets EXCEPT ![m.name] = IF @ \in Confirms(m) THEN None ELSE @]
           /\ cache' = [cache EXCEPT ![m.name] = m.value]
           /\ told' = IF Announced(m) THEN [told EXCEPT ![m.name] = m.value] ELSE told
  <2> HIDE DEF m
  <2>1. /\ op' \in [Ops -> OpRecords]
        /\ \A o \in Ops : /\ op'[o].call = op[o].call /\ op'[o].name = op[o].name
                          /\ op'[o].target = op[o].target /\ op'[o].value = op[o].value
                          /\ op'[o].status \in {op[o].status, "resolved"}
                          /\ op'[o].status # op[o].status => o \in Fetches \cup Confirms(m)
                          /\ o \in Confirms(m) => op'[o].status = "resolved"
    BY <1>1, <1>3, AfterRecords
  <2>2. Pending' \subseteq Pending /\ Pending' = {o \in Pending : op'[o].status = "pending"}
    BY <2>1 DEF Pending
  <2>3. m.name \in Names /\ m.value \in Values
    BY <1>1 DEF DownMessages
  <2>4. \A n \in Names : sets'[n] = IF n = m.name /\ sets[n] \in Confirms(m) THEN None ELSE sets[n]
    BY <1>3, <2>3 DEF Books, TypeOK
  <2>5. sets' \in [Names -> Ops \cup {None}]
    BY <1>3, <2>3 DEF Books, TypeOK
  <2>6. Pending' \ Fetches' = (Pending \ Fetches) \ Confirms(m)
    <3>1. \A o \in Pending : o \in Fetches' <=> o \in Fetches /\ o \in Pending'
      BY <2>1, <2>2 DEF Fetches, Pending
    <3>2. \A o \in Pending \ Fetches : o \in Pending' <=> o \notin Confirms(m)
      BY <2>1 DEF Pending
    <3> QED
      BY <2>2, <3>1, <3>2
  <2>7. Confirms(m) \subseteq {sets[m.name]} /\ None \notin Confirms(m)
    BY DEF Confirms
  <2>8. \A n \in Names : n # m.name /\ sets[n] # None => sets[n] # sets[m.name]
    BY <2>3 DEF Books, SetsMatchPending
  <2>9. {sets'[n] : n \in Names} \ {None} = ({sets[n] : n \in Names} \ {None}) \ Confirms(m)
    BY <2>3, <2>4, <2>7, <2>8
  <2>10. \A n \in Names : sets'[n] # None => op'[sets'[n]].name = n
    BY <2>1, <2>4, <2>5 DEF Books, SetsMatchPending
  <2>11. armed' = Pending'
    BY <1>3, <2>2 DEF Books, SetsMatchPending
  <2>12. SetsMatchPending'
    BY <2>6, <2>9, <2>10, <2>11 DEF Books, SetsMatchPending
  <2>13. TargetsKnown'
    BY <2>1 DEF Books, TargetsKnown
  <2>14. /\ cache' \in [Names -> Values \cup {None}]
         /\ told' \in [Names -> Values \cup {None}]
    BY <1>3, <2>3 DEF Books, TypeOK
  <2>15. armed' \subseteq Ops
    BY <1>3 DEF Books, TypeOK
  <2> QED
    BY <1>1, <2>1, <2>5, <2>12, <2>13, <2>14, <2>15 DEF Books, TypeOK, OnParamValue, vehicle, m
<1> QED
  BY <1>2, <1>3 DEF OnParamValue

-----------------------------------------------------------------------------
(* The vehicles and the link.                                              *)

\* What a vehicle announces about the parameter number i.
LEMMA ValueTyped ==
    ASSUME value' \in [Systems -> [Names -> Values]], size \in [Systems -> 1 .. Len(List)],
           NEW v \in Systems, NEW i \in Indices, NEW listed \in BOOLEAN
    PROVE  Value(v, i, listed) \in DownMessages
<1>1. List[i + 1] \in Names
  BY NamesOfList
<1>2. size[v] \in Nat
  BY IndicesCounted
<1> QED
  BY <1>1, <1>2 DEF Value, DownMessages

\* The state of a vehicle after a value has been assigned.
LEMMA AssignTyped ==
    ASSUME TypeOK, NEW v \in Systems, NEW i \in Indices, NEW x \in Values, Assign(v, i, x)
    PROVE  /\ value' \in [Systems -> [Names -> Values]] /\ held' \subseteq Systems \X Names \X Values
           /\ value'[v][List[i + 1]] = x /\ held' = held \cup {<<v, List[i + 1], x>>}
           /\ \A w \in Systems, n \in Names :
                w # v \/ n # List[i + 1] => value'[w][n] = value[w][n]
<1>1. List[i + 1] \in Names
  BY NamesOfList
<1> QED
  BY <1>1 DEF TypeOK, Assign

LEMMA VehicleReceivesBooks == ASSUME Books, VehicleReceives PROVE Books'
<1> DEFINE m == Head(up)
<1>1. m \in UpMessages /\ Tail(up) \in Seq(UpMessages) /\ TypeOK
  BY DEF VehicleReceives, Books, TypeOK
<1>2. m.sys \in Systems /\ m.index \in Indices /\ m.value \in Values /\ m.name \in Names
  BY <1>1 DEF UpMessages
<1>3. SetsMatchPending' /\ TargetsKnown'
  BY DEF VehicleReceives, Books, SetsMatchPending, TargetsKnown, Pending, Fetches, calls
<1>4. ASSUME VehicleSends(m) PROVE down' \in Seq(DownMessages) /\ UNCHANGED vehicle
  <2>1. /\ value' \in [Systems -> [Names -> Values]] /\ size \in [Systems -> 1 .. Len(List)]
        /\ UNCHANGED vehicle /\ down \in Seq(DownMessages)
    BY <1>1, <1>4 DEF VehicleSends, vehicle, TypeOK
  <2>2. size[m.sys] \in Nat /\ \A k \in 1 .. size[m.sys] : k - 1 \in Indices
    BY <1>2, <2>1, IndicesCounted DEF Indices
  <2>3. \A k \in 1 .. size[m.sys] : Value(m.sys, k - 1, TRUE) \in DownMessages
    BY <1>2, <2>1, <2>2, ValueTyped
  <2>4. Value(m.sys, m.index, TRUE) \in DownMessages
    BY <1>2, <2>1, ValueTyped
  <2>5. [k \in 1 .. size[m.sys] |-> Value(m.sys, k - 1, TRUE)] \in [1 .. size[m.sys] -> DownMessages]
    BY <2>3
  <2>6. \A q \in Seq(DownMessages) : down \o q \in Seq(DownMessages)
    BY <2>1
  <2>7. [k \in 1 .. size[m.sys] |-> Value(m.sys, k - 1, TRUE)] \in Seq(DownMessages)
    BY <2>2, <2>5, SeqDef
  <2>8. \A x \in DownMessages : <<x>> \in Seq(DownMessages)
    OBVIOUS
  <2>9. <<>> \in Seq(DownMessages)
    OBVIOUS
  <2> HIDE DEF m
  <2> QED
    BY <1>4, <2>1, <2>4, <2>6, <2>7, <2>8, <2>9 DEF VehicleSends
<1>5. ASSUME VehicleSets(m)
      PROVE  /\ down' \in Seq(DownMessages) /\ value' \in [Systems -> [Names -> Values]]
             /\ held' \subseteq Systems \X Names \X Values /\ UNCHANGED <<size, changes, outgrown>>
  <2>1. PICK i \in Indices, applied \in BOOLEAN, listed \in BOOLEAN :
          /\ Assign(m.sys, i, IF applied THEN m.value ELSE value[m.sys][m.name])
          /\ down' = Append(down, Value(m.sys, i, listed)) /\ UNCHANGED <<size, changes, outgrown>>
    BY <1>5 DEF VehicleSets
  <2>2. (IF applied THEN m.value ELSE value[m.sys][m.name]) \in Values
    BY <1>1, <1>2 DEF TypeOK
  <2>3. value' \in [Systems -> [Names -> Values]] /\ held' \subseteq Systems \X Names \X Values
    BY <1>1, <1>2, <2>1, <2>2, AssignTyped
  <2>4. Value(m.sys, i, listed) \in DownMessages
    BY <1>1, <1>2, <2>3, ValueTyped DEF TypeOK
  <2> QED
    BY <1>1, <2>1, <2>3, <2>4 DEF TypeOK
<1> QED
  <2>1. UNCHANGED calls /\ UNCHANGED known /\ up' = Tail(up)
    BY DEF VehicleReceives
  <2>2. CASE VehicleSends(m)
    BY <1>1, <1>3, <1>4, <2>1, <2>2 DEF Books, TypeOK, calls, known, vehicle
  <2>3. CASE VehicleSets(m)
    BY <1>1, <1>3, <1>5, <2>1, <2>3 DEF Books, TypeOK, calls, known
  <2> QED
    BY <2>2, <2>3 DEF VehicleReceives

LEMMA OtherStationBooks ==
    ASSUME Books, NEW v \in Systems, NEW i \in Indices, NEW x \in Values, NEW listed \in BOOLEAN,
           OtherStation(v, i, x, listed)
    PROVE  Books'
<1>1. TypeOK /\ SetsMatchPending' /\ TargetsKnown'
  BY DEF OtherStation, Books, SetsMatchPending, TargetsKnown, Pending, Fetches, calls
<1>2. value' \in [Systems -> [Names -> Values]] /\ held' \subseteq Systems \X Names \X Values
  BY <1>1, AssignTyped DEF OtherStation
<1>3. Value(v, i, listed) \in DownMessages
  BY <1>1, <1>2, ValueTyped DEF TypeOK
<1>4. down' \in Seq(DownMessages)
  BY <1>1, <1>3 DEF OtherStation, TypeOK
<1>5. changes' \in 0 .. MaxChanges
  BY <1>1, ParamAssumption DEF OtherStation, TypeOK
<1> QED
  BY <1>1, <1>2, <1>4, <1>5 DEF OtherStation, Books, TypeOK, calls, known

LEMMA GrowBooks == ASSUME Books, NEW v \in Systems, Grow(v) PROVE Books'
<1>1. SetsMatchPending' /\ TargetsKnown'
  BY DEF Grow, Books, SetsMatchPending, TargetsKnown, Pending, Fetches, calls
<1>2. size' \in [Systems -> 1 .. Len(List)]
  BY IndicesCounted DEF Grow, Books, TypeOK
<1>3. outgrown' \subseteq Ops
  BY DEF Grow, Books, TypeOK, Fetches, Pending
<1> QED
  BY <1>1, <1>2, <1>3 DEF Grow, Books, TypeOK, calls, known

LEMMA LinkBooks == ASSUME Books, LoseUp \/ LoseDown \/ UNCHANGED vars PROVE Books'
<1>1. SetsMatchPending' /\ TargetsKnown'
  BY DEF LoseUp, LoseDown, vars, Books, SetsMatchPending, TargetsKnown, Pending, Fetches, calls
<1>2. up \in Seq(UpMessages) /\ down \in Seq(DownMessages)
  BY DEF Books, TypeOK
<1>3. up' \in Seq(UpMessages) /\ down' \in Seq(DownMessages)
  <2>1. CASE LoseUp
    BY <1>2, <2>1 DEF LoseUp
  <2>2. CASE LoseDown
    BY <1>2, <2>2 DEF LoseDown
  <2>3. CASE UNCHANGED vars
    BY <1>2, <2>3 DEF vars
  <2> QED
    BY <2>1, <2>2, <2>3
<1> QED
  BY <1>1, <1>3 DEF LoseUp, LoseDown, vars, Books, TypeOK, calls, known, vehicle

LEMMA NextBooks == Books /\ [Next]_vars => Books'
<1> SUFFICES ASSUME Books, [Next]_vars PROVE Books'
  OBVIOUS
<1>1. ASSUME NEW o \in Ops, Enter(o) PROVE Books'
  BY <1>1, RefuseBooks, FetchBooks, SetBooks DEF Enter
<1>2. ASSUME NEW o \in Ops, SetTick(o) \/ FetchQuiet(o) \/ Abort(o) PROVE Books'
  BY <1>2, SetTickBooks, FetchQuietBooks, AbortBooks
<1>3. ASSUME NEW t \in Systems \cup {None}, OnParamValue(t) PROVE Books'
  BY <1>3, OnParamValueBooks
<1>4. CASE Vehicles
  BY <1>4, VehicleReceivesBooks, OtherStationBooks, GrowBooks DEF Vehicles
<1>5. CASE LoseUp \/ LoseDown \/ UNCHANGED vars
  BY <1>5, LinkBooks
<1>6. CASE SendFailed \/ Dispose
  BY <1>6, SendFailedBooks, DisposeBooks
<1> QED
  BY <1>1, <1>2, <1>3, <1>4, <1>5, <1>6 DEF Next

LEMMA Booked == Spec => []Books
  BY InitBooks, NextBooks, PTL DEF Spec

\* The variables have their types: in particular every request names a vehicle, a
\* parameter and an index that exist (sendRequestList, sendRequestRead, sendParamSet).
THEOREM TypeCorrect == Spec => []TypeOK
<1>1. Books => TypeOK
  BY DEF Books
<1> QED
  BY <1>1, Booked, PTL

-----------------------------------------------------------------------------
(* What the listeners know.                                                *)

\* A call that was entered stays what it is and does not become idle again.
LEMMA CallsStay ==
    ASSUME Books, [Next]_vars
    PROVE  \A o \in Ops : op[o].status # "idle" => op'[o].status # "idle" /\ op'[o].call = op[o].call
<1> DEFINE Stays == \A o \in Ops : op[o].status # "idle" => op'[o].status # "idle" /\ op'[o].call = op[o].call
<1>0. op \in [Ops -> OpRecords] /\ \A o \in Ops : op[o] \in OpRecords
  BY DEF Books, TypeOK
<1>1. ASSUME NEW o \in Ops, Enter(o) PROVE Stays
  <2>1. op[o].status = "idle"
    BY <1>1 DEF Enter, Refuse, Fetch, Set
  <2>2. ASSUME NEW p \in Ops \ {o} PROVE op'[p] = op[p] \/ op'[p] = [op[p] EXCEPT !.status = "aborted"]
    BY <1>0, <1>1 DEF Enter, Refuse, Fetch, Set
  <2>3. \A p \in Ops : LET r == [op[p] EXCEPT !.status = "aborted"]
                       IN  r.status = "aborted" /\ r.call = op[p].call
    BY <1>0 DEF OpRecords
  <2> QED
    BY <2>1, <2>2, <2>3
<1>2. ASSUME NEW S \in SUBSET Ops, NEW outcome \in Ended, Settle(S, outcome) PROVE Stays
  <2>1. op' = Settled(S, outcome)
    BY <1>2 DEF Settle
  <2>2. \A o \in Ops : /\ op'[o] = IF o \in S THEN [op[o] EXCEPT !.status = outcome] ELSE op[o]
                       /\ o \in S => op'[o].status = outcome
                       /\ op'[o].call = op[o].call
    BY <1>0, <2>1, SettledRecords
  <2>3. outcome # "idle"
    BY DEF Ended, Rejections
  <2> QED
    BY <2>2, <2>3
<1>3. ASSUME NEW o \in Ops, SetTick(o) \/ FetchQuiet(o) \/ Abort(o) PROVE Stays
  <2>1. CASE \E outcome \in Ended : Settle({o}, outcome)
    BY <1>2, <2>1
  <2>2. CASE \/ op' = [op EXCEPT ![o].attempts = @ + 1]
             \/ op' = [op EXCEPT ![o].checked = Cardinality(op[o].received), ![o].stall = Stall(op[o])]
    <3>1. op'[o].status = op[o].status /\ op'[o].call = op[o].call /\ \A p \in Ops \ {o} : op'[p] = op[p]
      BY <1>0, <2>2 DEF OpRecords
    <3> QED
      BY <3>1
  <2> QED
    BY <1>3, <2>1, <2>2 DEF SetTick, FetchQuiet, Abort, Ended, Rejections
<1>4. ASSUME NEW t \in Systems \cup {None}, OnParamValue(t) PROVE Stays
  <2>1. CASE op' = op
    BY <2>1
  <2>2. CASE op' = After(Head(down))
    <3>1. Head(down) \in DownMessages
      BY <1>4, Received DEF OnParamValue
    <3>2. \A o \in Ops : op'[o].call = op[o].call /\ op'[o].status \in {op[o].status, "resolved"}
      BY <2>2, <3>1, AfterRecords
    <3> QED
      BY <3>2
  <2> QED
    BY <1>4, <2>1, <2>2 DEF OnParamValue
<1>5. CASE Vehicles \/ LoseUp \/ LoseDown \/ UNCHANGED vars
  BY <1>5 DEF Vehicles, VehicleReceives, OtherStation, Grow, LoseUp, LoseDown, vars, calls
<1>6. CASE SendFailed \/ Dispose
  <2>1. \E S \in SUBSET Ops, outcome \in Ended : Settle(S, outcome)
    <3>1. CASE SendFailed
      <4>1. Head(up) \in UpMessages
        BY <3>1 DEF SendFailed, Books, TypeOK
      <4>2. (IF Head(up).kind = "SET" THEN {sets[Head(up).name]} \ {None} ELSE {}) \in SUBSET Ops
        BY <4>1 DEF UpMessages, Books, TypeOK
      <4> QED
        BY <3>1, <4>2 DEF SendFailed, Ended, Rejections
    <3>2. CASE Dispose
      BY <3>2 DEF Dispose, Pending, Ended, Rejections
    <3> QED
      BY <1>6, <3>1, <3>2
  <2> QED
    BY <1>2, <2>1
<1> QED
  BY <1>1, <1>3, <1>4, <1>5, <1>6 DEF Next

LEMMA NextListeners == Books /\ ListenersUpToDate /\ [Next]_vars => ListenersUpToDate'
<1> SUFFICES ASSUME Books, ListenersUpToDate, [Next]_vars,
                    \A o \in Ops : op'[o].call = "fetch" => op'[o].status = "idle"
             PROVE  told' = cache'
  BY DEF ListenersUpToDate
<1>1. \A o \in Ops : op[o].call = "fetch" => op[o].status = "idle"
  BY CallsStay
<1>2. told = cache /\ Fetches = {}
  BY <1>1 DEF ListenersUpToDate, Fetches, Pending
<1>3. ASSUME NEW t \in Systems \cup {None}, OnParamValue(t) PROVE told' = cache'
  <2> DEFINE m == Head(down)
  <2>1. m.name \in Names
    BY <1>3, Received DEF OnParamValue, DownMessages
  <2>2. CASE UNCHANGED known
    BY <1>2, <2>2 DEF known
  <2>3. CASE /\ cache' = [cache EXCEPT ![m.name] = m.value]
             /\ told' = IF Announced(m) THEN [told EXCEPT ![m.name] = m.value] ELSE told
    <3>1. CASE Announced(m)
      BY <1>2, <2>3, <3>1
    <3>2. CASE ~Announced(m)
      <4>1. cache[m.name] = m.value
        BY <1>2, <3>2 DEF Announced
      <4>2. cache' = cache
        BY <2>1, <2>3, <4>1 DEF Books, TypeOK
      <4> QED
        BY <1>2, <2>3, <3>2, <4>2
    <3> QED
      BY <3>1, <3>2
  <2> QED
    BY <1>3, <2>2, <2>3 DEF OnParamValue
<1>4. CASE \/ \E o \in Ops : Enter(o) \/ SetTick(o) \/ FetchQuiet(o) \/ Abort(o)
           \/ Vehicles \/ LoseUp \/ LoseDown \/ SendFailed \/ Dispose \/ UNCHANGED vars
  <2>1. UNCHANGED known
    BY <1>4 DEF Enter, Refuse, Fetch, Set, SetTick, FetchQuiet, Abort, Vehicles, VehicleReceives,
                OtherStation, Grow, LoseUp, LoseDown, SendFailed, Dispose, vars
  <2> QED
    BY <1>2, <2>1 DEF known
<1> QED
  BY <1>3, <1>4 DEF Next

\* The map of sets and the timers are those of the calls in flight, whatever supersedes,
\* confirms, aborts or fails them, and without a fetch the listeners know what the cache
\* holds (set, settleSet, settleFetch, onParamValue).
THEOREM BooksAreKept == Spec => []BookkeepingIsTrue
<1>1. Init => ListenersUpToDate
  BY DEF Init, ListenersUpToDate
<1>2. Books /\ ListenersUpToDate => BookkeepingIsTrue
  BY DEF Books, BookkeepingIsTrue
<1> QED
  BY <1>1, <1>2, Booked, NextListeners, PTL DEF Spec

-----------------------------------------------------------------------------
(* What a call that resolves has seen.                                     *)

\* A step of one call: it goes on or ends otherwise, it does not change, its list is
\* complete, or the value at the head of the link confirms it.
CallStep(o) ==
    \/ op[o].status \notin Ended /\ op'[o].status # "resolved"
    \/ op'[o] = op[o]
    \/ o \in Fetches /\ op'[o].call = "fetch" /\ Complete(op'[o])
    \/ down # <<>> /\ o \in Confirms(Head(down)) /\ op'[o] = [op[o] EXCEPT !.status = "resolved"]

\* The total of a call is the count of a value that it has received.
TotalStep(o) == op'[o].total = op[o].total \/ \E k \in DOMAIN down : op'[o].total = down[k].count

LEMMA SettledSteps ==
    ASSUME Books, NEW S \in SUBSET Pending, NEW outcome \in Ended, op' = Settled(S, outcome),
           NEW o \in Ops, o \in S /\ outcome = "resolved" => o \in Fetches /\ Complete(op[o])
    PROVE  CallStep(o) /\ TotalStep(o)
<1> DEFINE r == [op[o] EXCEPT !.status = outcome]
<1>1. op[o] \in OpRecords
  BY DEF Books, TypeOK
<1>2. /\ r.status = outcome /\ r.call = op[o].call /\ r.total = op[o].total
      /\ r.received = op[o].received
  BY <1>1 DEF OpRecords
<1>3. op'[o] = IF o \in S THEN r ELSE op[o]
  BY DEF Settled
<1>4. o \in S => op[o].status \notin Ended
  BY DEF Pending, Ended, Rejections
<1> HIDE DEF r
<1> QED
  BY <1>2, <1>3, <1>4 DEF CallStep, TotalStep, Complete, Fetches

LEMMA EnterSteps ==
    ASSUME Books, NEW p \in Ops, Enter(p), NEW o \in Ops
    PROVE  CallStep(o) /\ TotalStep(o)
<1>1. op[p] \in OpRecords /\ op[o] \in OpRecords /\ op[p].status = "idle"
  BY DEF Books, TypeOK, Enter, Refuse, Fetch, Set
<1>2. CASE o = p
  <2>1. op'[o].status # "resolved" /\ op'[o].total = op[o].total
    <3>1. ASSUME NEW call, NEW t, Refuse(o, call, t) PROVE op'[o].status # "resolved" /\ op'[o].total = op[o].total
      BY <1>1, <3>1 DEF Refuse, OpRecords, Books, TypeOK
    <3>2. ASSUME NEW t \in Systems, Fetch(o, t) PROVE op'[o].status # "resolved" /\ op'[o].total = op[o].total
      BY <1>1, <3>2 DEF Fetch, OpRecords, Books, TypeOK
    <3>3. ASSUME NEW t \in Systems, NEW n \in Names, NEW x \in Values, Set(o, t, n, x)
          PROVE  op'[o].status # "resolved" /\ op'[o].total = op[o].total
      <4>1. op'[o] = [op[o] EXCEPT !.status = "pending", !.call = "set", !.target = t,
                          !.name = n, !.value = x, !.attempts = 1]
        BY <3>3 DEF Set
      <4> QED
        BY <1>1, <4>1 DEF OpRecords
    <3> QED
      BY <1>2, <3>1, <3>2, <3>3 DEF Enter
  <2> QED
    BY <1>1, <1>2, <2>1 DEF CallStep, TotalStep, Ended, Rejections
<1>3. CASE o # p
  <2>1. \/ op'[o] = op[o]
        \/ o \in Pending /\ op'[o] = [op[o] EXCEPT !.status = "aborted"]
    <3>1. \A n \in Names : o = sets[n] => o \in Pending
      BY ParamAssumption DEF Books, SetsMatchPending
    <3> QED
      BY <1>3, <3>1 DEF Enter, Refuse, Fetch, Set, Books, TypeOK
  <2> QED
    BY <1>1, <2>1 DEF CallStep, TotalStep, Pending, Ended, Rejections, OpRecords
<1> QED
  BY <1>2, <1>3

LEMMA TimerSteps ==
    ASSUME Books, NEW p \in Ops, SetTick(p) \/ FetchQuiet(p) \/ Abort(p), NEW o \in Ops
    PROVE  CallStep(o) /\ TotalStep(o)
<1>1. p \in Pending /\ op[p] \in OpRecords
  BY DEF SetTick, FetchQuiet, Abort, Fetches, Books, SetsMatchPending, TypeOK
<1>2. CASE \E outcome \in {"timeout", "aborted"} : Settle({p}, outcome)
  BY <1>1, <1>2, SettledSteps DEF Settle, Ended, Rejections
<1>3. CASE p \in Fetches /\ Complete(op[p]) /\ Settle({p}, "resolved")
  BY <1>1, <1>3, SettledSteps DEF Settle, Ended, Rejections
<1>4. CASE \/ op' = [op EXCEPT ![p].attempts = @ + 1]
           \/ op' = [op EXCEPT ![p].checked = Cardinality(op[p].received), ![p].stall = Stall(op[p])]
  <2>1. /\ op'[p].status = op[p].status /\ op'[p].total = op[p].total
        /\ \A q \in Ops \ {p} : op'[q] = op[q]
    BY <1>1, <1>4 DEF OpRecords, Books, TypeOK
  <2>2. op[p].status = "pending"
    BY <1>1 DEF Pending
  <2> QED
    BY <2>1, <2>2 DEF CallStep, TotalStep, Ended, Rejections
<1> QED
  BY <1>1, <1>2, <1>3, <1>4 DEF SetTick, FetchQuiet, Abort, Fetches

LEMMA ValueSteps ==
    ASSUME Books, NEW t \in Systems \cup {None}, OnParamValue(t), NEW o \in Ops
    PROVE  CallStep(o) /\ TotalStep(o)
<1> DEFINE m == Head(down)
           r == Record(op[o], m)
           d == [r EXCEPT !.status = "resolved"]
<1>1. m \in DownMessages /\ 1 \in DOMAIN down /\ m = down[1] /\ down # <<>>
  BY Received DEF OnParamValue, Books, TypeOK
<1>2. CASE op' = op
  BY <1>2 DEF CallStep, TotalStep
<1>3. CASE op' = After(m)
  <2>1. op'[o] = IF o \in Fetches /\ From(m, o) THEN IF Complete(r) THEN d ELSE r
                 ELSE IF o \in Confirms(m) THEN [op[o] EXCEPT !.status = "resolved"] ELSE op[o]
    BY <1>3 DEF After
  <2>2. op[o] \in OpRecords
    BY DEF Books, TypeOK
  <2>3. /\ r.status = op[o].status /\ r.call = op[o].call
        /\ r.total = op[o].total \/ r.total = m.count
    BY <2>2 DEF Record, OpRecords
  <2>4. /\ d.call = r.call /\ d.total = r.total /\ d.received = r.received
    BY <2>2 DEF Record, OpRecords
  <2>5. ASSUME o \in Fetches, From(m, o) PROVE CallStep(o) /\ TotalStep(o)
    <3>1. op[o].status = "pending" /\ op[o].call = "fetch" /\ "pending" \notin Ended
      BY <2>5 DEF Fetches, Pending, Ended, Rejections
    <3>2. CASE Complete(r)
      BY <1>1, <2>1, <2>3, <2>4, <2>5, <3>1, <3>2 DEF CallStep, TotalStep, Complete
    <3>3. CASE ~Complete(r)
      BY <1>1, <2>1, <2>3, <2>5, <3>1, <3>3 DEF CallStep, TotalStep
    <3> QED
      BY <3>2, <3>3
  <2>6. ASSUME ~(o \in Fetches /\ From(m, o)) PROVE CallStep(o) /\ TotalStep(o)
    <3>1. [op[o] EXCEPT !.status = "resolved"].total = op[o].total
      BY <2>2 DEF OpRecords
    <3> QED
      BY <1>1, <2>1, <2>6, <3>1 DEF CallStep, TotalStep
  <2> QED
    BY <2>5, <2>6
<1> QED
  BY <1>2, <1>3 DEF OnParamValue

LEMMA CallSteps ==
    ASSUME Books, [Next]_vars, NEW o \in Ops
    PROVE  CallStep(o) /\ TotalStep(o)
<1>1. CASE Vehicles \/ LoseUp \/ LoseDown \/ UNCHANGED vars
  BY <1>1 DEF Vehicles, VehicleReceives, OtherStation, Grow, LoseUp, LoseDown, vars, calls, CallStep, TotalStep
<1>2. CASE SendFailed
  <2>1. (IF Head(up).kind = "SET" THEN {sets[Head(up).name]} \ {None} ELSE {}) \in SUBSET Pending
    <3>1. Head(up) \in UpMessages
      BY <1>2 DEF SendFailed, Books, TypeOK
    <3> QED
      BY <3>1 DEF Books, SetsMatchPending, UpMessages
  <2> QED
    BY <1>2, <2>1, SettledSteps DEF SendFailed, Settle, Ended, Rejections
<1>3. CASE Dispose
  BY <1>3, SettledSteps DEF Dispose, Settle, Ended, Rejections
<1> QED
  BY <1>1, <1>2, <1>3, EnterSteps, TimerSteps, ValueSteps DEF Next

\* A vehicle announces what it holds of the parameters that it shows.
Announces(x) ==
    \E v \in Systems, i \in Indices, listed \in BOOLEAN : i < size[v] /\ x = Value(v, i, listed)

\* A message that is on its way was on its way before, or a vehicle announces it.
LEMMA DownSteps ==
    ASSUME Books, [Next]_vars, NEW k \in DOMAIN down'
    PROVE  \/ \E j \in DOMAIN down : down'[k] = down[j]
           \/ Announces(down'[k])
<1> DEFINE Known == \E j \in DOMAIN down : down'[k] = down[j]
<1>1. down \in Seq(DownMessages) /\ up \in Seq(UpMessages)
  BY DEF Books, TypeOK
<1>2. CASE down' = down
  BY <1>2
<1>3. CASE down # <<>> /\ down' = Tail(down)
  <2>1. k + 1 \in DOMAIN down /\ down'[k] = down[k + 1]
    BY <1>1, <1>3
  <2> QED
    BY <2>1
<1>4. ASSUME NEW x, down' = Append(down, x), Announces(x)
      PROVE  Known \/ Announces(down'[k])
  <2>1. (k \in DOMAIN down /\ down'[k] = down[k]) \/ down'[k] = x
    BY <1>1, <1>4
  <2> QED
    BY <1>4, <2>1
<1>5. ASSUME NEW q, NEW n \in Nat, q \in [1 .. n -> DownMessages], down' = down \o q,
             \A j \in 1 .. n : Announces(q[j])
      PROVE  Known \/ Announces(down'[k])
  <2>1. q \in Seq(DownMessages) /\ Len(q) = n
    BY <1>5, SeqDef
  <2>2. \/ k \in DOMAIN down /\ down'[k] = down[k]
        \/ k - Len(down) \in 1 .. n /\ down'[k] = q[k - Len(down)]
    BY <1>1, <1>5, <2>1
  <2> QED
    BY <1>5, <2>2
<1>6. CASE VehicleReceives
  <2> DEFINE m == Head(up)
  <2>0. m \in UpMessages
    BY <1>1, <1>6 DEF VehicleReceives
  <2>1. m \in UpMessages /\ m.sys \in Systems /\ m.index \in Indices
    BY <2>0 DEF UpMessages
  <2>2. CASE VehicleSends(m)
    <3>1. /\ value' \in [Systems -> [Names -> Values]] /\ size \in [Systems -> 1 .. Len(List)]
      BY <2>2 DEF VehicleSends, vehicle, Books, TypeOK
    <3>2. size[m.sys] \in Nat /\ \A j \in 1 .. size[m.sys] : j - 1 \in Indices /\ j - 1 < size[m.sys]
      BY <2>1, <3>1, IndicesCounted DEF Indices
    <3>3. CASE down' = down \o [j \in 1 .. size[m.sys] |-> Value(m.sys, j - 1, TRUE)]
      <4> DEFINE q == [j \in 1 .. size[m.sys] |-> Value(m.sys, j - 1, TRUE)]
      <4>1. \A j \in 1 .. size[m.sys] : q[j] = Value(m.sys, j - 1, TRUE) /\ q[j] \in DownMessages
        BY <2>1, <3>1, <3>2, ValueTyped
      <4>2. q \in [1 .. size[m.sys] -> DownMessages]
        BY <4>1
      <4>3. \A j \in 1 .. size[m.sys] : Announces(q[j])
        BY <2>1, <3>2, <4>1 DEF Announces
      <4> HIDE DEF m, q
      <4> QED
        BY <1>5, <3>2, <3>3, <4>2, <4>3 DEF q
    <3>4. CASE m.index < size[m.sys] /\ down' = down \o <<Value(m.sys, m.index, TRUE)>>
      <4>1. down' = Append(down, Value(m.sys, m.index, TRUE))
        <5>1. Value(m.sys, m.index, TRUE) \in DownMessages
          BY <2>1, <3>1, ValueTyped
        <5>2. \A x \in DownMessages : Append(down, x) = down \o <<x>>
          BY <1>1, AppendIsConcat
        <5> QED
          BY <3>4, <5>1, <5>2
      <4>2. Announces(Value(m.sys, m.index, TRUE))
        BY <2>1, <3>4 DEF Announces
      <4> QED
        BY <1>4, <4>1, <4>2
    <3>5. CASE down' = down \o <<>>
      BY <1>1, <1>2, <3>5
    <3> QED
      BY <2>2, <3>3, <3>4, <3>5 DEF VehicleSends
  <2>3. CASE VehicleSets(m)
    <3>1. PICK i \in Indices, listed \in BOOLEAN :
             i < size[m.sys] /\ down' = Append(down, Value(m.sys, i, listed))
      BY <2>3 DEF VehicleSets
    <3>2. Announces(Value(m.sys, i, listed))
      BY <2>1, <3>1 DEF Announces
    <3> QED
      BY <1>4, <3>1, <3>2
  <2> QED
    BY <1>6, <2>2, <2>3 DEF VehicleReceives
<1>7. CASE \E v \in Systems, i \in Indices, x \in Values, listed \in BOOLEAN : OtherStation(v, i, x, listed)
  <2>1. PICK v \in Systems, i \in Indices, listed \in BOOLEAN :
           i < size[v] /\ down' = Append(down, Value(v, i, listed))
    BY <1>7 DEF OtherStation
  <2>2. Announces(Value(v, i, listed))
    BY <2>1 DEF Announces
  <2> QED
    BY <1>4, <2>1, <2>2
<1>8. CASE \/ \E o \in Ops : Enter(o) \/ SetTick(o) \/ FetchQuiet(o) \/ Abort(o)
           \/ (\E v \in Systems : Grow(v)) \/ LoseUp \/ SendFailed \/ Dispose \/ UNCHANGED vars
  BY <1>2, <1>8 DEF Enter, Refuse, Fetch, Set, SetTick, FetchQuiet, Abort, Grow, LoseUp, SendFailed, Dispose, vars
<1>9. CASE LoseDown \/ \E t \in Systems \cup {None} : OnParamValue(t)
  BY <1>3, <1>9 DEF LoseDown, OnParamValue
<1> QED
  BY <1>6, <1>7, <1>8, <1>9 DEF Next, Vehicles

-----------------------------------------------------------------------------
(* A confirmed write.                                                      *)

\* What a vehicle holds, and what it says that it holds, it has held.
NowHeld == \A v \in Systems, n \in Names : <<v, n, value[v][n]>> \in held
SaidHeld == \A k \in DOMAIN down : <<down[k].sys, down[k].name, down[k].value>> \in held

\* The inductive invariant for confirmed writes.
HeldTruth == Books /\ NowHeld /\ SaidHeld /\ ConfirmedWasHeld

LEMMA VehicleSteps ==
    ASSUME Books, NowHeld, [Next]_vars
    PROVE  held \subseteq held' /\ NowHeld'
<1>1. ASSUME NEW v \in Systems, NEW i \in Indices, NEW x \in Values, Assign(v, i, x)
      PROVE  held \subseteq held' /\ NowHeld'
  <2>1. /\ value'[v][List[i + 1]] = x /\ held' = held \cup {<<v, List[i + 1], x>>}
        /\ \A w \in Systems, n \in Names : w # v \/ n # List[i + 1] => value'[w][n] = value[w][n]
    BY <1>1, AssignTyped DEF Books
  <2> QED
    BY <2>1 DEF NowHeld
<1>2. CASE VehicleReceives
  <2> DEFINE m == Head(up)
  <2>0. m \in UpMessages
    BY <1>2 DEF VehicleReceives, Books, TypeOK
  <2>1. m.sys \in Systems /\ m.name \in Names /\ m.value \in Values
    BY <2>0 DEF UpMessages
  <2>2. CASE VehicleSends(m)
    BY <2>2 DEF VehicleSends, vehicle, NowHeld
  <2>3. CASE VehicleSets(m)
    <3>1. PICK i \in Indices, applied \in BOOLEAN :
             Assign(m.sys, i, IF applied THEN m.value ELSE value[m.sys][m.name])
      BY <2>3 DEF VehicleSets
    <3>2. (IF applied THEN m.value ELSE value[m.sys][m.name]) \in Values
      BY <2>1 DEF Books, TypeOK
    <3> QED
      BY <1>1, <2>1, <3>1, <3>2
  <2> QED
    BY <1>2, <2>2, <2>3 DEF VehicleReceives
<1>3. CASE \E v \in Systems, i \in Indices, x \in Values, listed \in BOOLEAN : OtherStation(v, i, x, listed)
  BY <1>1, <1>3 DEF OtherStation
<1>4. CASE \/ \E o \in Ops : Enter(o) \/ SetTick(o) \/ FetchQuiet(o) \/ Abort(o)
           \/ (\E t \in Systems \cup {None} : OnParamValue(t)) \/ (\E v \in Systems : Grow(v))
           \/ LoseUp \/ LoseDown \/ SendFailed \/ Dispose \/ UNCHANGED vars
  <2>1. UNCHANGED <<value, held>>
    BY <1>4 DEF Enter, Refuse, Fetch, Set, SetTick, FetchQuiet, Abort, OnParamValue, Grow,
                LoseUp, LoseDown, SendFailed, Dispose, vars, vehicle
  <2> QED
    BY <2>1 DEF NowHeld
<1> QED
  BY <1>2, <1>3, <1>4 DEF Next, Vehicles

LEMMA NextHeld == HeldTruth /\ [Next]_vars => HeldTruth'
<1> SUFFICES ASSUME HeldTruth, [Next]_vars PROVE HeldTruth'
  OBVIOUS
<1> USE DEF HeldTruth
<1>1. Books' /\ NowHeld' /\ held \subseteq held'
  BY NextBooks, VehicleSteps
<1>2. SaidHeld'
  <2> SUFFICES ASSUME NEW k \in DOMAIN down'
               PROVE  <<down'[k].sys, down'[k].name, down'[k].value>> \in held'
    BY DEF SaidHeld
  <2>1. CASE \E j \in DOMAIN down : down'[k] = down[j]
    BY <1>1, <2>1 DEF SaidHeld
  <2>2. CASE Announces(down'[k])
    BY <1>1, <2>2, NamesOfList DEF Announces, Value, NowHeld
  <2> QED
    BY <2>1, <2>2, DownSteps
<1>3. ConfirmedWasHeld'
  <2> SUFFICES ASSUME NEW o \in Ops, op'[o].call = "set", op'[o].status = "resolved"
               PROVE  <<op'[o].target, op'[o].name, op'[o].value>> \in held'
    BY DEF ConfirmedWasHeld
  <2>1. op[o] \in OpRecords
    BY DEF Books, TypeOK
  <2>2. CASE op'[o] = op[o]
    BY <1>1, <2>2 DEF ConfirmedWasHeld
  <2>3. CASE down # <<>> /\ o \in Confirms(Head(down)) /\ op'[o] = [op[o] EXCEPT !.status = "resolved"]
    <3> DEFINE m == Head(down)
    <3>1. op'[o].target = op[o].target /\ op'[o].name = op[o].name /\ op'[o].value = op[o].value
      BY <2>1, <2>3 DEF OpRecords
    <3>2. m \in DownMessages /\ m = down[1] /\ 1 \in DOMAIN down
      BY <2>3, Received DEF Books, TypeOK
    <3>3. o = sets[m.name] /\ op[o].target = m.sys /\ op[o].value = m.value
      BY <2>3 DEF Confirms, From
    <3>4. op[o].name = m.name
      BY <3>2, <3>3, ParamAssumption DEF DownMessages, Books, SetsMatchPending
    <3> QED
      BY <1>1, <3>1, <3>2, <3>3, <3>4 DEF SaidHeld
  <2>4. ~(o \in Fetches /\ op'[o].call = "fetch")
    OBVIOUS
  <2> QED
    BY <2>2, <2>3, <2>4, CallSteps DEF CallStep
<1> QED
  BY <1>1, <1>2, <1>3

\* A write is confirmed only when the vehicle it was sent to has at some time held the
\* value, however writes of one name to several vehicles, resends, refusals and the writes
\* of other stations overlap (set, onParamValue).
THEOREM ConfirmationsAreTrue == Spec => []ConfirmedWasHeld
<1>1. Init => HeldTruth
  <2> SUFFICES ASSUME Init PROVE HeldTruth
    OBVIOUS
  <2>1. Books
    BY InitBooks
  <2>2. NowHeld /\ SaidHeld /\ ConfirmedWasHeld
    BY DEF Init, NowHeld, SaidHeld, ConfirmedWasHeld
  <2> QED
    BY <2>1, <2>2 DEF HeldTruth
<1>2. HeldTruth => ConfirmedWasHeld
  BY DEF HeldTruth
<1> QED
  BY <1>1, <1>2, NextHeld, PTL DEF Spec

-----------------------------------------------------------------------------
(* A complete fetch.                                                       *)

\* Nothing of the list of call r's vehicle, which shows n parameters, is outside of it.
WithinList(r, n) == r.total \in {-1, n} /\ \A i \in r.received : i < n

\* The inductive invariant for fetches: while a list that grows does not overlap with a
\* fetch, all that is on its way to it and all that it has collected is about the list
\* that its vehicle shows.
ListsAgree ==
    /\ \A k \in DOMAIN down : down[k].count > 0 /\ down[k].index < down[k].count
    /\ \A o \in Ops : op[o].status = "idle" => op[o].total = -1 /\ op[o].received = {}
    /\ \A o \in Fetches \ outgrown :
          /\ WithinList(op[o], size[op[o].target])
          /\ \A k \in DOMAIN down : From(down[k], o) => down[k].count = size[op[o].target]

WholeList == Books /\ ListsAgree /\ SteadyFetchIsComplete

\* Fewer than n indices cannot be as many as n.
LEMMA CompleteIsWhole ==
    ASSUME NEW r \in OpRecords, NEW n \in 1 .. Len(List), WithinList(r, n), Complete(r)
    PROVE  r.total > 0 /\ 0 .. r.total - 1 \subseteq r.received
<1>1. n \in Nat /\ n > 0 /\ r.total = n /\ Cardinality(r.received) >= n
  BY IndicesCounted DEF Complete, WithinList
<1>2. r.received \subseteq 0 .. n - 1
  BY <1>1, IndicesCounted DEF WithinList, OpRecords, Indices
<1>3. IsFiniteSet(0 .. n - 1) /\ Cardinality(0 .. n - 1) = n
  BY <1>1, FS_Interval
<1>4. /\ Cardinality(r.received) \in Nat /\ Cardinality(r.received) <= n
      /\ Cardinality(r.received) = n => r.received = 0 .. n - 1
  BY <1>2, <1>3, FS_Subset, FS_CardinalityType
<1> QED
  BY <1>1, <1>4

\* What a fetch has collected is kept, or it records the value at the head of the link.
Keeps(o) == op'[o].target = op[o].target /\ op'[o].total = op[o].total /\ op'[o].received = op[o].received

Records(o) ==
    /\ down # <<>> /\ From(Head(down), o)
    /\ op'[o].target = op[o].target
    /\ op'[o].total = Record(op[o], Head(down)).total
    /\ op'[o].received = Record(op[o], Head(down)).received

LEMMA FetchSteps ==
    ASSUME Books, [Next]_vars, NEW o \in Fetches
    PROVE  Keeps(o) \/ Records(o)
<1>0. o \in Ops /\ op[o] \in OpRecords /\ op[o].status = "pending" /\ op \in [Ops -> OpRecords]
  BY DEF Fetches, Pending, Books, TypeOK
<1>1. ASSUME NEW p \in Ops, Enter(p) PROVE Keeps(o)
  <2>1. o # p
    BY <1>0, <1>1 DEF Enter, Refuse, Fetch, Set
  <2>2. op'[o] = op[o] \/ op'[o] = [op[o] EXCEPT !.status = "aborted"]
    BY <1>0, <1>1, <2>1 DEF Enter, Refuse, Fetch, Set
  <2> QED
    BY <1>0, <2>2 DEF Keeps, OpRecords
<1>2. ASSUME NEW S, NEW outcome \in Ended, op' = Settled(S, outcome) PROVE Keeps(o)
  BY <1>0, <1>2, SettledRecords DEF Keeps
<1>3. ASSUME NEW p \in Ops, SetTick(p) \/ FetchQuiet(p) \/ Abort(p) PROVE Keeps(o)
  <2>1. CASE \E outcome \in Ended : op' = Settled({p}, outcome)
    BY <1>2, <2>1
  <2>2. CASE \/ op' = [op EXCEPT ![p].attempts = @ + 1]
             \/ op' = [op EXCEPT ![p].checked = Cardinality(op[p].received), ![p].stall = Stall(op[p])]
    BY <1>0, <2>2 DEF Keeps, OpRecords
  <2> QED
    BY <1>3, <2>1, <2>2 DEF SetTick, FetchQuiet, Abort, Settle, Ended, Rejections
<1>4. ASSUME NEW t \in Systems \cup {None}, OnParamValue(t) PROVE Keeps(o) \/ Records(o)
  <2> DEFINE m == Head(down)
             r == Record(op[o], m)
  <2>1. CASE op' = op
    BY <2>1 DEF Keeps
  <2>2. CASE op' = After(m)
    <3>1. \A q \in OpRecords : LET d == [q EXCEPT !.status = "resolved"]
             IN d.target = q.target /\ d.total = q.total /\ d.received = q.received
      BY DEF OpRecords
    <3>2. CASE From(m, o)
      <4>1. op'[o] = IF Complete(r) THEN [r EXCEPT !.status = "resolved"] ELSE r
        BY <1>0, <2>2, <3>2 DEF After
      <4>2. r.target = op[o].target
        BY <1>0 DEF Record, OpRecords
      <4>3. [r EXCEPT !.status = "resolved"].target = r.target
            /\ [r EXCEPT !.status = "resolved"].total = r.total
            /\ [r EXCEPT !.status = "resolved"].received = r.received
        BY <1>0 DEF Record, OpRecords
      <4> QED
        BY <1>4, <3>2, <4>1, <4>2, <4>3 DEF OnParamValue, Records
    <3>3. CASE ~From(m, o)
      BY <1>0, <2>2, <3>1, <3>3 DEF After, Keeps
    <3> QED
      BY <3>2, <3>3
  <2> QED
    BY <1>4, <2>1, <2>2 DEF OnParamValue
<1>5. CASE Vehicles \/ LoseUp \/ LoseDown \/ UNCHANGED vars
  BY <1>5 DEF Vehicles, VehicleReceives, OtherStation, Grow, LoseUp, LoseDown, vars, calls, Keeps
<1>6. CASE SendFailed \/ Dispose
  BY <1>2, <1>6 DEF SendFailed, Dispose, Settle, Ended, Rejections
<1> QED
  BY <1>1, <1>3, <1>4, <1>5, <1>6 DEF Next

\* Only entering a call changes one that is idle.
LEMMA IdleSteps ==
    ASSUME Books, [Next]_vars, NEW o \in Ops, op[o].status = "idle"
    PROVE  op'[o] = op[o] \/ Enter(o)
<1>0. o \notin Pending /\ op \in [Ops -> OpRecords] /\ \A n \in Names : sets[n] # o
  BY ParamAssumption DEF Pending, Books, TypeOK, SetsMatchPending
<1>1. ASSUME NEW p \in Ops, p # o, Enter(p) PROVE op'[o] = op[o]
  BY <1>0, <1>1 DEF Enter, Refuse, Fetch, Set
<1>2. ASSUME NEW S \in SUBSET Pending, NEW outcome, op' = Settled(S, outcome) PROVE op'[o] = op[o]
  BY <1>0, <1>2 DEF Settled
<1>3. ASSUME NEW p \in Ops, SetTick(p) \/ FetchQuiet(p) \/ Abort(p) PROVE op'[o] = op[o]
  <2>1. p \in Pending
    BY <1>3 DEF SetTick, FetchQuiet, Abort, Fetches, Books, SetsMatchPending
  <2>2. CASE \E outcome : op' = Settled({p}, outcome)
    BY <1>2, <2>1, <2>2
  <2>3. CASE \/ op' = [op EXCEPT ![p].attempts = @ + 1]
             \/ op' = [op EXCEPT ![p].checked = Cardinality(op[p].received), ![p].stall = Stall(op[p])]
    BY <1>0, <2>1, <2>3
  <2> QED
    BY <1>3, <2>2, <2>3 DEF SetTick, FetchQuiet, Abort, Settle
<1>4. ASSUME NEW t \in Systems \cup {None}, OnParamValue(t) PROVE op'[o] = op[o]
  <2>1. CASE op' = op
    BY <2>1
  <2>2. CASE op' = After(Head(down))
    <3>1. Head(down).name \in Names
      BY <1>4, Received DEF OnParamValue, DownMessages
    <3> QED
      BY <1>0, <2>2, <3>1 DEF After, Confirms, Fetches
  <2> QED
    BY <1>4, <2>1, <2>2 DEF OnParamValue
<1>5. CASE Vehicles \/ LoseUp \/ LoseDown \/ UNCHANGED vars
  BY <1>5 DEF Vehicles, VehicleReceives, OtherStation, Grow, LoseUp, LoseDown, vars, calls
<1>6. CASE SendFailed
  <2>1. (IF Head(up).kind = "SET" THEN {sets[Head(up).name]} \ {None} ELSE {}) \in SUBSET Pending
    <3>1. Head(up) \in UpMessages
      BY <1>6 DEF SendFailed, Books, TypeOK
    <3> QED
      BY <3>1 DEF Books, SetsMatchPending, UpMessages
  <2> QED
    BY <1>2, <1>6, <2>1 DEF SendFailed, Settle
<1>7. CASE Dispose
  BY <1>2, <1>7 DEF Dispose, Settle
<1> QED
  BY <1>1, <1>3, <1>4, <1>5, <1>6, <1>7 DEF Next

\* What a vehicle shows stays the same for the fetches that nothing outgrows.
LEMMA SizeSteps ==
    ASSUME Books, [Next]_vars
    PROVE  /\ outgrown \subseteq outgrown'
           /\ \A o \in Fetches \ outgrown' : size'[op[o].target] = size[op[o].target]
<1>1. CASE \E v \in Systems : Grow(v)
  <2>1. PICK v \in Systems : Grow(v)
    BY <1>1
  <2>2. /\ size' = [size EXCEPT ![v] = @ + 1]
        /\ outgrown' = outgrown \cup {o \in Fetches : op[o].target = v}
    BY <2>1 DEF Grow
  <2>3. \A w \in Systems \ {v} : size'[w] = size[w]
    BY <2>2 DEF Books, TypeOK
  <2>4. \A o \in Fetches \ outgrown' : op[o].target \in Systems \ {v}
    BY <2>2 DEF Books, TargetsKnown, Fetches, Pending
  <2> QED
    BY <2>2, <2>3, <2>4
<1>2. CASE \E o \in Ops, t \in Systems : Fetch(o, t)
  BY <1>2 DEF Fetch
<1>3. CASE VehicleReceives
  BY <1>3 DEF VehicleReceives, VehicleSends, VehicleSets, vehicle
<1>4. CASE \/ \E o \in Ops : SetTick(o) \/ FetchQuiet(o) \/ Abort(o)
           \/ \E o \in Ops, call \in {"fetch", "set"}, t \in Systems \cup {None} : Refuse(o, call, t)
           \/ \E o \in Ops, t \in Systems, n \in Names, x \in Values : Set(o, t, n, x)
           \/ \E t \in Systems \cup {None} : OnParamValue(t)
           \/ \E v \in Systems, i \in Indices, x \in Values, listed \in BOOLEAN : OtherStation(v, i, x, listed)
           \/ LoseUp \/ LoseDown \/ SendFailed \/ Dispose \/ UNCHANGED vars
  BY <1>4 DEF Refuse, Set, SetTick, FetchQuiet, Abort, OnParamValue, OtherStation, LoseUp, LoseDown,
              SendFailed, Dispose, vars, vehicle
<1> QED
  BY <1>1, <1>2, <1>3, <1>4 DEF Next, Enter, Vehicles

\* A fetch that is in flight was so before, or has just been called.
LEMMA FetchesBefore ==
    ASSUME Books, [Next]_vars, NEW o \in Fetches'
    PROVE  o \in Ops /\ (o \in Fetches \/ \E t \in Systems : Fetch(o, t))
<1>1. o \in Ops /\ op'[o].status = "pending" /\ op'[o].call = "fetch" /\ op[o] \in OpRecords
  BY DEF Fetches, Pending, Books, TypeOK
<1>2. CASE op[o].status = "idle"
  <2>1. Enter(o)
    BY <1>1, <1>2, IdleSteps
  <2>2. \A call \in {"fetch", "set"}, t \in Systems \cup {None} : ~Refuse(o, call, t)
    BY <1>1, RefusedIsOver
  <2>3. ASSUME NEW t \in Systems, NEW n \in Names, NEW x \in Values, Set(o, t, n, x) PROVE FALSE
    <3>1. op'[o] = [op[o] EXCEPT !.status = "pending", !.call = "set", !.target = t,
                          !.name = n, !.value = x, !.attempts = 1]
      BY <1>1, <2>3 DEF Set
    <3> QED
      BY <1>1, <3>1 DEF OpRecords
  <2> QED
    BY <1>1, <2>1, <2>2, <2>3 DEF Enter
<1>3. CASE op[o].status # "idle"
  <2>1. op'[o].call = op[o].call
    BY <1>1, <1>3, CallsStay
  <2>2. op[o].status = "pending"
    <3>1. op[o].status \in Statuses
      BY <1>1 DEF OpRecords
    <3>2. op[o].status \notin Ended \/ op'[o] = op[o] \/ o \in Fetches
      \/ (o \in Confirms(Head(down)) /\ op'[o] = [op[o] EXCEPT !.status = "resolved"])
      BY <1>1, CallSteps DEF CallStep
    <3>3. op'[o] # [op[o] EXCEPT !.status = "resolved"]
      BY <1>1 DEF OpRecords
    <3> QED
      BY <1>1, <1>3, <3>1, <3>2, <3>3 DEF Statuses, Ended, Fetches, Pending
  <2> QED
    BY <1>1, <2>1, <2>2 DEF Fetches, Pending
<1> QED
  BY <1>2, <1>3

\* A fetch that nothing outgrows keeps within the list, and knows how long it is.
LEMMA FetchStaysWithin ==
    ASSUME WholeList, [Next]_vars, NEW o \in Fetches \ outgrown'
    PROVE  /\ op'[o].target = op[o].target /\ op[o].target \in Systems
           /\ size'[op[o].target] = size[op[o].target]
           /\ WithinList(op'[o], size[op[o].target])
<1> USE DEF WholeList
<1> DEFINE n == size[op[o].target]
           m == Head(down)
<1>1. o \in Ops /\ op[o] \in OpRecords /\ op[o].target \in Systems
  BY DEF Fetches, Pending, Books, TypeOK, TargetsKnown
<1>2. o \notin outgrown /\ size'[op[o].target] = n
  BY SizeSteps
<1>3. WithinList(op[o], n) /\ \A k \in DOMAIN down : From(down[k], o) => down[k].count = n
  BY <1>2 DEF ListsAgree
<1>4. CASE Keeps(o)
  BY <1>1, <1>2, <1>3, <1>4 DEF Keeps, WithinList
<1>5. CASE Records(o)
  <2>1. m \in DownMessages /\ 1 \in DOMAIN down /\ m = down[1]
    BY <1>5, Received DEF Records, Books, TypeOK
  <2>2. m.count = n /\ m.index < n
    BY <1>3, <1>5, <2>1 DEF Records, ListsAgree
  <2>3. /\ Record(op[o], m).total = IF op[o].total = -1 /\ m.count > 0 THEN m.count ELSE op[o].total
        /\ Record(op[o], m).received = IF m.index = -1 THEN op[o].received ELSE op[o].received \cup {m.index}
    BY <1>1 DEF Record, OpRecords
  <2> QED
    BY <1>1, <1>2, <1>3, <1>5, <2>2, <2>3 DEF Records, WithinList
<1> QED
  BY <1>4, <1>5, FetchSteps

LEMMA NextAgree == WholeList /\ [Next]_vars => ListsAgree'
<1> SUFFICES ASSUME WholeList, [Next]_vars PROVE ListsAgree'
  OBVIOUS
<1> USE DEF WholeList
<1>1. Books'
  BY NextBooks
<1>2. ASSUME NEW k \in DOMAIN down' PROVE down'[k].count > 0 /\ down'[k].index < down'[k].count
  <2>1. CASE \E j \in DOMAIN down : down'[k] = down[j]
    BY <2>1 DEF ListsAgree
  <2>2. ASSUME NEW v \in Systems, NEW i \in Indices, NEW listed \in BOOLEAN, i < size[v],
               down'[k] = Value(v, i, listed)
        PROVE  down'[k].count > 0 /\ down'[k].index < down'[k].count
    <3>1. /\ size[v] \in 1 .. Len(List) /\ Len(List) \in Nat /\ i \in Int
      BY <2>2, IndicesCounted DEF Books, TypeOK, Indices
    <3>2. down'[k].count = size[v] /\ down'[k].index = IF listed THEN i ELSE -1
      BY <2>2 DEF Value
    <3> QED
      BY <2>2, <3>1, <3>2
  <2> QED
    BY <2>1, <2>2, DownSteps DEF Announces
<1>3. ASSUME NEW o \in Ops, op'[o].status = "idle" PROVE op'[o].total = -1 /\ op'[o].received = {}
  <2>1. op[o].status = "idle"
    BY <1>3, CallsStay
  <2>2. ~Enter(o)
    <3>1. ASSUME NEW t, NEW n, NEW x, Set(o, t, n, x) PROVE FALSE
      <4>1. op'[o] = [op[o] EXCEPT !.status = "pending", !.call = "set", !.target = t,
                          !.name = n, !.value = x, !.attempts = 1]
        BY <3>1 DEF Set
      <4> QED
        BY <1>3, <4>1 DEF Books, TypeOK, OpRecords
    <3>2. \A call \in {"fetch", "set"}, t \in Systems \cup {None} : ~Refuse(o, call, t)
      BY <1>3, RefusedIsOver
    <3>3. \A t \in Systems : ~Fetch(o, t)
      BY <1>3 DEF Fetch, Books, TypeOK, OpRecords
    <3> QED
      BY <3>1, <3>2, <3>3 DEF Enter
  <2> QED
    BY <2>1, <2>2, IdleSteps DEF ListsAgree
<1>4. ASSUME NEW o \in Fetches' \ outgrown'
      PROVE  /\ WithinList(op'[o], size'[op'[o].target])
             /\ \A k \in DOMAIN down' : down'[k].sys = op'[o].target => down'[k].count = size'[op'[o].target]
  <2>1. CASE o \in Fetches
    <3>1. /\ op'[o].target = op[o].target /\ op[o].target \in Systems
          /\ size'[op[o].target] = size[op[o].target]
          /\ WithinList(op'[o], size[op[o].target])
      BY <1>4, <2>1, FetchStaysWithin
    <3>2. ASSUME NEW k \in DOMAIN down', down'[k].sys = op'[o].target
          PROVE  down'[k].count = size'[op'[o].target]
      <4>1. CASE \E j \in DOMAIN down : down'[k] = down[j]
        BY <1>4, <2>1, <3>1, <3>2, <4>1, SizeSteps DEF ListsAgree, From
      <4>2. CASE Announces(down'[k])
        BY <3>1, <3>2, <4>2 DEF Announces, Value
      <4> QED
        BY <4>1, <4>2, DownSteps
    <3> QED
      BY <3>1, <3>2
  <2>2. ASSUME NEW t \in Systems, Fetch(o, t), o \in Ops
        PROVE  /\ WithinList(op'[o], size'[op'[o].target])
               /\ \A k \in DOMAIN down' : down'[k].sys = op'[o].target => down'[k].count = size'[op'[o].target]
    <3>1. op[o] \in OpRecords /\ op[o].total = -1 /\ op[o].received = {}
      BY <2>2 DEF Fetch, ListsAgree, Books, TypeOK
    <3>2. op'[o].target = t /\ op'[o].total = -1 /\ op'[o].received = {}
      BY <2>2, <3>1 DEF Fetch, Books, TypeOK, OpRecords
    <3>3. ~Outdated(t) /\ down' = down /\ size' = size
      BY <1>4, <2>2 DEF Fetch
    <3> QED
      BY <3>2, <3>3 DEF Outdated, WithinList
  <2> QED
    BY <2>1, <2>2, FetchesBefore, <1>4
<1> QED
  BY <1>2, <1>3, <1>4 DEF ListsAgree, From

LEMMA NextWhole == WholeList /\ [Next]_vars => WholeList'
<1> SUFFICES ASSUME WholeList, [Next]_vars PROVE WholeList'
  OBVIOUS
<1>1. Books /\ Books' /\ ListsAgree'
  BY NextBooks, NextAgree DEF WholeList
<1>2. SteadyFetchIsComplete'
  <2> SUFFICES ASSUME NEW o \in Ops \ outgrown', op'[o].call = "fetch", op'[o].status = "resolved"
               PROVE  op'[o].total > 0 /\ 0 .. op'[o].total - 1 \subseteq op'[o].received
    BY DEF SteadyFetchIsComplete
  <2>1. op[o] \in OpRecords /\ op'[o] \in OpRecords /\ o \notin outgrown
    BY <1>1, SizeSteps DEF Books, TypeOK
  <2>2. CASE op'[o] = op[o]
    BY <2>1, <2>2 DEF WholeList, SteadyFetchIsComplete
  <2>3. CASE o \in Fetches /\ Complete(op'[o])
    <3>1. /\ op[o].target \in Systems
          /\ WithinList(op'[o], size[op[o].target])
      BY <2>3, FetchStaysWithin
    <3>2. size[op[o].target] \in 1 .. Len(List)
      BY <1>1, <3>1 DEF Books, TypeOK
    <3> QED
      BY <2>1, <2>3, <3>1, <3>2, CompleteIsWhole
  <2>4. CASE down # <<>> /\ o \in Confirms(Head(down)) /\ op'[o] = [op[o] EXCEPT !.status = "resolved"]
    <3>1. o \in Pending \ Fetches
      BY <1>1, <2>4, Received DEF Confirms, DownMessages, Books, SetsMatchPending
    <3>2. op[o].call = op'[o].call
      BY <2>1, <2>4 DEF OpRecords
    <3> QED
      BY <3>1, <3>2 DEF Fetches
  <2> QED
    BY <1>1, <2>2, <2>3, <2>4, CallSteps DEF CallStep
<1> QED
  BY <1>1, <1>2 DEF WholeList

\* A fetch that resolves has every index of the list, whatever was lost, repeated, requested
\* again or set meanwhile and however many calls and vehicles there are, unless its vehicle
\* began to show more parameters while it ran or what it announced before that was still
\* on its way (recordFetch, onFetchQuiet).
THEOREM FetchesAreComplete == Spec => []SteadyFetchIsComplete
<1>1. Init => WholeList
  <2> SUFFICES ASSUME Init PROVE WholeList
    OBVIOUS
  <2>1. Books
    BY InitBooks
  <2>2. ListsAgree /\ SteadyFetchIsComplete
    BY DEF Init, ListsAgree, SteadyFetchIsComplete, Fetches, Pending
  <2> QED
    BY <2>1, <2>2 DEF WholeList
<1>2. WholeList => SteadyFetchIsComplete
  BY DEF WholeList
<1> QED
  BY <1>1, <1>2, NextWhole, PTL DEF Spec
=============================================================================
