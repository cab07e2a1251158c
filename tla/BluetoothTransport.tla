------------------------- MODULE BluetoothTransport -------------------------
(***************************************************************************)
(* src/src/transport/bluetooth/bluetooth-transport.ts: open() is a chain   *)
(* of awaits on the Web Bluetooth API, and close() may come at any of them *)
(***************************************************************************)
EXTENDS Naturals, FiniteSets

CONSTANTS
    MaxOpens,   \* calls of open() (bound)
    MaxCloses,  \* calls of close() (bound)
    Overlaps    \* whether the owner opens again while an open() or a close() is under way

Opens == 1..MaxOpens
\* What open() awaits, in order; "done" is no longer waiting.
Steps == <<"device", "gatt", "service", "rx", "tx", "notify">>

VARIABLES
    state,      \* #state.kind
    conn,       \* #device, #server, #rxChar, #txChar: the open() that set them, 0 for null
    step,       \* per open(): 0 before, the place in Steps it awaits, 7 when it has settled
    stale,      \* the open()s whose epoch is not #openEpoch
    gatt,       \* the open()s whose GATT server is connected
    notifying,  \* those whose notifications are delivered
    closing,    \* close()s that await stopNotifications, by the connection they hold
    closes,     \* close()s so far
    writing,    \* writes under way, by their connection
    call        \* the promise of the last open()

vars == <<state, conn, step, stale, gatt, notifying, closing, closes, writing, call>>

TypeOK ==
    /\ state \in {"closed", "opening", "open", "error"}
    /\ conn \in 0..MaxOpens /\ step \in [Opens -> 0..7]
    /\ stale \subseteq Opens /\ gatt \subseteq Opens /\ notifying \subseteq Opens
    /\ closing \in [Opens -> 0..MaxCloses] /\ closes \in 0..MaxCloses
    /\ writing \subseteq Opens /\ call \in {"none", "pending", "resolved", "rejected"}

Init ==
    /\ state = "closed" /\ conn = 0 /\ step = [o \in Opens |-> 0] /\ stale = {}
    /\ gatt = {} /\ notifying = {} /\ closing = [o \in Opens |-> 0] /\ closes = 0
    /\ writing = {} /\ call = "none"

Pending == {o \in Opens : step[o] \in 1..6}
Busy == Pending # {} \/ \E o \in Opens : closing[o] > 0

-----------------------------------------------------------------------------
Open(o) ==
    /\ step[o] = 0 /\ \A p \in Opens : p < o => step[p] > 0
    /\ conn = 0 /\ state \notin {"opening", "open"}
    /\ Overlaps \/ ~Busy
    /\ state' = "opening" /\ step' = [step EXCEPT ![o] = 1] /\ call' = "pending"
    /\ UNCHANGED <<conn, stale, gatt, notifying, closing, closes, writing>>

\* Mutant: the device stays connected.
KeepGatt(o) == gatt' = gatt
\* The catch of open(), also after #throwIfClosedDuringOpen: what this open()
\* connected is let go, and the fields are reset, whoever set them.
Disconnect(o) == gatt' = gatt \ {o}
Fail(o, shown) ==
    /\ Disconnect(o) /\ notifying' = notifying \ {o}
    /\ conn' = 0 /\ state' = shown
    /\ step' = [step EXCEPT ![o] = 7]
    /\ call' = IF \A p \in Opens : p > o => step[p] = 0 THEN "rejected" ELSE call
    /\ UNCHANGED <<stale, closing, closes, writing>>

\* An awaited call answers: the next one is made, or the link is open.
Answer(o) ==
    /\ o \in Pending
    /\ IF o \in stale THEN Fail(o, "closed")
       ELSE /\ gatt' = IF Steps[step[o]] = "gatt" THEN gatt \cup {o} ELSE gatt
            /\ step' = [step EXCEPT ![o] = @ + 1]
            /\ IF step[o] < 6 THEN UNCHANGED <<state, conn, notifying, call>>
               ELSE /\ notifying' = notifying \cup {o}
                    /\ conn' = o /\ state' = "open" /\ call' = "resolved"
            /\ UNCHANGED <<stale, closing, closes, writing>>

\* An awaited call fails: the chooser is dismissed, the device is out of range,
\* the service is not there.
Refuse(o) == o \in Pending /\ Fail(o, "error")

\* close() as far as its only await.
Close ==
    /\ closes < MaxCloses /\ closes' = closes + 1
    /\ stale' = stale \cup Pending
    /\ \/ conn = 0 /\ state' = "closed" /\ UNCHANGED <<notifying, closing>>
       \/ /\ conn # 0
          /\ notifying' = notifying \ {conn}
          /\ closing' = [closing EXCEPT ![conn] = @ + 1] /\ UNCHANGED state
    /\ UNCHANGED <<conn, step, gatt, writing, call>>
CloseDone(o) ==
    /\ closing[o] > 0 /\ closing' = [closing EXCEPT ![o] = @ - 1]
    /\ gatt' = gatt \ {o} /\ conn' = 0 /\ state' = "closed"
    /\ UNCHANGED <<step, stale, notifying, closes, writing, call>>

\* The device goes away; only a connection that is installed listens.
GattDisconnect(o) ==
    /\ o \in gatt /\ gatt' = gatt \ {o}
    /\ IF conn = o /\ o \in notifying
       THEN conn' = 0 /\ state' = "error" /\ notifying' = notifying \ {o}
       ELSE UNCHANGED <<conn, state, notifying>>
    /\ UNCHANGED <<step, stale, closing, closes, writing, call>>

\* A write, and its failure, which may arrive when the link has changed.
Write ==
    /\ conn # 0 /\ state = "open" /\ writing' = writing \cup {conn}
    /\ UNCHANGED <<state, conn, step, stale, gatt, notifying, closing, closes, call>>
WriteFails(o) ==
    /\ o \in writing /\ writing' = writing \ {o} /\ state' = "error"
    /\ UNCHANGED <<conn, step, stale, gatt, notifying, closing, closes, call>>

Next ==
    \/ Close \/ Write
    \/ \E o \in Opens : Open(o) \/ Answer(o) \/ Refuse(o) \/ CloseDone(o)
                        \/ GattDisconnect(o) \/ WriteFails(o)
Spec == Init /\ [][Next]_vars

-----------------------------------------------------------------------------
\* #device is set, or an open() holds a server of its own.
Held == conn # 0 \/ \E o \in Pending : step[o] > 2

\* Nobody but the link that is installed, and the calls under way, keeps a device
\* connected or its notifications coming: bytes of a device that was let go do
\* not reach the link.
NothingLeftConnected ==
    /\ gatt \subseteq {conn} \cup Pending
    /\ notifying \subseteq {conn} \ {0}

\* "Drop per-connection state so the instance can be opened again": a link that
\* is open has its device, whatever earlier calls still do.
OpenHasDevice == state = "open" => conn # 0

\* An inductive invariant of an owner that takes turns: one open() at a time and none
\* while a connection or a close() is there; an open() that no close() overtook is not
\* shown as closed.
Inv ==
    /\ TypeOK /\ NothingLeftConnected /\ OpenHasDevice
    /\ \A o, p \in Opens : o < p /\ step[p] > 0 => step[o] = 7
    /\ conn # 0 \/ (\E o \in Opens : closing[o] > 0) => Pending = {}
    /\ \A o \in Opens : /\ closing[o] > 0 => conn \in {0, o} /\ notifying = {}
                        /\ closing[o] <= closes
    /\ (call = "pending") = (Pending # {})
    /\ state = "opening" => Pending # {}
    /\ \A o \in stale : step[o] > 0
    /\ Pending \subseteq stale \/ state # "closed"
=============================================================================
