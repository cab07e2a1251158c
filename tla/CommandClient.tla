--------------------------- MODULE CommandClient ---------------------------
(***************************************************************************)
(* The COMMAND_LONG / COMMAND_ACK microservice of                          *)
(* src/mavlink/microservices/command/command-client.ts with the vehicles   *)
(* it talks to: retry until acknowledged, correlation of acknowledgements  *)
(* by command id and source, IN_PROGRESS, the legacy SET_MODE fallback,    *)
(* abort, send failures and disposal.  The active vehicle may be another one   *)
(* (or none) at every call: getActiveVehicle() is read once, on entry.     *)
(*                                                                         *)
(* The radio loses, repeats and reorders: `wire` and `acks` only grow, and *)
(* a message may be received any number of times, or never.  Time is       *)
(* abstract: an armed timer may fire at any moment.                        *)
(***************************************************************************)
EXTENDS Integers, FiniteSets

CONSTANTS
    Ops,          \* one element per call of send, setMode, guidedGoto, ...
    Systems,      \* MAVLink system ids of the vehicles in range
    Components,   \* MAVLink component ids
    Commands,     \* MAV_CMD ids
    ModeCommand,  \* MAV_CMD_DO_SET_MODE, the one with a legacy fallback
    MaxAttempts,  \* deps.maxAttempts
    MaxAcks,      \* bound: different acknowledgements the vehicles produce
    None          \* no active vehicle

Targets == [sysid : Systems, compid : Components]

ASSUME CommandAssumption ==
    /\ ModeCommand \in Commands
    /\ MaxAttempts \in Nat \ {0}
    /\ MaxAcks \in Nat
    /\ None \notin Targets

\* DENIED stands for every other terminal result: DENIED, FAILED, *_ONLY.
Results == {"ACCEPTED", "IN_PROGRESS", "TEMPORARILY_REJECTED", "UNSUPPORTED", "DENIED"}

\* send: send() and the helpers that only await it (arm, takeoff, land, setRoi).
\* mode: setMode, also behind rtl and land.  oneway: guidedGoto, setCurrentWp.
Kinds == {"send", "mode", "oneway"}

\* CommandErrorReason, with "legacy" for a call that awaits a one-way send.
Rejections == {"no-vehicle", "aborted", "timeout", "rejected", "send-failed"}
Statuses == {"idle", "pending", "legacy", "resolved"} \cup Rejections

Messages ==
    [op : Ops, oneway : BOOLEAN, confirm : Nat, target : Targets, cmd : Commands]
Acks == [sysid : Systems, compid : Components, cmd : Commands, result : Results]

VARIABLES
    disposed,   \* CommandClient.disposed
    op,         \* the Pending record of each call and how its promise ended
    issued,     \* calls pushed on CommandClient.pending so far
    armed,      \* calls whose resend or progress timer is running
    listening,  \* calls with a registered abort listener
    sends,      \* messages whose sendMessage promise has not settled
    wire,       \* messages that went out on the link
    acks        \* acknowledgements the vehicles sent

vars == <<disposed, op, issued, armed, listening, sends, wire, acks>>

OpRecords ==
    [status : Statuses, kind : Kinds, target : Targets \cup {None}, cmd : Commands,
     attempts : Nat, inProgress : BOOLEAN, ord : Nat]

TypeOK ==
    /\ disposed \in BOOLEAN
    /\ op \in [Ops -> OpRecords]
    /\ issued \in Nat
    /\ armed \subseteq Ops
    /\ listening \subseteq Ops
    /\ sends \subseteq Messages
    /\ wire \subseteq Messages
    /\ acks \subseteq Acks

Pending == {o \in Ops : op[o].status = "pending"}

Init ==
    /\ disposed = FALSE
    /\ op = [o \in Ops |-> [status |-> "idle", kind |-> "send", target |-> None,
                            cmd |-> ModeCommand, attempts |-> 0,
                            inProgress |-> FALSE, ord |-> 0]]
    /\ issued = 0
    /\ armed = {} /\ listening = {}
    /\ sends = {} /\ wire = {} /\ acks = {}

-----------------------------------------------------------------------------
(* Entering the client.                                                    *)

\* Why the entry checks of a call of kind k turn it down when getActiveVehicle()
\* returns t.
Refusals(k, t) ==
    CASE k = "send"   -> IF disposed THEN {"aborted"}
                         ELSE IF t = None THEN {"no-vehicle"}
                         ELSE {"aborted"}      \* its signal is already aborted
      [] k = "mode"   -> IF t = None THEN {"no-vehicle"}
                         ELSE {"rejected"}     \* unknown mode for this class
                              \cup (IF disposed THEN {"aborted"} ELSE {})
      [] k = "oneway" -> IF t = None THEN {"no-vehicle"} ELSE {}

Refuse(o, k, t) ==
    /\ op[o].status = "idle"
    /\ \E why \in Refusals(k, t) : op' = [op EXCEPT ![o].status = why, ![o].kind = k]
    /\ UNCHANGED <<disposed, issued, armed, listening, sends, wire, acks>>

\* The message one transmission of call o puts on the link.
CommandMessage(o, t, c, n) ==
    [op |-> o, oneway |-> FALSE, confirm |-> n, target |-> t, cmd |-> c]

\* Mutant: the fallback reads a vehicle that is gone.
OneWayMessageUnaddressed(o, t, c) ==
    [op |-> o, oneway |-> TRUE, confirm |-> 0, target |-> None, cmd |-> c]

OneWayMessage(o, t, c) ==
    [op |-> o, oneway |-> TRUE, confirm |-> 0, target |-> t, cmd |-> c]

\* send(): push the Pending record, transmit it and start the resend timer.
Send(o, k, c, t, withSignal) ==
    /\ op[o].status = "idle"
    /\ ~disposed
    /\ k = "mode" => c = ModeCommand /\ ~withSignal
    /\ op' = [op EXCEPT ![o] = [status |-> "pending", kind |-> k, target |-> t,
                                cmd |-> c, attempts |-> 1, inProgress |-> FALSE,
                                ord |-> issued]]
    /\ issued' = issued + 1
    /\ armed' = armed \cup {o}
    /\ listening' = IF withSignal THEN listening \cup {o} ELSE listening
    /\ sends' = sends \cup {CommandMessage(o, t, c, 0)}
    /\ UNCHANGED <<disposed, wire, acks>>

\* guidedGoto, setCurrentWp: one message, and the promise of its sendMessage.
SendOneWay(o, c, t) ==
    /\ op[o].status = "idle"
    /\ op' = [op EXCEPT ![o].status = "legacy", ![o].kind = "oneway",
                        ![o].target = t, ![o].cmd = c]
    /\ sends' = sends \cup {OneWayMessage(o, t, c)}
    /\ UNCHANGED <<disposed, issued, armed, listening, wire, acks>>

-----------------------------------------------------------------------------
(* How a call ends.                                                        *)

\* Mutant: the timer of a settled call keeps running.
SettleKeepsTimer(S, outcome) ==
    /\ op' = [o \in Ops |-> IF o \in S THEN [op[o] EXCEPT !.status = outcome] ELSE op[o]]
    /\ listening' = listening \ S
    /\ UNCHANGED armed

\* settle(): the timer is cancelled, the abort listener detached.
Settle(S, outcome) ==
    /\ op' = [o \in Ops |-> IF o \in S THEN [op[o] EXCEPT !.status = outcome] ELSE op[o]]
    /\ armed' = armed \ S
    /\ listening' = listening \ S

\* The worker took the message; a one-way call is done with that.
SendDone(m) ==
    /\ m \in sends
    /\ sends' = sends \ {m}
    /\ wire' = wire \cup {m}
    /\ op' = IF m.oneway THEN [op EXCEPT ![m.op].status = "resolved"] ELSE op
    /\ UNCHANGED <<disposed, issued, armed, listening, acks>>

\* Mutant: a failed send settles its call again.
SendFailedTwice(m) ==
    /\ m \in sends
    /\ sends' = sends \ {m}
    /\ Settle({m.op}, "send-failed")
    /\ UNCHANGED <<disposed, issued, wire, acks>>

\* sendMessage rejected: the link is not attached, or the worker is gone.
SendFailed(m) ==
    /\ m \in sends
    /\ sends' = sends \ {m}
    /\ Settle(IF m.oneway \/ m.op \in Pending THEN {m.op} ELSE {}, "send-failed")
    /\ UNCHANGED <<disposed, issued, wire, acks>>

\* Timer of call o with `limit` transmissions allowed.
TickWithLimit(o, limit) ==
    /\ o \in armed
    /\ IF op[o].inProgress \/ op[o].attempts >= limit
       THEN /\ Settle({o}, "timeout")
            /\ UNCHANGED sends
       ELSE /\ op' = [op EXCEPT ![o].attempts = @ + 1]
            /\ sends' = sends \cup {CommandMessage(o, op[o].target, op[o].cmd,
                                                   op[o].attempts)}
            /\ UNCHANGED <<armed, listening>>
    /\ UNCHANGED <<disposed, issued, wire, acks>>

\* Mutants: one transmission too many, one too few.
TickOneMore(o) == TickWithLimit(o, MaxAttempts + 1)
TickOneLess(o) == TickWithLimit(o, MaxAttempts - 1)

\* tick(): resend, or give up.
Tick(o) == TickWithLimit(o, MaxAttempts)

Abort(o) ==
    /\ o \in listening
    /\ Settle({o}, "aborted")
    /\ UNCHANGED <<disposed, issued, sends, wire, acks>>

Dispose ==
    /\ ~disposed
    /\ disposed' = TRUE
    /\ Settle(Pending, "aborted")
    /\ UNCHANGED <<issued, sends, wire, acks>>

-----------------------------------------------------------------------------
(* Acknowledgements.                                                       *)

\* Mutants: an acknowledgement is not matched with its source, or its command.
CandidatesAnySource(a) == {o \in Pending : op[o].cmd = a.cmd}
CandidatesAnyCommand(a) == {o \in Pending : op[o].target.sysid = a.sysid}

\* Pending calls the acknowledgement may be for: onAck().
Candidates(a) == {o \in Pending : op[o].cmd = a.cmd /\ op[o].target.sysid = a.sysid}
SameComponent(a) == {o \in Candidates(a) : op[o].target.compid = a.compid}
Oldest(S) == {o \in S : \A q \in S : op[o].ord <= op[q].ord}

\* The call an acknowledgement belongs to: same component first, then oldest.
Correlated(a) ==
    IF SameComponent(a) # {} THEN Oldest(SameComponent(a)) ELSE Oldest(Candidates(a))

\* Mutant: IN_PROGRESS cancels the resend timer and starts no other.
ProgressWithoutDeadline(p) ==
    /\ op' = [op EXCEPT ![p].inProgress = TRUE]
    /\ armed' = armed \ {p}
    /\ UNCHANGED <<listening, sends>>

\* IN_PROGRESS: stop resending and extend the deadline.
Progress(p) ==
    /\ op' = [op EXCEPT ![p].inProgress = TRUE]
    /\ armed' = armed \cup {p}
    /\ UNCHANGED <<listening, sends>>

\* setMode catches UNSUPPORTED and retries with the legacy SET_MODE message.
FallBack(p) ==
    /\ Settle({p}, "legacy")
    /\ sends' = sends \cup {OneWayMessage(p, op[p].target, op[p].cmd)}

OnAck(a) ==
    /\ ~disposed
    /\ a \in acks
    /\ \E p \in Correlated(a) :
          CASE a.result = "IN_PROGRESS" -> Progress(p)
            [] a.result = "ACCEPTED" -> Settle({p}, "resolved") /\ UNCHANGED sends
            [] a.result = "TEMPORARILY_REJECTED" -> UNCHANGED <<op, armed, listening, sends>>
            [] a.result = "UNSUPPORTED" /\ op[p].kind = "mode" -> FallBack(p)
            [] OTHER -> Settle({p}, "rejected") /\ UNCHANGED sends
    /\ UNCHANGED <<disposed, issued, wire, acks>>

\* A vehicle answers a command it received; any of its components may speak.
VehicleAnswers(m, comp, r) ==
    /\ m \in wire /\ ~m.oneway
    /\ Cardinality(acks) < MaxAcks
    /\ acks' = acks \cup {[sysid |-> m.target.sysid, compid |-> comp,
                           cmd |-> m.cmd, result |-> r]}
    /\ UNCHANGED <<disposed, op, issued, armed, listening, sends, wire>>

-----------------------------------------------------------------------------

\* Some call is made while t is the active vehicle.
Enter(o) ==
    \/ \E k \in Kinds, t \in Targets \cup {None} : Refuse(o, k, t)
    \/ \E k \in {"send", "mode"}, c \in Commands, t \in Targets, s \in BOOLEAN :
          Send(o, k, c, t, s)
    \/ \E c \in Commands, t \in Targets : SendOneWay(o, c, t)

Next ==
    \/ \E o \in Ops : Enter(o) \/ Tick(o) \/ Abort(o)
    \/ \E m \in sends : SendDone(m) \/ SendFailed(m)
    \/ \E a \in acks : OnAck(a)
    \/ \E m \in wire, comp \in Components, r \in Results : VehicleAnswers(m, comp, r)
    \/ Dispose

Spec == Init /\ [][Next]_vars

\* setTimeout fires, and the worker answers every sendMessage call.
Fairness ==
    /\ \A o \in Ops : WF_vars(Tick(o))
    /\ WF_vars(\E m \in sends : SendDone(m) \/ SendFailed(m))

FairSpec == Spec /\ Fairness

-----------------------------------------------------------------------------
(* Properties.                                                             *)

\* The vehicle v accepted, or answered r to, command c.
Answered(v, c, r) == \E a \in acks : a.sysid = v /\ a.cmd = c /\ a.result = r

\* The operator is told "done" only for a command that the vehicle it was
\* addressed to has accepted, however the selection moved while it waited; a
\* setMode that ended through the legacy message was first refused as
\* UNSUPPORTED by that vehicle (onAck, setMode).
ResolvedWasAccepted ==
    \A o \in Ops : op[o].status = "resolved" /\ op[o].kind # "oneway" =>
        \/ Answered(op[o].target.sysid, op[o].cmd, "ACCEPTED")
        \/ /\ op[o].kind = "mode"
           /\ Answered(op[o].target.sysid, op[o].cmd, "UNSUPPORTED")
           /\ \E m \in wire : m.op = o /\ m.oneway

\* Whatever leaves for a call, first transmission, resend or legacy fallback,
\* goes to the vehicle that was active when the call was made, and there are
\* at most maxAttempts transmissions of a command (transmit, tick, setMode).
TransmissionsBoundedAndAddressed ==
    \A m \in sends \cup wire :
        /\ m.target = op[m.op].target
        /\ m.cmd = op[m.op].cmd
        /\ m.confirm < MaxAttempts

\* No call hangs and no timer outlives its call: exactly the calls on the
\* pending list have a running timer, and only they listen for an abort.
TimersMatchPending ==
    /\ armed = Pending
    /\ listening \subseteq Pending

\* A call reports a timeout only when it has used all its transmissions, or
\* when the vehicle had announced progress and then fell silent (tick).
TimeoutMeansExhausted ==
    \A o \in Ops : op[o].status = "timeout" =>
        op[o].attempts = MaxAttempts \/ op[o].inProgress

Settled == Rejections \cup {"resolved"}

\* A promise settles once: a late acknowledgement, tick, abort, send failure or
\* disposal never changes how a call ended (the settled flag of settle()).
SettledForever ==
    [][\A o \in Ops : op[o].status \in Settled => op'[o] = op[o]]_vars

\* Every call that was accepted ends, whatever the link and the vehicles do.
EveryCallEnds ==
    \A o \in Ops : op[o].status \in {"pending", "legacy"} ~> op[o].status \in Settled

-----------------------------------------------------------------------------
(* The client implements OneShotCalls: a call asks the vehicle it was      *)
(* addressed to for its command, an ACCEPTED acknowledgement grants it, and *)
(* a one-way message is granted by being sent.                             *)

AbstractStatus(st) ==
    CASE st = "idle" -> "idle"
      [] st \in {"pending", "legacy"} -> "open"
      [] st = "resolved" -> "ok"
      [] st \in Rejections -> "failed"

KeyOf(t, c) == IF t = None THEN <<None, c>> ELSE <<t.sysid, c>>

CallStatus == [o \in Ops |-> AbstractStatus(op[o].status)]
CallKey == [o \in Ops |-> KeyOf(op[o].target, op[o].cmd)]
Granted ==
    {<<a.sysid, a.cmd>> : a \in {b \in acks : b.result = "ACCEPTED"}}
    \cup {<<m.target.sysid, m.cmd>> : m \in {n \in wire : n.oneway}}

Abstract == INSTANCE OneShotCalls WITH
    Calls <- Ops,
    Keys <- (Systems \cup {None}) \X Commands,
    status <- CallStatus, key <- CallKey, granted <- Granted

\* Every behaviour of the client is one of OneShotCalls.
ImplementsOneShotCalls == Abstract!Spec
=============================================================================
