------------------------------- MODULE Motors -------------------------------
(***************************************************************************)
(* src/src/ui/screens/setup/motors/motors-step.tsx: motor tests behind an  *)
(* acknowledgement and a confirmation, and the emergency stop, over the    *)
(* command client, whose calls all carry the same command id: an answer    *)
(* goes to the oldest call that is pending, and an unanswered call is sent *)
(* again.  The link keeps the order of messages and may lose any.          *)
(***************************************************************************)
EXTENDS Naturals, Sequences, SequencesExt

CONSTANTS
    MaxCount,   \* motors
    MaxTries,   \* transmissions of one command
    MaxCalls,   \* (bound) tests and stops begun
    MaxLink     \* (bound) messages under way when a command is sent again

Motor == 1..MaxCount

VARIABLES
    acked, armed,   \* "propellers removed" is ticked; the vehicle is armed
    count,          \* motors that the pane shows
    dialog,         \* the test that the user is asked to confirm
    calls,          \* pending commands, the oldest first
    status,         \* what the pane tells
    wire, acks,     \* the link, to the vehicle and back
    spinning,       \* motors that run
    begun,
    clear           \* (history) the stop that was last begun had the link for itself

vars == <<acked, armed, count, dialog, calls, status, wire, acks, spinning, begun, clear>>

Orders == [motors : SUBSET Motor, stop : BOOLEAN]
Statuses == {"idle", "sent", "stopped", "declined", "error"}
TypeOK ==
    /\ acked \in BOOLEAN /\ armed \in BOOLEAN /\ count \in Motor /\ dialog \subseteq Motor
    /\ \A k \in 1..Len(calls) :
         calls[k].order \in Orders /\ calls[k].upTo \in 0..MaxCount /\ calls[k].tries \in 1..MaxTries
    /\ status \in Statuses /\ wire \in Seq(Orders) /\ acks \in Seq(BOOLEAN)
    /\ spinning \subseteq Motor /\ begun \in 0..MaxCalls /\ clear \in BOOLEAN

Init ==
    /\ acked = FALSE /\ armed = FALSE /\ count = MaxCount /\ dialog = {} /\ calls = <<>>
    /\ status = "idle" /\ wire = <<>> /\ acks = <<>> /\ spinning = {} /\ begun = 0 /\ clear = FALSE

-----------------------------------------------------------------------------
\* The pane: the box is ticked or not, a number of motors is chosen.
Tick ==
    /\ dialog = {} /\ acked' = ~acked
    /\ UNCHANGED <<armed, count, dialog, calls, status, wire, acks, spinning, begun, clear>>
SetCount(n) ==
    /\ dialog = {} /\ count' = n /\ clear' = FALSE
    /\ UNCHANGED <<acked, armed, dialog, calls, status, wire, acks, spinning, begun>>

\* testMotor, testAll: only with the box ticked and the vehicle disarmed, which is not
\* looked at again when the user has confirmed.
CanTest == acked /\ ~armed
Test(motors) ==
    /\ CanTest /\ dialog = {} /\ begun < MaxCalls
    /\ motors = 1..count \/ \E m \in 1..count : motors = {m}
    /\ dialog' = motors
    /\ UNCHANGED <<acked, armed, count, calls, status, wire, acks, spinning, begun, clear>>
Declines ==
    /\ dialog # {} /\ dialog' = {} /\ status' = "declined"
    /\ UNCHANGED <<acked, armed, count, calls, wire, acks, spinning, begun, clear>>

Command(motors, stop, upTo) == [order |-> [motors |-> motors, stop |-> stop], upTo |-> upTo, tries |-> 1]
Sends(c, rest) == calls' = Append(rest, c) /\ wire' = Append(wire, c.order)
Confirms ==
    /\ dialog # {} /\ dialog' = {} /\ begun' = begun + 1 /\ clear' = FALSE
    /\ Sends(Command(dialog, FALSE, 0), calls)
    /\ UNCHANGED <<acked, armed, count, status, acks, spinning>>

\* emergencyStop: the first motor; the others follow, each when the one before it is
\* accepted.
EmergencyStop ==
    /\ dialog = {} /\ begun < MaxCalls /\ begun' = begun + 1
    /\ Sends(Command({1}, TRUE, count), calls)
    /\ clear' = (calls = <<>> /\ wire = <<>> /\ acks = <<>>)
    /\ UNCHANGED <<acked, armed, count, dialog, status, acks, spinning>>

\* A call is accepted: a test says that it was sent, a stop goes on to the next motor.
\* A plausible mistake: a stop that says so after its first motor.
AcceptedFirst(c, rest) ==
    calls' = rest /\ wire' = wire /\ status' = IF c.order.stop THEN "stopped" ELSE "sent"
Accepted(c, rest) ==
    LET m == CHOOSE m \in c.order.motors : TRUE
    IN IF c.order.stop /\ m < c.upTo
       THEN Sends(Command({m + 1}, TRUE, c.upTo), rest) /\ UNCHANGED status
       ELSE calls' = rest /\ wire' = wire /\ status' = IF c.order.stop THEN "stopped" ELSE "sent"
Fails(rest) == calls' = rest /\ status' = "error" /\ UNCHANGED wire

\* An answer settles the oldest call; without one it is dropped.
Answered ==
    /\ acks # <<>> /\ acks' = Tail(acks)
    /\ CASE calls = <<>> -> UNCHANGED <<calls, wire, status>>
         [] calls # <<>> /\ Head(acks) -> Accepted(Head(calls), Tail(calls))
         [] calls # <<>> /\ ~Head(acks) -> Fails(Tail(calls))
    /\ UNCHANGED <<acked, armed, count, dialog, spinning, begun, clear>>
\* No answer in time: again, and in the end an error, also of a stop.
TimesOut(k) ==
    /\ Len(wire) + Len(acks) < MaxLink /\ clear' = FALSE
    /\ IF calls[k].tries < MaxTries
       THEN /\ calls' = [calls EXCEPT ![k].tries = @ + 1]
            /\ wire' = Append(wire, calls[k].order) /\ UNCHANGED status
       ELSE Fails(RemoveAt(calls, k))
    /\ UNCHANGED <<acked, armed, count, dialog, acks, spinning, begun>>

\* The vehicle: an armed one refuses a test; a test ends by itself.
Receives ==
    /\ wire # <<>> /\ wire' = Tail(wire)
    /\ LET o == Head(wire)
       IN /\ spinning' = CASE o.stop -> spinning \ o.motors
                           [] ~o.stop /\ armed -> spinning
                           [] ~o.stop /\ ~armed -> spinning \cup o.motors
          /\ acks' = Append(acks, o.stop \/ ~armed)
    /\ UNCHANGED <<acked, armed, count, dialog, calls, status, begun, clear>>
LosesOrder ==
    /\ wire # <<>> /\ wire' = Tail(wire)
    /\ UNCHANGED <<acked, armed, count, dialog, calls, status, acks, spinning, begun, clear>>
LosesAnswer ==
    /\ acks # <<>> /\ acks' = Tail(acks)
    /\ UNCHANGED <<acked, armed, count, dialog, calls, status, wire, spinning, begun, clear>>
TestEnds(m) ==
    /\ m \in spinning /\ spinning' = spinning \ {m}
    /\ UNCHANGED <<acked, armed, count, dialog, calls, status, wire, acks, begun, clear>>
Arms ==
    /\ armed' = ~armed /\ spinning' = {}
    /\ UNCHANGED <<acked, count, dialog, calls, status, wire, acks, begun, clear>>

Next ==
    \/ Tick \/ Declines \/ Confirms \/ EmergencyStop \/ Answered \/ Receives \/ LosesOrder
    \/ LosesAnswer \/ Arms
    \/ \E n \in Motor : SetCount(n)
    \/ \E motors \in SUBSET Motor : Test(motors)
    \/ \E k \in 1..Len(calls) : TimesOut(k)
    \/ \E m \in Motor : TestEnds(m)
Spec == Init /\ [][Next]_vars

-----------------------------------------------------------------------------
\* A stop that had the link for itself, none of its commands sent twice, has stopped
\* every motor that the pane shows when it says so.  Any other may not have: the
\* answer to an earlier command, or a second answer to one, settles a stop that the
\* vehicle never got, and a test that is sent again starts a motor after the stop.
\* While another stop is under way the pane still shows that the one before it stopped.
StoppedMeansStopped == status = "stopped" /\ clear /\ calls = <<>> => spinning \cap 1..count = {}
=============================================================================
