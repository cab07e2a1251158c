----------------------------- MODULE MCClients -----------------------------
(***************************************************************************)
(* The command, mission and parameter clients for TLC: part says which of  *)
(* them a behaviour is about, and the others rest where they begin.        *)
(* A client behaves here as it does alone, so that what is proved of one   *)
(* by itself holds of this composition.                                    *)
(***************************************************************************)
EXTENDS CommandClient, Sequences, TLC, TLAPS

CONSTANTS
    Parts,                              \* the clients of this run
    Types, Mission, Plans, MissionAttempts, MissionFlight, OneAtATime, V1, MissionSystems,
    List, Values, Initial, SetMaxAttempts, MaxStallRounds, Growing, MaxChanges, ParamFlight,
    ParamSystems,
    n1, n2, a

VARIABLES
    part,
    misDisposed, misOp, misIssued, misArmed, misUp, misDown, misStored, misRecv, misHeld,
    parDisposed, parOp, parSets, parCache, parTold, parArmed, parUp, parDown, parValue, parSize,
    parChanges, parHeld, parOutgrown

misVars == <<misDisposed, misOp, misIssued, misArmed, misUp, misDown, misStored, misRecv, misHeld>>
parVars == <<parDisposed, parOp, parSets, parCache, parTold, parArmed, parUp, parDown, parValue,
             parSize, parChanges, parHeld, parOutgrown>>

Mis == INSTANCE MissionClientProofs WITH
    Systems <- MissionSystems, MaxAttempts <- MissionAttempts, MaxFlight <- MissionFlight,
    disposed <- misDisposed, op <- misOp, issued <- misIssued, armed <- misArmed, up <- misUp,
    down <- misDown, stored <- misStored, recv <- misRecv, held <- misHeld

Par == INSTANCE ParamClientProofs WITH
    Systems <- ParamSystems, MaxFlight <- ParamFlight,
    disposed <- parDisposed, op <- parOp, sets <- parSets, cache <- parCache, told <- parTold,
    armed <- parArmed, up <- parUp, down <- parDown, value <- parValue, size <- parSize,
    changes <- parChanges, held <- parHeld, outgrown <- parOutgrown

-----------------------------------------------------------------------------
\* Values of the constants.
TwoNames == <<n1, n2>>
TwoPlans == {<<>>, <<a>>}

\* Two vehicles start with different values.
Different ==
    CHOOSE f \in [ParamSystems -> Values] : \A v, w \in ParamSystems : f[v] = f[w] => v = w

\* Calls are interchangeable: no action or property names one.
Symmetry == Permutations(Ops)

-----------------------------------------------------------------------------
MCInit ==
    /\ part \in Parts
    /\ Init /\ Mis!Init /\ Par!Init
    /\ part # "mission" => \A v \in MissionSystems, t \in Types : misStored[v][t] = <<>>
    /\ part # "param" => \A v \in ParamSystems : parSize[v] = Len(List)

MCNext ==
    \/ part = "command" /\ Next /\ UNCHANGED <<part, misVars, parVars>>
    \/ part = "mission" /\ Mis!Next /\ UNCHANGED <<part, vars, parVars>>
    \/ part = "param" /\ Par!Next /\ UNCHANGED <<part, vars, misVars>>
allVars == <<part, vars, misVars, parVars>>
MCSpec == MCInit /\ [][MCNext]_allVars

\* The fairness of the three clients: their timers, and their link.
Command(A) == part = "command" /\ A /\ UNCHANGED <<part, misVars, parVars>>
Transfer(A) == part = "mission" /\ A /\ UNCHANGED <<part, vars, parVars>>
Parameter(A) == part = "param" /\ A /\ UNCHANGED <<part, vars, misVars>>
Timer(o) == \/ Command(Tick(o)) \/ Transfer(Mis!Tick(o))
            \/ Parameter(Par!SetTick(o) \/ Par!FetchQuiet(o))
Uplink ==
    \/ Command(\E m \in sends : SendDone(m) \/ SendFailed(m))
    \/ Transfer(Mis!VehicleReceives \/ Mis!VehicleRejects \/ Mis!LoseUp \/ Mis!SendFailed)
    \/ Parameter(Par!VehicleReceives \/ Par!LoseUp \/ Par!SendFailed)
Downlink ==
    \/ Transfer(Mis!LoseDown \/ \E t \in MissionSystems \cup {None} : Mis!OnMessage(t))
    \/ Parameter(Par!LoseDown \/ \E t \in ParamSystems \cup {None} : Par!OnParamValue(t))
MCFairSpec == /\ MCSpec /\ WF_allVars(Uplink) /\ WF_allVars(Downlink)
              /\ \A o \in Ops : WF_allVars(Timer(o))

-----------------------------------------------------------------------------
\* See MissionClient: its timers, what ended stays ended, and whose replies count.
TransfersStayApart ==
    []Mis!TimersMatchPending /\ Mis!SettledForever /\ Mis!RepliesStayWithTheirVehicle

\* See ParamClient: a write is confirmed by the vehicle it went to.
ConfirmedWasHeld == Par!ConfirmedWasHeld

\* See EveryCallEnds and EveryTransferEnds of the clients: a pending call ends.
Waits(o) == \/ part = "command" /\ op[o].status \in {"pending", "legacy"}
            \/ part = "mission" /\ misOp[o].status = "pending"
            \/ part = "param" /\ parOp[o].status = "pending"
EveryClientCallEnds == \A o \in Ops : Waits(o) ~> ~Waits(o)
-----------------------------------------------------------------------------
\* The constants suit the parameter client.
ASSUME ParametersFit == Par!ParamAssumption

\* Whichever client a behaviour is about, the parameter client takes its own steps in
\* it or rests.
LEMMA ParamClientRuns == MCSpec => Par!Spec
<1>1. MCInit => Par!Init
  BY DEF MCInit
<1>2. [MCNext]_allVars => [Par!Next]_(Par!vars)
  BY DEF MCNext, allVars, parVars, Par!vars, Par!calls, Par!known, Par!vehicle
<1> QED
  BY <1>1, <1>2, PTL DEF MCSpec, Par!Spec

\* So does the mission client.
LEMMA MissionClientRuns == MCSpec => Mis!Spec
<1>1. MCInit => Mis!Init
  BY DEF MCInit
<1>2. [MCNext]_allVars => [Mis!Next]_(Mis!vars)
  BY DEF MCNext, allVars, misVars, Mis!vars, Mis!client, Mis!vehicle
<1> QED
  BY <1>1, <1>2, PTL DEF MCSpec, Mis!Spec

\* A write that set() of param-client.ts confirms was held by the vehicle it went to,
\* also when writes of the same parameter to two vehicles overlap.
THEOREM WritesAreConfirmedByTheirVehicle == MCSpec => []ConfirmedWasHeld
<1>1. Par!Spec => []Par!ConfirmedWasHeld
  BY ParametersFit, Par!ConfirmationsAreTrue
<1> QED
  BY <1>1, ParamClientRuns, PTL DEF ConfirmedWasHeld

\* The transfers of mission-client.ts that overlap stay apart: each has its own timer
\* for as long as it is pending, ends once, and moves on only with its own vehicle's
\* replies.
THEOREM OverlappingTransfersStayApart ==
    ASSUME Mis!MissionAssumption
    PROVE  MCSpec => TransfersStayApart
<1>1. Mis!Spec => []Mis!TimersMatchPending
  BY Mis!TimersKept
<1>2. Mis!Spec => Mis!SettledForever
  BY Mis!TransfersEndOnce
<1>3. Mis!Spec => Mis!RepliesStayWithTheirVehicle
  BY Mis!RepliesKeepApart
<1> QED
  BY <1>1, <1>2, <1>3, MissionClientRuns DEF TransfersStayApart
=============================================================================
