------------------------------- MODULE Screens -------------------------------
(***************************************************************************)
(* The parts of the page that show or steer something: the setup screens,  *)
(* the parameter editor, the plan and logs screens, the gamepad, the       *)
(* calibrations and the alerts; what they promise, and the proofs, for any *)
(* number of motors, parameters, loads, positions and vehicles. The parts  *)
(* share nothing: what is proved of one by itself holds of any composition *)
(* that it is in.                                                          *)
(***************************************************************************)
EXTENDS Integers, FiniteSets, Sequences, FiniteSetTheorems, TLAPS

VARIABLES
    motAcked, motArmed, motCount, motDialog, motCalls, motStatus, motWire, motAcks, motSpinning,
    motBegun, motClear,
    setStep, setMounted, setFlow, setRun, setOps, setGate, setGot, setWrites, setMounts, setDead,
    ediActive, ediHeld, ediShown, ediPending, ediStagedOn, ediBusy, ediFetches, ediWrites,
    ediMounts, ediBegun, ediEdits, ediSwitches, ediChanges, ediCrossed, ediTouched, ediAstray,
    plaMission, plaShown, plaConnected, plaBusy, plaTransfers, plaOnVehicle, plaStarted, plaLoads,
    plaBegun, plaEdits, plaMounts, plaToken, plaSamplings, plaProfile, plaStale,
    lgsMount, lgsMounts, lgsLoading, lgsShown, lgsPicking, lgsLoads, lgsBegun, lgsSession,
    lgsRunning, lgsStopping, lgsPending, lgsStarted, lgsRecents, lgsOverlap, lgsLeft,
    padActive, padDisposed, padConfig, padLast, padPrev, padPad, padTarget, padArmed, padNow,
    padHeld, padSince, padFrames, padSettled,
    calCall, calTaps, calTimers, calActive, calDisposed, calLink, calVehicle, calReports,
    calChanges,
    alrAspect, alrModel, alrActive, alrFresh, alrRows, alrLately, alrSelected, alrPrevious,
    alrLastFired, alrNow, alrOn, alrMuted, alrMessages, alrEvents, alrTold, alrHushed

CONSTANTS
    MotorCount, MotorTries, MotorCalls, MotorLink,           \* the motors: see Motors
    SetupFaces, SetupWrites, SetupRuns, SetupMounts,         \* the setup panes: see SetupFlows
    EditNames, EditVehicles, EditCalls, EditCount, EditSwitches, EditChanges, EditMounts, \* see ParamEdits
    PlanRoutes, NoRoute, PlanTransfers, PlanLoads, PlanEdits, PlanMounts, \* the plan screen: see PlanScreen
    LogOpenings, LogRecents, LogMounts,                      \* the logs screen: see LogsScreen
    PadVehicles, PadButtons, PadInterval, PadTime,           \* the gamepad: see ManualControl
    CalOps, CalVehicles, CalFaces, CalChanges,               \* the calibrations: see Calibration
    AlertSources, AlertLimit, AlertMessages, AlertTime, AlertEvents \* the alerts: see Alerts
ASSUME ScreensAssumption ==
    /\ MotorCount \in Nat \ {0} /\ IsFiniteSet(EditNames) /\ NoRoute \notin PlanRoutes
    /\ PadInterval \in Nat \ {0} /\ PadTime \in Nat
    /\ CalFaces \in Nat /\ 0 \notin CalVehicles

Mot == INSTANCE Motors WITH
    MaxCount <- MotorCount, MaxTries <- MotorTries, MaxCalls <- MotorCalls,
    MaxLink <- MotorLink,
    acked <- motAcked, armed <- motArmed, count <- motCount, dialog <- motDialog,
    calls <- motCalls, status <- motStatus, wire <- motWire, acks <- motAcks,
    spinning <- motSpinning, begun <- motBegun, clear <- motClear
Set == INSTANCE SetupFlows WITH
    MaxFaces <- SetupFaces, MaxWrites <- SetupWrites, MaxRuns <- SetupRuns,
    MaxMounts <- SetupMounts,
    step <- setStep, mounted <- setMounted, flow <- setFlow, run <- setRun, ops <- setOps,
    gate <- setGate, got <- setGot, writes <- setWrites, mounts <- setMounts, dead <- setDead
Edi == INSTANCE ParamEdits WITH
    Names <- EditNames, Vehicles <- EditVehicles, MaxCalls <- EditCalls, MaxEdits <- EditCount,
    MaxSwitches <- EditSwitches, MaxChanges <- EditChanges, MaxMounts <- EditMounts,
    active <- ediActive, held <- ediHeld, shown <- ediShown, pending <- ediPending,
    stagedOn <- ediStagedOn, busy <- ediBusy, fetches <- ediFetches, writes <- ediWrites,
    mounts <- ediMounts, begun <- ediBegun, edits <- ediEdits, switches <- ediSwitches, changes <- ediChanges,
    crossed <- ediCrossed, touched <- ediTouched, astray <- ediAstray
Pla == INSTANCE PlanScreen WITH
    Routes <- PlanRoutes, None <- NoRoute, MaxTransfers <- PlanTransfers,
    MaxLoads <- PlanLoads, MaxEdits <- PlanEdits, MaxMounts <- PlanMounts,
    mission <- plaMission, shown <- plaShown, connected <- plaConnected, busy <- plaBusy,
    transfers <- plaTransfers, onVehicle <- plaOnVehicle, started <- plaStarted,
    loads <- plaLoads, begun <- plaBegun, edits <- plaEdits, mounts <- plaMounts, token <- plaToken,
    samplings <- plaSamplings, profile <- plaProfile, stale <- plaStale
Lgs == INSTANCE LogsScreen WITH
    MaxLoads <- LogOpenings, MaxRecents <- LogRecents, MaxMounts <- LogMounts,
    mount <- lgsMount, mounts <- lgsMounts, loading <- lgsLoading, shown <- lgsShown,
    picking <- lgsPicking, loads <- lgsLoads, begun <- lgsBegun, session <- lgsSession,
    running <- lgsRunning, stopping <- lgsStopping, pending <- lgsPending,
    started <- lgsStarted, recents <- lgsRecents, overlap <- lgsOverlap, left <- lgsLeft
Pad == INSTANCE ManualControl WITH
    Vehicles <- PadVehicles, Buttons <- PadButtons, Interval <- PadInterval,
    MaxTime <- PadTime,
    active <- padActive, disposed <- padDisposed, config <- padConfig, lastSend <- padLast,
    prevPressed <- padPrev, pad <- padPad, target <- padTarget, armed <- padArmed, now <- padNow,
    held <- padHeld, since <- padSince, frames <- padFrames, settled <- padSettled
Cal == INSTANCE Calibration WITH
    Ops <- CalOps, Vehicles <- CalVehicles, Faces <- CalFaces, MaxChanges <- CalChanges,
    call <- calCall, taps <- calTaps, timers <- calTimers, active <- calActive, disposed <- calDisposed,
    link <- calLink, vehicle <- calVehicle, reports <- calReports, changes <- calChanges
Alr == INSTANCE Alerts WITH
    Sources <- AlertSources, Limit <- AlertLimit, MaxMessages <- AlertMessages,
    MaxTime <- AlertTime, MaxEvents <- AlertEvents,
    aspect <- alrAspect, model <- alrModel, active <- alrActive, fresh <- alrFresh,
    rows <- alrRows, lately <- alrLately, selected <- alrSelected, previous <- alrPrevious,
    lastFired <- alrLastFired, now <- alrNow, on <- alrOn, muted <- alrMuted,
    messages <- alrMessages, events <- alrEvents, told <- alrTold, hushed <- alrHushed

-----------------------------------------------------------------------------
\* See Motors, SetupFlows and ParamEdits: motors that were stopped, flows that show what
\* is done, and edits that reach their own vehicle.
SetupIsSafe ==
    /\ [](Mot!StoppedMeansStopped /\ Set!FlowsAreTrue /\ Edi!EditsGoHome)
    /\ Set!ResultsAreCurrent /\ Edi!EditsAreKept

\* See PlanScreen and LogsScreen: one transfer of a mount and the profile of the plan, one
\* replay and the file that was chosen.
ScreensAreCurrent ==
    [](Pla!ProfileIsCurrent /\ Pla!OneTransfer /\ Lgs!NoGhostReplay) /\ Lgs!RecentIsOpened

\* See ManualControl and Calibration: the rate of the frames and the release of the
\* vehicle; taps and timers, positions, and cancellation.
VehicleIsLetGo ==
    /\ [](Pad!RateIsBounded /\ Cal!NothingLeaks /\ Cal!PositionsInOrder /\ Cal!StoppedOnTheVehicle)
    /\ Pad!StopReleases

\* See Alerts: nothing bad goes unsaid.
AlertsAreTold == Alr!NothingUnsaid

-----------------------------------------------------------------------------
\* The motors. The stop that has the link for itself is the only call, its order or the
\* answer to it the only message, and the motors before the one it is at do not run.
StopAt(m) ==
    /\ m \in 1..motCount /\ motCalls = <<Mot!Command({m}, TRUE, motCount)>> /\ motSpinning \cap 1..(m - 1) = {}
    /\ \/ motWire = <<[motors |-> {m}, stop |-> TRUE]>> /\ motAcks = <<>>
       \/ motWire = <<>> /\ motAcks = <<TRUE>> /\ m \notin motSpinning
       \/ motWire = <<>> /\ motAcks = <<>>
AllStopped == motCalls = <<>> /\ motWire = <<>> /\ motAcks = <<>> /\ motSpinning \cap 1..motCount = {}
MotorsInv == motCount \in 1..MotorCount /\ motClear \in BOOLEAN /\ (motClear => AllStopped \/ \E m \in 1..motCount : StopAt(m))

LEMMA MotorsBegin == ASSUME Mot!Init PROVE MotorsInv
<1>1. motCount \in 1..MotorCount /\ motClear = FALSE
  BY ScreensAssumption DEF Mot!Init
<1> QED
  BY <1>1 DEF MotorsInv

\* A step that loses a message at most, or stops motors, changes nothing of this.
LEMMA MotorsRest ==
    ASSUME MotorsInv, UNCHANGED <<motCount, motCalls, motClear>>, motSpinning' \subseteq motSpinning,
           motWire' = motWire \/ (motWire # <<>> /\ motWire' = Tail(motWire)), motAcks' = motAcks \/ (motAcks # <<>> /\ motAcks' = Tail(motAcks))
    PROVE  MotorsInv'
<1>1. CASE motClear /\ AllStopped
  BY <1>1 DEF MotorsInv, AllStopped
<1>2. ASSUME motClear, NEW m \in 1..motCount, StopAt(m) PROVE MotorsInv'
  <2>1. motWire' = motWire \/ motWire' = <<>>
    <3>1. motWire = <<>> \/ motWire = <<[motors |-> {m}, stop |-> TRUE]>>
      BY <1>2 DEF StopAt
    <3>2. \A a : <<a>> # <<>> /\ Tail(<<a>>) = <<>>
      OBVIOUS
    <3> QED
      BY <3>1, <3>2
  <2>2. motAcks' = motAcks \/ motAcks' = <<>>
    <3>1. motAcks = <<>> \/ motAcks = <<TRUE>>
      BY <1>2 DEF StopAt
    <3>2. \A a : Tail(<<a>>) = <<>>
      OBVIOUS
    <3> QED
      BY Zenon, <3>1, <3>2
  <2>3. motCalls' = <<Mot!Command({m}, TRUE, motCount')>>
    BY <1>2 DEF StopAt
  <2>4. StopAt(m)'
    BY <1>2, <2>1, <2>2, <2>3 DEF StopAt
  <2> QED
    BY <1>2, <2>4 DEF MotorsInv
<1> QED
  BY <1>1, <1>2 DEF MotorsInv

LEMMA MotorsKeep == ASSUME MotorsInv, Mot!Next PROVE MotorsInv'
<1>0. motCount \in Nat \ {0} /\ motCount <= MotorCount
  BY ScreensAssumption DEF MotorsInv
<1>1. ASSUME Mot!Tick \/ Mot!Declines \/ (\E motors \in SUBSET Mot!Motor : Mot!Test(motors)) PROVE MotorsInv'
  BY <1>1, MotorsRest DEF Mot!Tick, Mot!Declines, Mot!Test
<1>2. ASSUME Mot!Confirms \/ (\E n \in Mot!Motor : Mot!SetCount(n)) \/ (\E k \in 1..Len(motCalls) : Mot!TimesOut(k)) PROVE MotorsInv'
  BY <1>2 DEF Mot!Confirms, Mot!SetCount, Mot!TimesOut, Mot!Motor, MotorsInv
<1>3. ASSUME Mot!EmergencyStop PROVE MotorsInv'
  <2>1. /\ UNCHANGED <<motCount, motAcks, motSpinning>> /\ motCalls' = Append(motCalls, Mot!Command({1}, TRUE, motCount))
        /\ motWire' = Append(motWire, [motors |-> {1}, stop |-> TRUE])
    BY <1>3 DEF Mot!EmergencyStop, Mot!Sends, Mot!Command
  <2>2. motClear' = (motCalls = <<>> /\ motWire = <<>> /\ motAcks = <<>>)
    BY Zenon, <1>3 DEF Mot!EmergencyStop
  <2>3. CASE motClear'
    <3>1. motCalls = <<>> /\ motWire = <<>> /\ motAcks = <<>>
      BY <2>2, <2>3
    <3>2. motCalls' = <<Mot!Command({1}, TRUE, motCount)>> /\ motWire' = <<[motors |-> {1}, stop |-> TRUE]>> /\ motAcks' = <<>>
      BY <2>1, <3>1
    <3>3. StopAt(1)'
      <4>1. motCalls' = <<Mot!Command({1}, TRUE, motCount')>>
        BY Zenon, <2>1, <3>2
      <4>2. 1 \in 1..motCount' /\ 1..(1 - 1) = {}
        BY <1>0, <2>1
      <4> QED
        BY <3>2, <4>1, <4>2 DEF StopAt
    <3> QED
      BY <1>0, <2>1, <2>3, <3>3 DEF MotorsInv
  <2>4. CASE ~motClear'
    BY <2>1, <2>2, <2>4 DEF MotorsInv
  <2> QED
    BY <2>3, <2>4
<1>4. ASSUME Mot!Answered PROVE MotorsInv'
  <2>1. motAcks # <<>> /\ motAcks' = Tail(motAcks) /\ UNCHANGED <<motCount, motSpinning, motClear>>
    BY <1>4 DEF Mot!Answered
  <2>2. CASE motClear
    <3>1. PICK m \in 1..motCount : StopAt(m)
      BY <2>1, <2>2 DEF MotorsInv, AllStopped
    <3>2. /\ motWire = <<>> /\ motAcks = <<TRUE>> /\ m \notin motSpinning /\ motSpinning \cap 1..(m - 1) = {}
          /\ motCalls = <<Mot!Command({m}, TRUE, motCount)>>
      BY <2>1, <3>1 DEF StopAt
    <3>8. motCalls # <<>> /\ Head(motAcks) = TRUE
      <4>1. \A c : <<c>> # <<>>
        OBVIOUS
      <4>2. \A a : Head(<<a>>) = a
        OBVIOUS
      <4> QED
        BY Zenon, <3>2, <4>1, <4>2
    <3> DEFINE c == Mot!Command({m}, TRUE, motCount)
    <3>3. Mot!Accepted(c, <<>>)
      <4>1. Mot!Accepted(Head(motCalls), Tail(motCalls))
        BY Zenon, <1>4, <2>1, <3>2, <3>8 DEF Mot!Answered
      <4> HIDE DEF c
      <4>2. Head(motCalls) = c /\ Tail(motCalls) = <<>>
        BY <3>2 DEF c
      <4> QED
        BY <4>1, <4>2
    <3>4. (CHOOSE k \in c.order.motors : TRUE) = m /\ c.order.stop = TRUE /\ c.upTo = motCount
      BY DEF Mot!Command
    <3>5. motSpinning \cap 1..m = {} /\ motAcks' = <<>>
      BY <1>0, <2>1, <3>2
    <3>6. CASE m < motCount
      <4>1. Mot!Sends(Mot!Command({m + 1}, TRUE, motCount), <<>>)
        BY <3>3, <3>4, <3>6 DEF Mot!Accepted
      <4>2. motCalls' = <<Mot!Command({m + 1}, TRUE, motCount)>> /\ motWire' = <<[motors |-> {m + 1}, stop |-> TRUE]>>
        BY <3>2, <4>1 DEF Mot!Sends, Mot!Command
      <4>3. m + 1 \in 1..motCount /\ (m + 1) - 1 = m
        BY <1>0, <3>6
      <4>4. StopAt(m + 1)'
        BY <2>1, <3>5, <4>2, <4>3 DEF StopAt, Mot!Command
      <4> QED
        BY <2>1, <4>3, <4>4 DEF MotorsInv
    <3>7. CASE ~(m < motCount)
      <4>1. m = motCount
        BY <1>0, <3>7
      <4>2. motCalls' = <<>> /\ motWire' = <<>>
        BY <3>2, <3>3, <3>4, <3>7 DEF Mot!Accepted
      <4> QED
        BY <2>1, <3>5, <4>1, <4>2 DEF MotorsInv, AllStopped
    <3> QED
      BY <3>6, <3>7
  <2>3. CASE ~motClear
    BY <2>1, <2>3 DEF MotorsInv
  <2> QED
    BY <2>2, <2>3 DEF MotorsInv
<1>5. ASSUME Mot!Receives PROVE MotorsInv'
  <2>1. motWire # <<>> /\ motWire' = Tail(motWire) /\ UNCHANGED <<motCount, motCalls, motClear>>
    BY <1>5 DEF Mot!Receives
  <2>2. CASE motClear
    <3>1. PICK m \in 1..motCount : StopAt(m)
      BY <2>1, <2>2 DEF MotorsInv, AllStopped
    <3>2. motWire = <<[motors |-> {m}, stop |-> TRUE]>> /\ motAcks = <<>>
      BY <2>1, <3>1 DEF StopAt
    <3>3. motSpinning' = motSpinning \ {m} /\ motAcks' = <<TRUE>>
      <4>1. Head(motWire).stop = TRUE /\ Head(motWire).motors = {m}
        BY <3>2
      <4>2. motSpinning' = motSpinning \ Head(motWire).motors /\ motAcks' = Append(motAcks, TRUE)
        BY <1>5, <4>1 DEF Mot!Receives
      <4> QED
        BY <3>2, <4>1, <4>2
    <3>4. StopAt(m)'
      BY <2>1, <3>1, <3>2, <3>3 DEF StopAt, Mot!Command
    <3> QED
      BY <2>1, <3>1, <3>4 DEF MotorsInv
  <2>3. CASE ~motClear
    BY <2>1, <2>3 DEF MotorsInv
  <2> QED
    BY <2>2, <2>3 DEF MotorsInv
<1>6. ASSUME Mot!LosesOrder PROVE MotorsInv'
  BY <1>6, MotorsRest DEF Mot!LosesOrder
<1>7. ASSUME Mot!LosesAnswer PROVE MotorsInv'
  BY <1>7, MotorsRest DEF Mot!LosesAnswer
<1>8. ASSUME Mot!Arms \/ (\E m \in Mot!Motor : Mot!TestEnds(m)) PROVE MotorsInv'
  BY <1>8, MotorsRest DEF Mot!Arms, Mot!TestEnds
<1> QED
  BY <1>1, <1>2, <1>3, <1>4, <1>5, <1>6, <1>7, <1>8 DEF Mot!Next

LEMMA MotorsPromise == ASSUME MotorsInv PROVE Mot!StoppedMeansStopped
BY DEF MotorsInv, Mot!StoppedMeansStopped, AllStopped, StopAt

-----------------------------------------------------------------------------
\* The panes. Operations have numbers of their own; one that was aborted is the latest only
\* of a pane that was left, and of the compass, which has none but the latest.
FlowOp == [id : Nat, aborted : BOOLEAN, faces : Nat, asks : BOOLEAN]
FlowsTyped ==
    /\ setRun \in Nat /\ setOps \subseteq FlowOp /\ setDead \in BOOLEAN /\ setGate \in Nat
    /\ \A o \in setOps : o.id \in 1..setRun
FlowsInv ==
    /\ FlowsTyped /\ Set!FlowsAreTrue
    /\ \A o, p \in setOps : o.id = p.id => o = p
    /\ \A o \in setOps : o.aborted /\ o.id = setRun /\ setStep # "compass" => setDead \/ setFlow # "running"
    /\ setStep = "compass" => \A o \in setOps : o.id = setRun /\ setFlow = "running"
    /\ setStep # "accel" => setGate = 0
    /\ setStep # "radio" => setWrites = {} /\ setFlow # "saving"

LEMMA FlowsBegin == ASSUME Set!Init PROVE FlowsInv
BY DEF Set!Init, FlowsInv, FlowsTyped, Set!FlowsAreTrue

\* What is not aborted is the latest, and alone.
LEMMA FlowsOne ==
    ASSUME FlowsInv, NEW o \in setOps, ~o.aborted
    PROVE  o.id = setRun /\ setFlow \in {"running", "saving"} /\ \A p \in setOps \ {o} : p.aborted /\ p.id # setRun
BY DEF FlowsInv, Set!FlowsAreTrue

\* Aborted, every operation is what it was otherwise.
LEMMA FlowsAborted ==
    ASSUME FlowsInv
    PROVE  /\ Set!Aborted \subseteq FlowOp /\ \A o \in Set!Aborted : o.aborted /\ o.id \in 1..setRun
           /\ \A o, p \in Set!Aborted : o.id = p.id => o = p
           /\ \A o \in Set!Aborted : \E p \in setOps : o.id = p.id
           /\ setStep = "radio" => Set!Aborted = {}
           /\ setStep # "radio" => \A o \in setOps : \E p \in Set!Aborted : p.id = o.id
<1>1. CASE setStep = "radio"
  BY <1>1 DEF Set!Aborted
<1>2. CASE setStep # "radio"
  <2> DEFINE gone(o) == [o EXCEPT !.aborted = TRUE]
  <2>1. Set!Aborted = {gone(o) : o \in setOps}
    BY <1>2 DEF Set!Aborted
  <2>2. \A o \in setOps : gone(o) \in FlowOp /\ gone(o).id = o.id /\ gone(o).aborted
    BY DEF FlowsInv, FlowsTyped, FlowOp
  <2> HIDE DEF gone
  <2>3. \A o \in Set!Aborted : \E p \in setOps : o = gone(p)
    BY <2>1
  <2>4. \A p \in setOps : gone(p) \in Set!Aborted
    BY <2>1
  <2>5. \A o, p \in setOps : o.id = p.id => o = p
    BY DEF FlowsInv
  <2>6. \A o, p \in Set!Aborted : o.id = p.id => o = p
    BY <2>2, <2>3, <2>5
  <2>7. \A o \in setOps : o.id \in 1..setRun
    BY DEF FlowsInv, FlowsTyped
  <2> QED
    BY <1>2, <2>2, <2>3, <2>4, <2>6, <2>7
<1> QED
  BY <1>1, <1>2

LEMMA FlowsKeep == ASSUME FlowsInv, Set!Next PROVE FlowsInv' /\ Set!ResultStep
<1>1. ASSUME Set!Mount \/ Set!Captures PROVE FlowsInv' /\ Set!ResultStep
  BY <1>1 DEF Set!Mount, Set!Captures, FlowsInv, FlowsTyped, Set!FlowsAreTrue, Set!ResultStep
<1>2. ASSUME Set!Unmount PROVE FlowsInv' /\ Set!ResultStep
  <2>1. setOps' = Set!Aborted /\ setGate' = 0 /\ UNCHANGED <<setStep, setFlow, setRun, setWrites>>
    BY <1>2 DEF Set!Unmount
  <2>2. setDead' = (setDead \/ (setFlow = "running" /\ setStep # "compass"))
    BY <1>2 DEF Set!Unmount
  <2>3. setDead' \in BOOLEAN /\ (setStep # "compass" => setDead' \/ setFlow # "running") /\ (setDead' \/ setStep = "compass" \/ setFlow # "running")
    BY <2>2 DEF FlowsInv, FlowsTyped
  <2>4. setFlow = "running" /\ ~setDead' => \E o \in Set!Aborted : o.id = setRun
    <3>1. setFlow = "running" /\ ~setDead' => ~setDead /\ setStep = "compass"
      BY <2>2
    <3>2. setFlow = "running" /\ ~setDead => \E o \in setOps : o.id = setRun
      BY DEF FlowsInv, Set!FlowsAreTrue
    <3>3. setStep = "compass" => \A o \in setOps : \E p \in Set!Aborted : p.id = o.id
      BY FlowsAborted
    <3> QED
      BY <3>1, <3>2, <3>3
  <2>5. FlowsTyped'
    BY <2>1, <2>3, FlowsAborted DEF FlowsInv, FlowsTyped
  <2>6. Set!FlowsAreTrue'
    BY <2>1, <2>4, FlowsAborted DEF Set!FlowsAreTrue
  <2>7. setStep = "compass" => \A o \in Set!Aborted : o.id = setRun /\ setFlow = "running"
    BY FlowsAborted DEF FlowsInv
  <2> QED
    BY <2>1, <2>3, <2>5, <2>6, <2>7, FlowsAborted DEF FlowsInv, Set!ResultStep
<1>3. ASSUME NEW vehicle \in BOOLEAN, Set!Start(vehicle) PROVE FlowsInv' /\ Set!ResultStep
  <2> DEFINE new == [id |-> setRun + 1, aborted |-> FALSE, faces |-> 0, asks |-> FALSE]
  <2>1. setFlow # "running" /\ setRun' = setRun + 1 /\ setFlow' = "running" /\ setGate' = 0 /\ UNCHANGED <<setStep, setWrites>>
        /\ setOps' = Set!Aborted \cup (IF setDead' THEN {} ELSE {new})
    BY <1>3 DEF Set!Start
  <2>2. setDead' = (setStep = "radio" /\ ~vehicle)
    BY <1>3 DEF Set!Start
  <2>3. setDead' \in BOOLEAN /\ (setDead' => setStep = "radio")
    BY <2>2
  <2>4. new \in FlowOp /\ new.id = setRun + 1 /\ ~new.aborted /\ ~new.asks
    BY DEF FlowsInv, FlowsTyped, FlowOp
  <2> HIDE DEF new
  <2>5. setRun \in Nat /\ \A o \in Set!Aborted : o.id \in 1..setRun /\ o.aborted
    BY FlowsAborted DEF FlowsInv, FlowsTyped
  <2>6. FlowsTyped'
    BY <2>1, <2>3, <2>4, <2>5, FlowsAborted DEF FlowsTyped
  <2>7. Set!FlowsAreTrue'
    BY <2>1, <2>3, <2>4, <2>5 DEF Set!FlowsAreTrue
  <2>8. setStep = "compass" => Set!Aborted = {}
    BY <2>1, FlowsAborted DEF FlowsInv
  <2> QED
    BY <2>1, <2>3, <2>4, <2>5, <2>6, <2>7, <2>8, FlowsAborted DEF FlowsInv, Set!ResultStep
<1>4. ASSUME Set!Cancel PROVE FlowsInv' /\ Set!ResultStep
  <2>1. setOps' = Set!Aborted /\ setFlow = "running" /\ UNCHANGED <<setStep, setRun, setGate, setWrites, setDead>> /\ setStep \in {"compass", "radio"}
        /\ setFlow' = IF setStep = "radio" THEN "idle" ELSE setFlow
    BY <1>4 DEF Set!Cancel
  <2>2. setGate = 0
    BY <2>1 DEF FlowsInv
  <2>3. FlowsTyped'
    BY <2>1, FlowsAborted DEF FlowsInv, FlowsTyped
  <2>4. Set!FlowsAreTrue'
    BY <2>1, <2>2, FlowsAborted DEF FlowsInv, Set!FlowsAreTrue
  <2> QED
    BY <2>1, <2>2, <2>3, <2>4, FlowsAborted DEF FlowsInv, Set!ResultStep
<1>5. ASSUME NEW o \in setOps, Set!Succeeds(o) PROVE FlowsInv' /\ Set!ResultStep
  <2>1. ~o.aborted /\ setOps' = setOps \ {o} /\ setGate' = 0 /\ UNCHANGED <<setStep, setRun, setWrites, setDead>>
    BY <1>5 DEF Set!Succeeds
  <2>2. setFlow' = "done"
    BY <1>5, <2>1 DEF Set!Succeeds, Set!Shows
  <2>3. o.id = setRun /\ \A p \in setOps' : p.aborted /\ p.id # setRun
    BY <2>1, FlowsOne
  <2> QED
    BY <2>1, <2>2, <2>3 DEF FlowsInv, FlowsTyped, Set!FlowsAreTrue, Set!ResultStep
<1>6. ASSUME NEW o \in setOps, Set!Rejects(o) PROVE FlowsInv' /\ Set!ResultStep
  <2>1. setOps' = setOps \ {o} /\ setFlow' = Set!Shows(o, "warning") /\ UNCHANGED <<setStep, setRun, setWrites, setDead>>
        /\ setGate' = IF o.aborted THEN setGate ELSE 0
    BY <1>6 DEF Set!Rejects
  <2>2. CASE ~o.aborted
    <3>1. o.id = setRun /\ \A p \in setOps' : p.aborted /\ p.id # setRun
      BY <2>1, <2>2, FlowsOne
    <3>2. setFlow' = "warning" /\ setGate' = 0
      BY <2>1, <2>2 DEF Set!Shows
    <3> QED
      BY <2>1, <3>1, <3>2 DEF FlowsInv, FlowsTyped, Set!FlowsAreTrue, Set!ResultStep
  <2>3. CASE o.aborted /\ setStep = "compass"
    <3>1. setFlow' = "idle" /\ setOps' = {} /\ setGate' = 0
      BY <2>1, <2>3 DEF Set!Shows, FlowsInv
    <3> QED
      BY <2>1, <2>3, <3>1 DEF FlowsInv, FlowsTyped, Set!FlowsAreTrue, Set!ResultStep
  <2>4. CASE o.aborted /\ setStep # "compass"
    <3>1. setFlow' = setFlow /\ setGate' = setGate
      BY Zenon, <2>1, <2>4 DEF Set!Shows
    <3> QED
      BY <2>1, <2>4, <3>1 DEF FlowsInv, FlowsTyped, Set!FlowsAreTrue, Set!ResultStep
  <2> QED
    BY <2>2, <2>3, <2>4
<1>7. ASSUME NEW o \in setOps, Set!AsksFace(o) PROVE FlowsInv' /\ Set!ResultStep
  <2> DEFINE asked == [o EXCEPT !.asks = TRUE]
  <2>1. /\ setStep = "accel" /\ ~o.aborted /\ setOps' = (setOps \ {o}) \cup {asked} /\ setGate' = o.id
        /\ UNCHANGED <<setStep, setFlow, setRun, setWrites, setDead>>
    BY <1>7 DEF Set!AsksFace
  <2>2. asked \in FlowOp /\ asked.id = o.id /\ ~asked.aborted /\ asked.asks /\ o.id \in 1..setRun /\ setRun \in Nat
    BY <2>1 DEF FlowsInv, FlowsTyped, FlowOp
  <2> HIDE DEF asked
  <2>3. o.id = setRun /\ setFlow \in {"running", "saving"} /\ \A p \in setOps \ {o} : p.aborted /\ p.id # setRun
    BY <2>1, FlowsOne
  <2> QED
    BY <2>1, <2>2, <2>3 DEF FlowsInv, FlowsTyped, Set!FlowsAreTrue, Set!ResultStep
<1>8. ASSUME Set!Positioned PROVE FlowsInv' /\ Set!ResultStep
  <2>1. /\ setFlow = "running" /\ setGate # 0 /\ setGate' = 0 /\ UNCHANGED <<setStep, setFlow, setRun, setWrites, setDead>>
        /\ setOps' = {IF o.id = setGate THEN [o EXCEPT !.asks = FALSE, !.faces = @ + 1] ELSE o : o \in setOps}
    BY <1>8 DEF Set!Positioned
  <2>2. PICK o \in setOps : o.id = setGate /\ ~o.aborted
    BY <2>1 DEF FlowsInv, Set!FlowsAreTrue
  <2> DEFINE placed == [o EXCEPT !.asks = FALSE, !.faces = @ + 1]
  <2>3. placed \in FlowOp /\ placed.id = o.id /\ ~placed.aborted /\ ~placed.asks
    <3>1. o \in FlowOp /\ o.faces + 1 \in Nat
      BY DEF FlowsInv, FlowsTyped, FlowOp
    <3> QED
      BY <2>2, <3>1 DEF FlowOp
  <2>4. setOps' = (setOps \ {o}) \cup {placed}
    BY <2>1, <2>2 DEF FlowsInv
  <2> HIDE DEF placed
  <2>5. o.id = setRun /\ setFlow \in {"running", "saving"} /\ \A p \in setOps \ {o} : p.aborted /\ p.id # setRun
    BY <2>2, FlowsOne
  <2>6. setRun \in Nat /\ setRun \in 1..setRun
    BY <2>2, <2>5 DEF FlowsInv, FlowsTyped
  <2> QED
    BY <2>1, <2>3, <2>4, <2>5, <2>6 DEF FlowsInv, FlowsTyped, Set!FlowsAreTrue, Set!ResultStep
<1>9. ASSUME Set!Save PROVE FlowsInv' /\ Set!ResultStep
  BY <1>9 DEF Set!Save, FlowsInv, FlowsTyped, Set!FlowsAreTrue, Set!ResultStep
<1>10. ASSUME NEW w \in setWrites, Set!Writes(w) \/ Set!WriteFails(w) PROVE FlowsInv' /\ Set!ResultStep
  <2>1. setStep = "radio" /\ setGate = 0 /\ UNCHANGED <<setStep, setRun, setGate, setDead>>
    BY <1>10 DEF Set!Writes, Set!WriteFails, FlowsInv
  <2>2. CASE UNCHANGED <<setFlow, setOps>>
    BY <2>1, <2>2 DEF FlowsInv, FlowsTyped, Set!FlowsAreTrue, Set!ResultStep
  <2>3. CASE ~UNCHANGED <<setFlow, setOps>>
    <3>1. w.id = setRun /\ setFlow' \in {"done", "warning"} /\ setOps' = {} /\ setWrites' = setWrites \ {w}
      BY <1>10, <2>3 DEF Set!Writes, Set!WriteFails, Set!SaveEnds
    <3> QED
      BY <2>1, <3>1 DEF FlowsInv, FlowsTyped, Set!FlowsAreTrue, Set!ResultStep
  <2> QED
    BY <2>2, <2>3
<1> QED
  BY <1>1, <1>2, <1>3, <1>4, <1>5, <1>6, <1>7, <1>8, <1>9, <1>10 DEF Set!Next

-----------------------------------------------------------------------------
\* The parameter editor. A write carries entries of one name each, with the value that is
\* staged unless the name was touched since; what another write carries too is touched; and
\* unless another vehicle was chosen during an operation, all of it is the active vehicle's.
IsPart(f) == DOMAIN f \subseteq EditNames /\ \A n \in DOMAIN f : f[n] \in Edi!Values
EditEntry == [name : EditNames, value : Edi!Values, meant : EditVehicles]
EditFetch == [id : Nat, of : EditVehicles, mount : Nat, since : SUBSET EditNames]
EditWrite == [id : Nat, mount : Nat, entries : Seq(EditEntry), done : Nat, to : EditVehicles, asking : BOOLEAN]
EditValues == [EditVehicles -> [EditNames -> Edi!Values]]
Distinct(s) == Edi!IsEntries(s) /\ \A k, j \in 1..Len(s) : s[k].name = s[j].name => k = j
FetchTyped(f) == f \in EditFetch /\ f.id <= ediBegun /\ f.mount <= ediMounts
WriteTyped(w) ==
    /\ w \in EditWrite /\ w.id <= ediBegun /\ w.mount <= ediMounts
    /\ Distinct(w.entries) /\ w.done < Len(w.entries)
EditsTyped ==
    /\ ediActive \in EditVehicles /\ ediHeld \in EditValues /\ ediStagedOn \in EditVehicles
    /\ ediShown = [values |-> ediShown.values, of |-> ediShown.of] /\ IsPart(ediShown.values) /\ ediShown.of \in EditVehicles
    /\ IsPart(ediPending) /\ ediMounts \in Nat /\ ediBegun \in Nat /\ ediEdits \in Nat /\ ediBusy \in BOOLEAN
    /\ \A f \in ediFetches : FetchTyped(f)
    /\ \A w \in ediWrites : WriteTyped(w)
WriteFulfils(w) ==
    w.mount = ediMounts =>
        \A k \in 1..Len(w.entries) :
            w.entries[k].name \in DOMAIN ediPending \ ediTouched => ediPending[w.entries[k].name] = w.entries[k].value
Apart(w, x) ==
    w.id # x.id =>
        \A k \in 1..Len(w.entries), j \in 1..Len(x.entries) :
            w.entries[k].name = x.entries[j].name => w.entries[k].name \in ediTouched
WritesApart == \A w, x \in ediWrites : (w.id = x.id => w = x) /\ Apart(w, x)
WriteAtHome(w) ==
    /\ \A k \in 1..Len(w.entries) : w.entries[k].meant = ediActive
    /\ ~w.asking => w.to = ediActive
    /\ \A k \in 1..w.done : w.entries[k].name \notin ediTouched => ediHeld[ediActive][w.entries[k].name] = w.entries[k].value
ShownAtHome ==
    /\ ediShown.of = ediActive /\ \A f \in ediFetches : f.mount = ediMounts => f.of = ediActive
    /\ \A n \in DOMAIN ediShown.values : n \notin ediTouched => ediShown.values[n] = ediHeld[ediActive][n]
EditsAtHome == ShownAtHome /\ \A w \in ediWrites : WriteAtHome(w)
BusyIsTrue ==
    ediBusy => \/ \E f \in ediFetches : f.mount = ediMounts
               \/ \E w \in ediWrites : w.mount = ediMounts /\ ~w.asking
EditsInv ==
    /\ EditsTyped /\ WritesApart /\ BusyIsTrue
    /\ \A w \in ediWrites : WriteFulfils(w)
    /\ DOMAIN ediPending # {} => ediStagedOn = ediShown.of
    /\ ~ediAstray /\ (~ediCrossed => EditsAtHome)

LEMMA NothingStaged == DOMAIN <<>> = {} /\ IsPart(<<>>)
<1>1. DOMAIN <<>> = {}
  OBVIOUS
<1> QED
  BY <1>1 DEF IsPart

LEMMA EditsBegin == ASSUME Edi!Init PROVE EditsInv
<1>1. ediHeld \in EditValues
  BY DEF Edi!Init, Edi!Values, EditValues
<1>2. ediShown.values = <<>> /\ ediShown = [values |-> ediShown.values, of |-> ediShown.of] /\ ediShown.of = ediActive
  BY DEF Edi!Init
<1>3. /\ ediActive \in EditVehicles /\ ediStagedOn = ediActive /\ ediPending = <<>> /\ ediFetches = {} /\ ediWrites = {}
      /\ ediMounts = 0 /\ ediBegun = 0 /\ ediEdits = 0 /\ ediBusy = FALSE /\ ~ediAstray
  BY DEF Edi!Init
<1>4. EditsTyped
  BY <1>1, <1>2, <1>3, NothingStaged DEF EditsTyped
<1> QED
  BY <1>2, <1>3, <1>4, NothingStaged DEF EditsInv, WritesApart, BusyIsTrue, EditsAtHome, ShownAtHome

LEMMA SequenceOf ==
    ASSUME NEW S, IsFiniteSet(S)
    PROVE  /\ Edi!SetToSeq(S) \in Seq(S)
           /\ \A k \in 1..Len(Edi!SetToSeq(S)) : Edi!SetToSeq(S)[k] \in S
           /\ \A k, j \in 1..Len(Edi!SetToSeq(S)) : Edi!SetToSeq(S)[k] = Edi!SetToSeq(S)[j] => k = j
           /\ S # {} => 0 < Len(Edi!SetToSeq(S))
<1> DEFINE s == Edi!SetToSeq(S)
           n == Cardinality(S)
<1>1. n \in Nat /\ ExistsBijection(1..n, S) /\ (S # {} => n # 0)
  BY FS_CardinalityType, FS_EmptySet
<1>2. PICK f : f \in Bijection(1..n, S)
  BY <1>1 DEF ExistsBijection
<1>3. f \in [1..n -> S] /\ IsInjective(f)
  BY <1>2 DEF Bijection, Injection
<1>4. s \in [1..n -> S] /\ IsInjective(s)
  <2>1. \E g \in [1..n -> S] : IsInjective(g)
    BY <1>3
  <2>3. Edi!Cardinality(S) = n
    BY DEF Cardinality, Edi!Cardinality
  <2>2. s = CHOOSE g \in [1..n -> S] : IsInjective(g)
    BY <2>3 DEF Edi!SetToSeq, IsInjective, Edi!IsInjective
  <2> QED
    BY Zenon, <2>1, <2>2
<1> HIDE DEF s, n
<1>5. s \in Seq(S) /\ Len(s) = n /\ DOMAIN s = 1..n
  BY <1>1, <1>4
<1>6. s = Edi!SetToSeq(S)
  BY DEF s
<1>7. S # {} => 0 < Len(s)
  BY <1>1, <1>5
<1>8. \A k, j \in 1..Len(s) : s[k] = s[j] => k = j
  BY <1>4, <1>5 DEF IsInjective
<1> QED
  BY <1>4, <1>5, <1>6, <1>7, <1>8

\* What is asked for: an entry of each name, its value, and the vehicle that it is for.
LEMMA EntriesAre ==
    ASSUME NEW f, IsPart(f), ediStagedOn \in EditVehicles, ediShown.of \in EditVehicles
    PROVE  /\ Edi!Entries(f) \in Seq(EditEntry) /\ Distinct(Edi!Entries(f)) /\ (DOMAIN f # {} => 0 < Len(Edi!Entries(f)))
           /\ \A k \in 1..Len(Edi!Entries(f)) :
                 /\ Edi!Entries(f)[k].name \in DOMAIN f /\ Edi!Entries(f)[k].value = f[Edi!Entries(f)[k].name]
                 /\ Edi!Entries(f)[k].meant = IF Edi!Entries(f)[k].name \in DOMAIN ediPending THEN ediStagedOn ELSE ediShown.of
<1> DEFINE entry(n) == [name |-> n, value |-> f[n], meant |-> IF n \in DOMAIN ediPending THEN ediStagedOn ELSE ediShown.of]
           S == {entry(n) : n \in DOMAIN f}
           g == [e \in S |-> e.name]
           s == Edi!SetToSeq(S)
<1>1. \A n \in DOMAIN f : /\ entry(n).name = n /\ entry(n).value = f[n] /\ entry(n) \in EditEntry
                          /\ entry(n).meant = IF n \in DOMAIN ediPending THEN ediStagedOn ELSE ediShown.of
  BY DEF IsPart, EditEntry
<1>2. Edi!Entries(f) = s
  BY DEF Edi!Entries
<1> HIDE DEF entry
<1>3. S \subseteq EditEntry /\ \A e \in S : e.name \in DOMAIN f /\ e = entry(e.name)
  BY <1>1
<1>4. IsFiniteSet(DOMAIN f)
  BY ScreensAssumption, FS_Subset DEF IsPart
<1>5. g \in Injection(S, DOMAIN f)
  <2>1. g \in [S -> DOMAIN f]
    BY <1>3
  <2>2. \A a, b \in S : g[a] = g[b] => a = b
    BY <1>3
  <2> QED
    BY <2>1, <2>2 DEF Injection, IsInjective
<1>6. IsFiniteSet(S) /\ (DOMAIN f # {} => S # {})
  BY <1>4, <1>5, FS_Injection
<1> HIDE DEF S, g
<1>7. /\ s \in Seq(S) /\ \A k \in 1..Len(s) : s[k] \in S
      /\ \A k, j \in 1..Len(s) : s[k] = s[j] => k = j
      /\ DOMAIN f # {} => 0 < Len(s)
  BY <1>6, SequenceOf
<1> HIDE DEF s
<1>8. s \in Seq(EditEntry)
  BY <1>3, <1>7
<1>9. Edi!IsEntries(s)
  BY <1>3, <1>7 DEF Edi!IsEntries, EditEntry
<1>10. \A k, j \in 1..Len(s) : s[k].name = s[j].name => k = j
  BY <1>3, <1>7
<1> QED
  BY <1>1, <1>2, <1>3, <1>7, <1>8, <1>9, <1>10 DEF Distinct

\* A name that is added, and names that are taken away.
LEMMA WithIs == ASSUME NEW f, NEW n \in EditNames, NEW v \in Edi!Values, IsPart(f) PROVE IsPart(Edi!With(f, n, v))
BY DEF Edi!With, IsPart
LEMMA WithoutIs ==
    ASSUME NEW f, NEW S
    PROVE  /\ DOMAIN Edi!Without(f, S) = DOMAIN f \ S /\ \A m \in DOMAIN f \ S : Edi!Without(f, S)[m] = f[m]
           /\ IsPart(f) => IsPart(Edi!Without(f, S))
BY DEF Edi!Without, Edi!Restrict, IsPart

\* The vehicle announces a value: it is shown, and what it fulfils is not staged any more.
LEMMA AnnouncedIs ==
    ASSUME EditsTyped, NEW n \in EditNames, NEW v \in Edi!Values, Edi!Announced(n, v)
    PROVE  /\ ediShown' = [values |-> Edi!With(ediShown.values, n, v), of |-> ediShown.of] /\ IsPart(ediShown'.values)
           /\ DOMAIN ediPending' \subseteq DOMAIN ediPending /\ \A m \in DOMAIN ediPending' : ediPending'[m] = ediPending[m]
           /\ \A m \in DOMAIN ediPending \ DOMAIN ediPending' : m = n /\ ediPending[m] = v
           /\ n \in DOMAIN ediPending' => ediPending[n] # v
           /\ IsPart(ediPending')
<1>1. ediShown' = [values |-> Edi!With(ediShown.values, n, v), of |-> ediShown.of]
  BY DEF Edi!Announced, EditsTyped
<1>2. ediPending' = ediPending \/ (n \in DOMAIN ediPending /\ ediPending[n] = v /\ ediPending' = Edi!Without(ediPending, {n}))
  BY DEF Edi!Announced
<1>3. n \in DOMAIN ediPending /\ ediPending[n] = v => ediPending' = Edi!Without(ediPending, {n})
  BY DEF Edi!Announced
<1>4. IsPart(ediPending) /\ IsPart(ediShown.values)
  BY DEF EditsTyped
<1>5. IsPart(Edi!With(ediShown.values, n, v))
  BY <1>4, WithIs
<1>6. /\ DOMAIN Edi!Without(ediPending, {n}) = DOMAIN ediPending \ {n} /\ IsPart(Edi!Without(ediPending, {n}))
      /\ \A m \in DOMAIN ediPending \ {n} : Edi!Without(ediPending, {n})[m] = ediPending[m]
  BY <1>4, WithoutIs
<1>7. CASE ediPending' = ediPending
  BY <1>1, <1>3, <1>4, <1>5, <1>6, <1>7
<1>8. CASE ediPending' = Edi!Without(ediPending, {n}) /\ ediPending[n] = v
  BY <1>1, <1>5, <1>6, <1>8
<1> QED
  BY <1>2, <1>7, <1>8

\* The names and orders of a write, and what is in doubt while a fetch is under way.
LEMMA WriteIs ==
    ASSUME EditsTyped, NEW w \in ediWrites
    PROVE  /\ w \in EditWrite /\ w.done + 1 \in 1..Len(w.entries) /\ w.done \in Nat /\ Len(w.entries) \in Nat
           /\ Edi!Order(w) = w.entries[w.done + 1] /\ Edi!Order(w).name \in EditNames /\ Edi!Order(w).value \in Edi!Values
           /\ \A k \in 1..Len(w.entries) : w.entries[k].name \in EditNames /\ w.entries[k].value \in Edi!Values
           /\ \A k, j \in 1..Len(w.entries) : w.entries[k].name = w.entries[j].name => k = j
           /\ Edi!NamesOf(w) \subseteq EditNames /\ Edi!Order(w).name \in Edi!NamesOf(w) /\ w.to \in EditVehicles
<1>1. w \in EditWrite /\ Distinct(w.entries) /\ w.done < Len(w.entries)
  BY DEF EditsTyped, WriteTyped
<1>2. w.done \in Nat /\ Len(w.entries) \in Nat /\ w.to \in EditVehicles
  BY <1>1 DEF EditWrite
<1> QED
  BY <1>1, <1>2 DEF Distinct, Edi!IsEntries, Edi!Order, Edi!NamesOf
LEMMA AgedIs ==
    ASSUME EditsTyped, NEW S, S \subseteq EditNames, ediFetches' = Edi!Aged(S), UNCHANGED <<ediBegun, ediMounts>>
    PROVE  /\ \A g \in ediFetches' : FetchTyped(g)' /\ \E f \in ediFetches : f.mount = g.mount /\ f.of = g.of
           /\ \A f \in ediFetches : \E g \in ediFetches' : g.mount = f.mount
<1> DEFINE aged(f) == [f EXCEPT !.since = @ \cup S]
<1>1. \A f \in ediFetches : aged(f) \in EditFetch /\ aged(f).id = f.id /\ aged(f).mount = f.mount /\ aged(f).of = f.of
  BY DEF EditsTyped, FetchTyped, EditFetch
<1>2. ediFetches' = {aged(f) : f \in ediFetches}
  BY DEF Edi!Aged
<1> HIDE DEF aged
<1>3. \A f \in ediFetches : f.id <= ediBegun' /\ f.mount <= ediMounts'
  BY DEF EditsTyped, FetchTyped
<1> QED
  BY <1>1, <1>2, <1>3 DEF FetchTyped

\* A write that goes on keeps what is true of it: when no edit is added to its names, and
\* when the values of its names stay or the names are touched.
LEMMA FulfilsStays ==
    ASSUME NEW w, WriteFulfils(w), ediMounts' = ediMounts, ediTouched \subseteq ediTouched', DOMAIN ediPending' \subseteq DOMAIN ediPending,
           \A n \in DOMAIN ediPending' : ediPending'[n] = ediPending[n]
    PROVE  WriteFulfils(w)'
BY DEF WriteFulfils
LEMMA AtHomeStays ==
    ASSUME NEW w, WriteAtHome(w), WriteTyped(w), ediActive' = ediActive, ediTouched \subseteq ediTouched', NEW S,
           \A n \in EditNames \ S : ediHeld'[ediActive][n] = ediHeld[ediActive][n],
           \A k \in 1..w.done : w.entries[k].name \in S => w.entries[k].name \in ediTouched'
    PROVE  WriteAtHome(w)'
<1>1. \A k \in 1..w.done : k \in 1..Len(w.entries) /\ w.entries[k].name \in EditNames
  BY DEF WriteTyped, EditWrite, Distinct, Edi!IsEntries
<1> QED
  BY <1>1 DEF WriteAtHome
LEMMA ApartStays ==
    ASSUME WritesApart, ediTouched \subseteq ediTouched',
           \A x \in ediWrites' : \E w \in ediWrites : x.id = w.id /\ x.entries = w.entries,
           \A x, y \in ediWrites' : x.id = y.id => x = y
    PROVE  WritesApart'
BY DEF WritesApart, Apart

\* The next order of a write is sent: it stands for itself, a rival is gone, and the value
\* of a name that a rival carries may be any.
LEMMA SendsIs ==
    ASSUME EditsTyped, WritesApart, NEW w \in ediWrites, NEW x \in EditWrite, x.id = w.id, x.entries = w.entries, x.mount = w.mount,
           x.done < Len(x.entries), NEW values \in EditValues, NEW flag \in BOOLEAN, Edi!Sends(x, values, flag),
           UNCHANGED <<ediBegun, ediMounts>>
    PROVE  \E sent \in EditWrite :
              /\ sent.id = w.id /\ sent.entries = w.entries /\ sent.mount = w.mount /\ sent.done = x.done /\ ~sent.asking /\ sent.to = ediActive
              /\ sent \in ediWrites' /\ ediWrites' \subseteq (ediWrites \ {w}) \cup {sent}
              /\ ediHeld' \in EditValues /\ ediBusy' \in BOOLEAN
              /\ \/ ediHeld' = values
                 \/ Edi!Order(x).name \in ediTouched /\ \A v \in EditVehicles, n \in EditNames \ {Edi!Order(x).name} : ediHeld'[v][n] = values[v][n]
              /\ ediBusy' => flag /\ \A y \in ediWrites \ {w} : y.mount = ediMounts => y \in ediWrites'
<1> DEFINE sent == [x EXCEPT !.to = ediActive, !.asking = FALSE]
           r == Edi!Order(x).name
<1>1. /\ sent \in EditWrite /\ sent.id = w.id /\ sent.entries = w.entries /\ sent.mount = w.mount /\ sent.done = x.done
      /\ ~sent.asking /\ sent.to = ediActive
  BY DEF EditWrite, EditsTyped
<1>2. ediWrites' = {y \in ediWrites \ Edi!Rivals(x) : y.id # x.id} \cup {sent}
  BY DEF Edi!Sends
<1> HIDE DEF sent
<1>3. \A y \in Edi!Rivals(x) : y \in ediWrites /\ y.id # w.id /\ Edi!Order(y).name = r
  BY DEF Edi!Rivals
<1>4. ediWrites' = ((ediWrites \ Edi!Rivals(x)) \ {w}) \cup {sent}
  BY <1>2 DEF WritesApart
<1>5. r \in EditNames /\ x.done + 1 \in 1..Len(w.entries) /\ r = w.entries[x.done + 1].name
  BY DEF EditWrite, EditsTyped, WriteTyped, Distinct, Edi!IsEntries, Edi!Order
<1>6. \A y \in Edi!Rivals(x) : y.to \in EditVehicles /\ Edi!Order(y).value \in Edi!Values /\ r \in ediTouched
  <2>1. ASSUME NEW y \in Edi!Rivals(x) PROVE y.to \in EditVehicles /\ Edi!Order(y).value \in Edi!Values /\ r \in ediTouched
    <3>1. y \in ediWrites /\ y.id # w.id /\ Edi!Order(y).name = r
      BY <1>3
    <3>2. y.done + 1 \in 1..Len(y.entries) /\ Edi!Order(y) = y.entries[y.done + 1] /\ y.to \in EditVehicles /\ Edi!Order(y).value \in Edi!Values
      BY <3>1, WriteIs
    <3>3. Apart(w, y)
      BY <3>1 DEF WritesApart
    <3> QED
      BY <1>5, <3>1, <3>2, <3>3 DEF Apart
  <2> QED
    BY <2>1
<1>7. \/ ediHeld' = values
      \/ \E y \in Edi!Rivals(x) : ediHeld' = [values EXCEPT ![y.to][Edi!Order(y).name] = Edi!Order(y).value]
  BY DEF Edi!Sends, Edi!Outcomes
<1>8. /\ ediHeld' \in EditValues
      /\ ediHeld' = values \/ (r \in ediTouched /\ \A v \in EditVehicles, n \in EditNames \ {r} : ediHeld'[v][n] = values[v][n])
  <2>1. CASE ediHeld' = values
    BY <2>1
  <2>2. CASE \E y \in Edi!Rivals(x) : ediHeld' = [values EXCEPT ![y.to][Edi!Order(y).name] = Edi!Order(y).value]
    <3>1. PICK y \in Edi!Rivals(x) : ediHeld' = [values EXCEPT ![y.to][Edi!Order(y).name] = Edi!Order(y).value]
      BY <2>2
    <3>2. y.to \in EditVehicles /\ Edi!Order(y).value \in Edi!Values /\ r \in ediTouched /\ Edi!Order(y).name = r
      BY <1>3, <1>6
    <3>3. ediHeld' = [values EXCEPT ![y.to][r] = Edi!Order(y).value]
      BY <3>1, <3>2
    <3> QED
      BY <1>5, <3>2, <3>3 DEF EditValues
  <2> QED
    BY <1>7, <2>1, <2>2
<1>9. ediBusy' = (flag /\ Edi!Own(Edi!Rivals(x)) = {})
  BY DEF Edi!Sends
<1>10. ediBusy' \in BOOLEAN /\ (ediBusy' => flag /\ \A y \in ediWrites \ {w} : y.mount = ediMounts => y \in ediWrites')
  BY <1>4, <1>9 DEF Edi!Own
<1> HIDE DEF r
<1>11. /\ sent \in ediWrites' /\ ediWrites' \subseteq (ediWrites \ {w}) \cup {sent}
       /\ ediHeld' = values \/ (Edi!Order(x).name \in ediTouched /\ \A v \in EditVehicles, n \in EditNames \ {Edi!Order(x).name} : ediHeld'[v][n] = values[v][n])
  BY <1>4, <1>8 DEF r
<1> QED
  BY <1>1, <1>8, <1>10, <1>11

LEMMA EditsKeep == ASSUME EditsInv, Edi!Next PROVE EditsInv' /\ Edi!DropStep
<1> USE DEF EditsInv
<1>1. ASSUME Edi!FetchAll PROVE EditsInv' /\ Edi!DropStep
  <2>1. /\ UNCHANGED <<ediActive, ediHeld, ediShown, ediPending, ediStagedOn, ediWrites, ediMounts, ediEdits, ediCrossed, ediTouched, ediAstray>>
        /\ ediBusy' = TRUE /\ ediBegun' = ediBegun + 1
        /\ ediFetches' = ediFetches \cup {[id |-> ediBegun', of |-> ediActive, mount |-> ediMounts, since |-> {}]}
    BY <1>1 DEF Edi!FetchAll
  <2>2. PICK f \in EditFetch : /\ f.id = ediBegun + 1 /\ f.of = ediActive /\ f.mount = ediMounts
                              /\ ediFetches' = ediFetches \cup {f}
    <3> DEFINE new == [id |-> ediBegun + 1, of |-> ediActive, mount |-> ediMounts, since |-> {}]
    <3>1. new \in EditFetch /\ new.id = ediBegun + 1 /\ new.of = ediActive /\ new.mount = ediMounts
      BY DEF EditFetch, EditsTyped
    <3>2. ediFetches' = ediFetches \cup {new}
      BY <2>1
    <3> HIDE DEF new
    <3> QED
      BY <3>1, <3>2
  <2>3. ediFetches' = ediFetches \cup {f}
    BY <2>2
  <2>4. \A g \in ediFetches : FetchTyped(g)'
    BY <2>1 DEF EditsTyped, FetchTyped, EditFetch
  <2>5. \A w \in ediWrites' : WriteTyped(w)' /\ WriteFulfils(w)'
    BY <2>1 DEF EditsTyped, WriteTyped, EditWrite, WriteFulfils
  <2>6. FetchTyped(f)'
    BY <2>1, <2>2 DEF FetchTyped, EditsTyped
  <2>7. EditsTyped'
    BY <2>1, <2>3, <2>4, <2>5, <2>6 DEF EditsTyped
  <2>8. WritesApart' /\ BusyIsTrue' /\ (~ediCrossed => EditsAtHome')
    BY <2>1, <2>2, <2>3 DEF WritesApart, Apart, BusyIsTrue, EditsAtHome, ShownAtHome, WriteAtHome
  <2> QED
    BY <2>1, <2>5, <2>7, <2>8 DEF Edi!DropStep
<1>2. ASSUME NEW f \in ediFetches, Edi!Fetched(f) \/ Edi!FetchFails(f), UNCHANGED <<ediShown, ediPending, ediCrossed, ediTouched>>,
             ediBusy' = (ediBusy /\ f.mount # ediMounts)
      PROVE  EditsInv' /\ Edi!DropStep
  <2>1. /\ UNCHANGED <<ediActive, ediHeld, ediStagedOn, ediWrites, ediMounts, ediBegun, ediEdits, ediAstray>>
        /\ ediFetches' = ediFetches \ {f}
    BY <1>2 DEF Edi!Fetched, Edi!FetchFails
  <2>2. EditsTyped'
    BY <1>2, <2>1 DEF EditsTyped, FetchTyped, WriteTyped
  <2>3. BusyIsTrue'
    BY <1>2, <2>1 DEF BusyIsTrue
  <2>4. WritesApart' /\ (~ediCrossed => EditsAtHome') /\ \A w \in ediWrites' : WriteFulfils(w)'
    BY <1>2, <2>1 DEF WritesApart, Apart, EditsAtHome, ShownAtHome, WriteAtHome, WriteFulfils
  <2> QED
    BY <1>2, <2>1, <2>2, <2>3, <2>4 DEF Edi!DropStep
<1>3. ASSUME NEW f \in ediFetches, Edi!Fetched(f), f.mount = ediMounts PROVE EditsInv' /\ Edi!DropStep
  <2>1. /\ UNCHANGED <<ediActive, ediHeld, ediStagedOn, ediWrites, ediMounts, ediBegun, ediEdits, ediAstray>>
        /\ ediFetches' = ediFetches \ {f} /\ ediPending' = <<>> /\ ediBusy' = FALSE
        /\ \E values \in [EditNames -> Edi!Values] :
              /\ \A n \in EditNames \ f.since : values[n] = ediHeld[f.of][n]
              /\ ediShown' = [values |-> values, of |-> f.of]
        /\ ediTouched' = (IF ediWrites = {} THEN {} ELSE ediTouched) \cup f.since
        /\ ediCrossed' = (ediCrossed /\ (f.of # ediActive \/ ediWrites # {} \/ Edi!Own(ediFetches) # {f}))
    BY <1>3 DEF Edi!Fetched
  <2>2. PICK values \in [EditNames -> Edi!Values] :
           /\ \A n \in EditNames \ f.since : values[n] = ediHeld[f.of][n]
           /\ ediShown' = [values |-> values, of |-> f.of]
    BY <2>1
  <2>3. ediShown'.values = values /\ ediShown'.of = f.of /\ ediShown' = [values |-> ediShown'.values, of |-> ediShown'.of] /\ IsPart(values)
    BY <2>2 DEF IsPart
  <2>4. f.of \in EditVehicles /\ f.since \subseteq EditNames
    BY DEF EditsTyped, FetchTyped, EditFetch
  <2>5. EditsTyped'
    BY <2>1, <2>3, <2>4, NothingStaged DEF EditsTyped, FetchTyped, WriteTyped
  <2>6. WritesApart' /\ \A w \in ediWrites' : WriteFulfils(w)'
    <3>1. \A w \in ediWrites : ediTouched \subseteq ediTouched'
      BY <2>1
    <3> QED
      BY <2>1, <3>1, NothingStaged DEF WritesApart, Apart, WriteFulfils
  <2>7. ASSUME ~ediCrossed' PROVE EditsAtHome'
    <3>1. f.of = ediActive
      BY <1>3, <2>1, <2>7 DEF EditsAtHome, ShownAtHome
    <3>2. \A g \in ediFetches' : g.mount = ediMounts => g.of = ediActive
      BY <1>3, <2>1, <2>7 DEF EditsAtHome, ShownAtHome, Edi!Own
    <3>3. \A n \in DOMAIN values : n \notin ediTouched' => values[n] = ediHeld[ediActive][n]
      BY <2>1, <2>2, <3>1
    <3>4. \A w \in ediWrites : WriteAtHome(w)'
      <4>1. \A w \in ediWrites : WriteAtHome(w) /\ ediTouched \subseteq ediTouched'
        BY <2>1, <2>7 DEF EditsAtHome
      <4> QED
        BY <2>1, <4>1 DEF WriteAtHome
    <3> QED
      BY <2>1, <2>3, <3>1, <3>2, <3>3, <3>4 DEF EditsAtHome, ShownAtHome
  <2>8. Edi!DropStep
    BY <1>3, <2>1 DEF Edi!DropStep, Edi!Own
  <2> QED
    BY <2>1, <2>5, <2>6, <2>7, <2>8, NothingStaged DEF BusyIsTrue
<1>4. ASSUME NEW w \in ediWrites, Edi!Declines(w) PROVE EditsInv' /\ Edi!DropStep
  <2>1. /\ UNCHANGED <<ediActive, ediHeld, ediShown, ediPending, ediStagedOn, ediBusy, ediFetches, ediMounts, ediBegun, ediEdits, ediCrossed, ediTouched, ediAstray>>
        /\ ediWrites' = ediWrites \ {w} /\ w.asking
    BY <1>4 DEF Edi!Declines
  <2>2. EditsTyped'
    BY <2>1 DEF EditsTyped, FetchTyped, WriteTyped
  <2>3. BusyIsTrue'
    BY <2>1 DEF BusyIsTrue
  <2>4. WritesApart' /\ (~ediCrossed => EditsAtHome') /\ \A x \in ediWrites' : WriteFulfils(x)'
    BY <2>1 DEF WritesApart, Apart, EditsAtHome, ShownAtHome, WriteAtHome, WriteFulfils
  <2> QED
    BY <2>1, <2>2, <2>3, <2>4 DEF Edi!DropStep
<1>5. ASSUME NEW n \in EditNames, NEW v \in Edi!Values, Edi!Edit(n, v) PROVE EditsInv' /\ Edi!DropStep
  <2>1. /\ n \in DOMAIN ediShown.values /\ ediEdits' = ediEdits + 1 /\ ediStagedOn' = ediShown.of
        /\ UNCHANGED <<ediActive, ediHeld, ediShown, ediBusy, ediFetches, ediWrites, ediMounts, ediBegun, ediCrossed, ediAstray>>
        /\ ediPending' = Edi!Without(ediPending, {n}) \/ ediPending' = Edi!With(ediPending, n, v)
        /\ ediTouched' = ediTouched \cup ({n} \cap Edi!Carried)
    BY <1>5 DEF Edi!Edit
  <2>2. IsPart(ediPending') /\ DOMAIN ediPending' \subseteq DOMAIN ediPending \cup {n} /\ \A m \in DOMAIN ediPending' \ {n} : ediPending'[m] = ediPending[m]
    <3>1. IsPart(ediPending) /\ v \in Edi!Values
      BY DEF EditsTyped
    <3>2. CASE ediPending' = Edi!Without(ediPending, {n})
      <4>1. /\ DOMAIN Edi!Without(ediPending, {n}) = DOMAIN ediPending \ {n} /\ IsPart(Edi!Without(ediPending, {n}))
            /\ \A m \in DOMAIN ediPending \ {n} : Edi!Without(ediPending, {n})[m] = ediPending[m]
        BY Zenon, <3>1, WithoutIs
      <4> QED
        BY <3>2, <4>1
    <3>3. CASE ediPending' = Edi!With(ediPending, n, v)
      <4>1. /\ DOMAIN Edi!With(ediPending, n, v) = DOMAIN ediPending \cup {n} /\ IsPart(Edi!With(ediPending, n, v))
            /\ \A m \in DOMAIN ediPending \ {n} : Edi!With(ediPending, n, v)[m] = ediPending[m]
        BY <3>1 DEF Edi!With, IsPart
      <4> QED
        BY <3>3, <4>1
    <3> QED
      BY <2>1, <3>2, <3>3
  <2>3. ediTouched \subseteq ediTouched' /\ \A w \in ediWrites : \A k \in 1..Len(w.entries) : w.entries[k].name = n => n \in ediTouched'
    BY <2>1 DEF Edi!Carried, Edi!NamesOf
  <2>4. EditsTyped'
    BY <2>1, <2>2 DEF EditsTyped, FetchTyped, WriteTyped
  <2>5. \A w \in ediWrites' : WriteFulfils(w)'
    BY <2>1, <2>2, <2>3 DEF WriteFulfils
  <2>6. WritesApart' /\ BusyIsTrue'
    BY <2>1, <2>3 DEF WritesApart, Apart, BusyIsTrue
  <2>7. ASSUME ~ediCrossed PROVE EditsAtHome'
    <3>1. ShownAtHome'
      BY <2>1, <2>3, <2>7 DEF EditsAtHome, ShownAtHome
    <3>2. \A w \in ediWrites : WriteAtHome(w)'
      BY <2>1, <2>3, <2>7 DEF EditsAtHome, WriteAtHome
    <3> QED
      BY <2>1, <3>1, <3>2 DEF EditsAtHome
  <2>8. Edi!DropStep
    BY <2>1 DEF Edi!DropStep, EditsTyped
  <2> QED
    BY <2>1, <2>4, <2>5, <2>6, <2>7, <2>8
<1>6. ASSUME NEW f, IsPart(f), \A n \in DOMAIN f \cap DOMAIN ediPending : f[n] = ediPending[n], Edi!Asks(f)
      PROVE  EditsInv' /\ Edi!DropStep
  <2>1. /\ ediBegun' = ediBegun + 1 /\ ediTouched' = ediTouched \cup (DOMAIN f \cap Edi!Carried)
        /\ ediWrites' = ediWrites \cup {[id |-> ediBegun', mount |-> ediMounts, entries |-> Edi!Entries(f), done |-> 0, to |-> ediActive, asking |-> TRUE]}
        /\ UNCHANGED <<ediActive, ediHeld, ediShown, ediPending, ediStagedOn, ediBusy, ediFetches, ediMounts, ediEdits, ediCrossed, ediAstray>>
    BY <1>6 DEF Edi!Asks
  <2> DEFINE s == Edi!Entries(f)
  <2>2. /\ s \in Seq(EditEntry) /\ Distinct(s) /\ 0 < Len(s)
        /\ \A k \in 1..Len(s) : /\ s[k].name \in DOMAIN f /\ s[k].value = f[s[k].name]
                                /\ s[k].meant = IF s[k].name \in DOMAIN ediPending THEN ediStagedOn ELSE ediShown.of
    BY <1>6, EntriesAre DEF EditsTyped, Edi!Asks
  <2> HIDE DEF s
  <2>15. ediWrites' = ediWrites \cup {[id |-> ediBegun', mount |-> ediMounts, entries |-> s, done |-> 0, to |-> ediActive, asking |-> TRUE]}
    BY <2>1 DEF s
  <2>3. PICK w \in EditWrite : /\ w.id = ediBegun + 1 /\ w.mount = ediMounts /\ w.entries = s /\ w.done = 0 /\ w.asking
                               /\ ediWrites' = ediWrites \cup {w}
    <3> DEFINE new == [id |-> ediBegun + 1, mount |-> ediMounts, entries |-> s, done |-> 0, to |-> ediActive, asking |-> TRUE]
    <3>1. /\ new \in EditWrite /\ new.id = ediBegun + 1 /\ new.mount = ediMounts /\ new.entries = s /\ new.done = 0 /\ new.asking
      BY <2>2 DEF EditWrite, EditsTyped
    <3>2. ediWrites' = ediWrites \cup {new}
      BY <2>1, <2>15
    <3> HIDE DEF new
    <3> QED
      BY <3>1, <3>2
  <2>4. ediWrites' = ediWrites \cup {w}
    BY <2>3
  <2>5. ediTouched \subseteq ediTouched' /\ \A x \in ediWrites : x.id # w.id
    BY <2>1, <2>3 DEF EditsTyped, WriteTyped, EditWrite
  <2>6. \A x \in ediWrites : \A k \in 1..Len(x.entries), j \in 1..Len(s) : x.entries[k].name = s[j].name => s[j].name \in ediTouched'
    BY <2>1, <2>2 DEF Edi!Carried, Edi!NamesOf
  <2>7. \A x \in ediWrites : WriteTyped(x)'
    BY <2>1 DEF EditsTyped, WriteTyped, EditWrite
  <2>8. WriteTyped(w)' /\ \A g \in ediFetches : FetchTyped(g)'
    BY <2>1, <2>2, <2>3 DEF EditsTyped, WriteTyped, FetchTyped, EditFetch
  <2>9. EditsTyped'
    BY <2>1, <2>4, <2>7, <2>8 DEF EditsTyped
  <2>10. \A x \in ediWrites : WriteFulfils(x)'
    BY <2>1, <2>5 DEF WriteFulfils
  <2>11. WriteFulfils(w)'
    BY <1>6, <2>1, <2>2, <2>3 DEF WriteFulfils
  <2>12. WritesApart'
    <3>1. \A x, y \in ediWrites : Apart(x, y)'
      BY <2>5 DEF WritesApart, Apart
    <3>2. \A x \in ediWrites : Apart(x, w)' /\ Apart(w, x)'
      BY <2>3, <2>6 DEF Apart
    <3>3. Apart(w, w)'
      BY DEF Apart
    <3> QED
      BY <2>4, <2>5, <3>1, <3>2, <3>3 DEF WritesApart
  <2>13. BusyIsTrue'
    BY <2>1, <2>4 DEF BusyIsTrue
  <2>14. ASSUME ~ediCrossed PROVE EditsAtHome'
    <3>1. ShownAtHome'
      BY <2>1, <2>5, <2>14 DEF EditsAtHome, ShownAtHome
    <3>2. \A x \in ediWrites : WriteAtHome(x)'
      BY <2>1, <2>5, <2>14 DEF EditsAtHome, WriteAtHome
    <3>3. WriteAtHome(w)'
      BY <2>1, <2>2, <2>3, <2>14 DEF EditsAtHome, ShownAtHome, WriteAtHome
    <3> QED
      BY <2>4, <3>1, <3>2, <3>3 DEF EditsAtHome
  <2> QED
    BY <2>1, <2>4, <2>9, <2>10, <2>11, <2>12, <2>13, <2>14 DEF Edi!DropStep
<1>7. ASSUME NEW w \in ediWrites, Edi!Confirms(w) PROVE EditsInv' /\ Edi!DropStep
  <2>1. /\ UNCHANGED <<ediActive, ediShown, ediPending, ediStagedOn, ediMounts, ediBegun, ediEdits, ediCrossed, ediTouched>>
        /\ w.asking /\ Edi!Sends(w, ediHeld, ediBusy \/ w.mount = ediMounts)
        /\ ediFetches' = Edi!Aged(Edi!NamesOf(w)) /\ ediAstray' = (ediAstray \/ (Edi!Order(w).meant # ediActive /\ ~ediCrossed))
    BY <1>7 DEF Edi!Confirms, Edi!Sends
  <2> DEFINE flag == ediBusy \/ w.mount = ediMounts
  <2>2. WriteTyped(w) /\ w \in EditWrite /\ w.done < Len(w.entries) /\ ediHeld \in EditValues /\ flag \in BOOLEAN
    BY DEF EditsTyped, WriteTyped
  <2> HIDE DEF flag
  <2>3. Edi!Sends(w, ediHeld, flag)
    BY <2>1 DEF flag
  <2>4. PICK sent \in EditWrite :
           /\ sent.id = w.id /\ sent.entries = w.entries /\ sent.mount = w.mount /\ sent.done = w.done /\ ~sent.asking /\ sent.to = ediActive
           /\ sent \in ediWrites' /\ ediWrites' \subseteq (ediWrites \ {w}) \cup {sent}
           /\ ediHeld' \in EditValues /\ ediBusy' \in BOOLEAN
           /\ \/ ediHeld' = ediHeld
              \/ Edi!Order(w).name \in ediTouched /\ \A v \in EditVehicles, n \in EditNames \ {Edi!Order(w).name} : ediHeld'[v][n] = ediHeld[v][n]
           /\ ediBusy' => flag /\ \A y \in ediWrites \ {w} : y.mount = ediMounts => y \in ediWrites'
    BY <2>1, <2>2, <2>3, SendsIs
  <2>5. /\ \A g \in ediFetches' : FetchTyped(g)' /\ \E f \in ediFetches : f.mount = g.mount /\ f.of = g.of
        /\ \A f \in ediFetches : \E g \in ediFetches' : g.mount = f.mount
    BY <2>1, WriteIs, AgedIs
  <2>6. /\ Edi!Order(w) = w.entries[w.done + 1] /\ w.done + 1 \in 1..Len(w.entries) /\ w.done \in Nat
        /\ ediActive \in EditVehicles
    BY WriteIs DEF EditsTyped
  <2>7. \A x \in ediWrites' : x = sent \/ (x \in ediWrites /\ x.id # w.id)
    BY <2>4 DEF WritesApart
  <2>8. WriteTyped(sent)' /\ WriteFulfils(sent)'
    BY <2>1, <2>2, <2>4 DEF WriteTyped, WriteFulfils
  <2>9. \A x \in ediWrites : WriteTyped(x)' /\ WriteFulfils(x)'
    BY <2>1 DEF EditsTyped, WriteTyped, WriteFulfils
  <2>10. EditsTyped'
    BY <2>1, <2>4, <2>5, <2>7, <2>8, <2>9 DEF EditsTyped
  <2>11. WritesApart'
    <3>1. \A x \in ediWrites' : \E y \in ediWrites : x.id = y.id /\ x.entries = y.entries
      BY <2>4, <2>7
    <3>2. \A x, y \in ediWrites' : x.id = y.id => x = y
      BY <2>4, <2>7 DEF WritesApart
    <3> QED
      BY <2>1, <3>1, <3>2, ApartStays
  <2>12. BusyIsTrue'
    <3>1. ASSUME ediBusy' PROVE \/ \E f \in ediFetches' : f.mount = ediMounts
                                \/ \E x \in ediWrites' : x.mount = ediMounts /\ ~x.asking
      <4>1. CASE w.mount = ediMounts
        BY <2>4, <4>1
      <4>2. CASE w.mount # ediMounts
        <5>1. ediBusy
          BY <2>4, <3>1, <4>2 DEF flag
        <5> QED
          BY <2>1, <2>4, <2>5, <3>1, <5>1 DEF BusyIsTrue
      <4> QED
        BY <4>1, <4>2
    <3> QED
      BY <2>1, <3>1 DEF BusyIsTrue
  <2>13. ~ediAstray'
    BY <2>1, <2>6 DEF EditsAtHome, WriteAtHome
  <2>14. ASSUME ~ediCrossed PROVE EditsAtHome'
    <3> DEFINE S == {n \in EditNames : ediHeld'[ediActive][n] # ediHeld[ediActive][n]}
    <3>1. \A n \in S : n \in ediTouched
      BY <2>4, <2>6
    <3>2. \A n \in EditNames \ S : ediHeld'[ediActive][n] = ediHeld[ediActive][n]
      OBVIOUS
    <3> HIDE DEF S
    <3>3. ShownAtHome'
      <4>1. \A n \in DOMAIN ediShown.values : n \in EditNames
        BY DEF EditsTyped, IsPart
      <4> QED
        BY <2>1, <2>5, <2>14, <3>1, <3>2, <4>1 DEF EditsAtHome, ShownAtHome
    <3>4. \A x \in ediWrites : WriteAtHome(x)'
      BY <2>1, <2>14, <3>1, <3>2, AtHomeStays DEF EditsAtHome, EditsTyped
    <3>5. WriteAtHome(sent)'
      BY <2>1, <2>4, <3>4 DEF WriteAtHome
    <3> QED
      BY <2>7, <3>3, <3>4, <3>5 DEF EditsAtHome
  <2>15. \A x \in ediWrites' : WriteFulfils(x)'
    BY <2>7, <2>8, <2>9
  <2> QED
    BY <2>1, <2>10, <2>11, <2>12, <2>13, <2>14, <2>15 DEF Edi!DropStep
<1>8. ASSUME NEW w \in ediWrites, Edi!Echoed(w) PROVE EditsInv' /\ Edi!DropStep
  <2> DEFINE e == Edi!Order(w)
             x == [w EXCEPT !.done = @ + 1]
             obeyed == Edi!Obeyed(w)
  <2>1. /\ UNCHANGED <<ediActive, ediStagedOn, ediMounts, ediBegun, ediEdits, ediCrossed, ediTouched>>
        /\ ~w.asking /\ w.done + 1 < Len(w.entries) /\ Edi!Announced(e.name, e.value) /\ Edi!Sends(x, obeyed, ediBusy)
        /\ ediFetches' = Edi!Aged(Edi!NamesOf(x)) /\ ediAstray' = (ediAstray \/ (Edi!Order(x).meant # ediActive /\ ~ediCrossed))
    BY <1>8 DEF Edi!Echoed, Edi!Sends
  <2>2. /\ WriteTyped(w) /\ w.done \in Nat /\ e = w.entries[w.done + 1] /\ w.done + 1 \in 1..Len(w.entries) /\ w.to \in EditVehicles
        /\ e.name \in EditNames /\ e.value \in Edi!Values /\ ediHeld \in EditValues /\ ediBusy \in BOOLEAN /\ ediActive \in EditVehicles
        /\ \A k, j \in 1..Len(w.entries) : w.entries[k].name = w.entries[j].name => k = j
    BY WriteIs DEF EditsTyped
  <2>3. /\ x \in EditWrite /\ x.id = w.id /\ x.entries = w.entries /\ x.mount = w.mount /\ x.done = w.done + 1
        /\ x.done < Len(x.entries) /\ x.done + 1 \in 1..Len(w.entries)
    <3>1. w \in EditWrite /\ Len(w.entries) \in Nat /\ w.done + 1 \in Nat
      BY <2>2, WriteIs
    <3>2. x \in EditWrite /\ x.id = w.id /\ x.entries = w.entries /\ x.mount = w.mount /\ x.done = w.done + 1
      BY <3>1 DEF EditWrite
    <3> HIDE DEF x
    <3> QED
      BY <2>1, <3>1, <3>2
  <2>4. /\ obeyed \in EditValues /\ obeyed[w.to][e.name] = e.value
        /\ \A n \in EditNames \ {e.name} : obeyed[ediActive][n] = ediHeld[ediActive][n]
    BY <2>2 DEF Edi!Obeyed, EditValues
  <2> DEFINE r == Edi!Order(x)
  <2>5. r = w.entries[w.done + 2] /\ r.name # e.name /\ Edi!NamesOf(x) = Edi!NamesOf(w)
    BY <2>2, <2>3 DEF Edi!Order, Edi!NamesOf
  <2> HIDE DEF e, x, obeyed, r
  <2>6. PICK sent \in EditWrite :
           /\ sent.id = w.id /\ sent.entries = w.entries /\ sent.mount = w.mount /\ sent.done = x.done /\ ~sent.asking /\ sent.to = ediActive
           /\ sent \in ediWrites' /\ ediWrites' \subseteq (ediWrites \ {w}) \cup {sent}
           /\ ediHeld' \in EditValues /\ ediBusy' \in BOOLEAN
           /\ \/ ediHeld' = obeyed
              \/ Edi!Order(x).name \in ediTouched /\ \A v \in EditVehicles, n \in EditNames \ {Edi!Order(x).name} : ediHeld'[v][n] = obeyed[v][n]
           /\ ediBusy' => ediBusy /\ \A y \in ediWrites \ {w} : y.mount = ediMounts => y \in ediWrites'
    BY <2>1, <2>2, <2>3, <2>4, SendsIs
  <2>7. /\ \A g \in ediFetches' : FetchTyped(g)' /\ \E f \in ediFetches : f.mount = g.mount /\ f.of = g.of
        /\ \A f \in ediFetches : \E g \in ediFetches' : g.mount = f.mount
    BY <2>1, <2>5, WriteIs, AgedIs
  <2>8. /\ ediShown' = [values |-> Edi!With(ediShown.values, e.name, e.value), of |-> ediShown.of] /\ IsPart(ediShown'.values)
        /\ DOMAIN ediPending' \subseteq DOMAIN ediPending /\ \A m \in DOMAIN ediPending' : ediPending'[m] = ediPending[m]
        /\ \A m \in DOMAIN ediPending \ DOMAIN ediPending' : m = e.name /\ ediPending[m] = e.value
        /\ IsPart(ediPending')
    BY <2>1, <2>2, AnnouncedIs
  <2>9. /\ ediShown'.values = Edi!With(ediShown.values, e.name, e.value) /\ ediShown'.of = ediShown.of
        /\ ediShown' = [values |-> ediShown'.values, of |-> ediShown'.of]
    BY <2>8
  <2>10. \A y \in ediWrites' : y = sent \/ (y \in ediWrites /\ y.id # w.id)
    BY <2>6 DEF WritesApart
  <2>11. WriteTyped(sent)'
    BY <2>1, <2>2, <2>3, <2>6 DEF WriteTyped
  <2>12. \A y \in ediWrites : WriteTyped(y)' /\ WriteFulfils(y)'
    BY <2>1, <2>8, FulfilsStays DEF EditsTyped, WriteTyped
  <2>13. WriteFulfils(sent)'
    BY <2>6, <2>12 DEF WriteFulfils
  <2>14. EditsTyped'
    BY <2>1, <2>6, <2>7, <2>8, <2>9, <2>10, <2>11, <2>12 DEF EditsTyped
  <2>15. WritesApart'
    <3>1. \A y \in ediWrites' : \E z \in ediWrites : y.id = z.id /\ y.entries = z.entries
      BY <2>6, <2>10
    <3>2. \A y, z \in ediWrites' : y.id = z.id => y = z
      BY <2>6, <2>10 DEF WritesApart
    <3> QED
      BY <2>1, <3>1, <3>2, ApartStays
  <2>16. BusyIsTrue'
    <3>1. ASSUME ediBusy' PROVE \/ \E f \in ediFetches' : f.mount = ediMounts
                                \/ \E y \in ediWrites' : y.mount = ediMounts /\ ~y.asking
      BY <2>1, <2>6, <2>7, <3>1 DEF BusyIsTrue
    <3> QED
      BY <2>1, <3>1 DEF BusyIsTrue
  <2>17. ~ediAstray'
    <3>1. ~ediCrossed => r.meant = ediActive
      BY <2>2, <2>3, <2>5 DEF EditsAtHome, WriteAtHome
    <3> QED
      BY <2>1, <3>1 DEF r
  <2>18. ASSUME ~ediCrossed PROVE EditsAtHome' /\ (ediHeld'[ediActive][e.name] = e.value)
    <3> DEFINE S == {n \in EditNames : ediHeld'[ediActive][n] # ediHeld[ediActive][n]}
    <3>1. w.to = ediActive
      BY <2>1, <2>18 DEF EditsAtHome, WriteAtHome
    <3>2. ediHeld'[ediActive][e.name] = e.value /\ \A n \in S : n \in ediTouched \/ n = e.name
      BY <2>2, <2>4, <2>5, <2>6, <3>1 DEF r
    <3>3. \A n \in EditNames \ S : ediHeld'[ediActive][n] = ediHeld[ediActive][n]
      OBVIOUS
    <3> HIDE DEF S
    <3>4. ShownAtHome'
      <4>1. \A n \in DOMAIN ediShown.values : n \in EditNames
        BY DEF EditsTyped, IsPart
      <4>2. /\ DOMAIN ediShown'.values = DOMAIN ediShown.values \cup {e.name} /\ ediShown'.values[e.name] = e.value
            /\ \A n \in DOMAIN ediShown.values \ {e.name} : ediShown'.values[n] = ediShown.values[n]
        BY <2>9 DEF Edi!With
      <4>3. ASSUME NEW n \in DOMAIN ediShown'.values, n \notin ediTouched PROVE ediShown'.values[n] = ediHeld'[ediActive][n]
        <5>1. CASE n = e.name
          BY <3>2, <4>2, <5>1
        <5>2. CASE n # e.name
          BY <2>18, <3>2, <3>3, <4>1, <4>2, <4>3, <5>2 DEF EditsAtHome, ShownAtHome
        <5> QED
          BY <5>1, <5>2
      <4> QED
        BY <2>1, <2>7, <2>9, <2>18, <4>3 DEF EditsAtHome, ShownAtHome
    <3>5. \A y \in ediWrites : y.id # w.id => WriteAtHome(y)'
      <4>1. ASSUME NEW y \in ediWrites, y.id # w.id PROVE WriteAtHome(y)'
        <5>1. WriteAtHome(y) /\ WriteTyped(y) /\ \A k \in 1..y.done : k \in 1..Len(y.entries)
          BY <2>18 DEF EditsAtHome, EditsTyped, WriteTyped, EditWrite
        <5>2. \A k \in 1..Len(y.entries) : y.entries[k].name = e.name => e.name \in ediTouched
          BY <2>2, <4>1 DEF WritesApart, Apart
        <5>3. \A k \in 1..y.done : y.entries[k].name \in S => y.entries[k].name \in ediTouched'
          BY <2>1, <3>2, <5>1, <5>2
        <5> QED
          BY <2>1, <3>3, <5>1, <5>3, AtHomeStays
      <4> QED
        BY <4>1
    <3>6. WriteAtHome(sent)'
      <4>1. ASSUME NEW k \in 1..sent.done, sent.entries[k].name \notin ediTouched PROVE ediHeld'[ediActive][sent.entries[k].name] = sent.entries[k].value
        <5>1. CASE k = w.done + 1
          BY <2>2, <2>6, <3>2, <5>1
        <5>2. CASE k # w.done + 1
          <6>1. k \in 1..w.done /\ k \in 1..Len(w.entries)
            BY <2>1, <2>2, <2>3, <2>6, <5>2
          <6>2. w.entries[k].name \in EditNames /\ w.entries[k].name # e.name /\ w.entries[k].name \notin ediTouched
            BY <2>2, <2>6, <4>1, <5>2, <6>1, WriteIs
          <6>3. ediHeld[ediActive][w.entries[k].name] = w.entries[k].value
            BY <2>18, <6>1, <6>2 DEF EditsAtHome, WriteAtHome
          <6> QED
            BY <2>6, <3>2, <3>3, <6>2, <6>3
        <5> QED
          BY <5>1, <5>2
      <4> QED
        BY <2>1, <2>6, <2>18, <4>1 DEF EditsAtHome, WriteAtHome
    <3> QED
      BY <2>10, <3>2, <3>4, <3>5, <3>6 DEF EditsAtHome
  <2>19. Edi!DropStep
    BY <2>1, <2>8, <2>18 DEF Edi!DropStep
  <2>20. \A y \in ediWrites' : WriteFulfils(y)'
    BY <2>10, <2>12, <2>13
  <2>21. DOMAIN ediPending' # {} => ediStagedOn' = ediShown'.of
    BY <2>1, <2>8, <2>9
  <2> QED
    BY <2>1, <2>14, <2>15, <2>16, <2>17, <2>18, <2>19, <2>20, <2>21
<1>9. ASSUME NEW w \in ediWrites, Edi!Commit(w) PROVE EditsInv' /\ Edi!DropStep
  <2> DEFINE e == Edi!Order(w)
  <2>1. /\ UNCHANGED <<ediActive, ediStagedOn, ediMounts, ediBegun, ediEdits, ediCrossed, ediTouched, ediAstray>>
        /\ ~w.asking /\ w.done + 1 = Len(w.entries) /\ ediWrites' = ediWrites \ {w} /\ ediHeld' = Edi!Obeyed(w)
        /\ ediFetches' = Edi!Aged(Edi!NamesOf(w))
    BY <1>9 DEF Edi!Commit
  <2>2. /\ WriteTyped(w) /\ w.done \in Nat /\ e = w.entries[w.done + 1] /\ w.done + 1 \in 1..Len(w.entries) /\ w.to \in EditVehicles
        /\ e.name \in EditNames /\ e.value \in Edi!Values /\ ediHeld \in EditValues /\ ediActive \in EditVehicles
        /\ \A k, j \in 1..Len(w.entries) : w.entries[k].name = w.entries[j].name => k = j
        /\ \A k \in 1..Len(w.entries) : w.entries[k].name \in EditNames /\ w.entries[k].value \in Edi!Values
    BY WriteIs DEF EditsTyped
  <2>3. /\ ediHeld' \in EditValues /\ ediHeld'[w.to][e.name] = e.value
        /\ \A n \in EditNames \ {e.name} : ediHeld'[ediActive][n] = ediHeld[ediActive][n]
    BY <2>1, <2>2 DEF Edi!Obeyed, EditValues
  <2>4. /\ \A g \in ediFetches' : FetchTyped(g)' /\ \E f \in ediFetches : f.mount = g.mount /\ f.of = g.of
        /\ \A f \in ediFetches : \E g \in ediFetches' : g.mount = f.mount
    BY <2>1, WriteIs, AgedIs
  <2>5. \A n \in Edi!NamesOf(w) : \E k \in 1..Len(w.entries) : w.entries[k].name = n /\ Edi!ValueOf(w, n) = w.entries[k].value
    <3>1. \A n \in Edi!NamesOf(w) : \E k \in 1..Len(w.entries) : w.entries[k].name = n
      BY DEF Edi!NamesOf
    <3> QED
      BY <3>1 DEF Edi!ValueOf
  <2>6. e.name \in Edi!NamesOf(w) /\ Edi!NamesOf(w) \subseteq EditNames /\ Edi!ValueOf(w, e.name) = e.value
    <3>1. e.name \in Edi!NamesOf(w) /\ Edi!NamesOf(w) \subseteq EditNames
      BY WriteIs
    <3>2. PICK k \in 1..Len(w.entries) : w.entries[k].name = e.name /\ Edi!ValueOf(w, e.name) = w.entries[k].value
      BY <2>5, <3>1
    <3>3. k = w.done + 1
      BY <2>2, <3>2
    <3> QED
      BY <2>2, <3>1, <3>2, <3>3
  <2>7. ASSUME ~ediCrossed PROVE /\ w.to = ediActive
                                 /\ \A n \in Edi!NamesOf(w) : n \notin ediTouched => ediHeld'[ediActive][n] = Edi!ValueOf(w, n)
    <3>1. w.to = ediActive /\ WriteAtHome(w)
      BY <2>1, <2>7 DEF EditsAtHome, WriteAtHome
    <3>2. ASSUME NEW n \in Edi!NamesOf(w), n \notin ediTouched PROVE ediHeld'[ediActive][n] = Edi!ValueOf(w, n)
      <4>1. CASE n = e.name
        BY <2>3, <2>6, <3>1, <4>1
      <4>2. CASE n # e.name
        <5>1. PICK k \in 1..Len(w.entries) : w.entries[k].name = n /\ Edi!ValueOf(w, n) = w.entries[k].value
          BY <2>5
        <5>2. k # w.done + 1
          BY <2>2, <4>2, <5>1
        <5>3. k \in 1..w.done
          BY <2>1, <2>2, <5>1, <5>2
        <5> QED
          BY <2>3, <2>6, <3>1, <3>2, <4>2, <5>1, <5>3 DEF WriteAtHome
      <4> QED
        BY <4>1, <4>2
    <3> QED
      BY <3>1, <3>2
  <2> HIDE DEF e
  \* What is on display, and staged, afterwards: of the mount that wrote, and of a later one.
  <2>8. /\ IsPart(ediPending') /\ DOMAIN ediPending' \subseteq DOMAIN ediPending /\ \A m \in DOMAIN ediPending' : ediPending'[m] = ediPending[m]
        /\ \A m \in DOMAIN ediPending \ DOMAIN ediPending' :
              \/ m = e.name /\ ediPending[m] = e.value
              \/ m \in Edi!NamesOf(w) /\ (m \notin ediTouched => ediPending[m] = Edi!ValueOf(w, m))
        /\ ediShown' = [values |-> ediShown'.values, of |-> ediShown'.of] /\ ediShown'.of = ediShown.of
        /\ DOMAIN ediShown'.values = DOMAIN ediShown.values \cup {e.name}
        /\ \A m \in DOMAIN ediShown'.values : \/ m \in Edi!NamesOf(w) /\ ediShown'.values[m] = Edi!ValueOf(w, m)
                                              \/ m \in DOMAIN ediShown.values /\ m # e.name /\ ediShown'.values[m] = ediShown.values[m]
        /\ ediBusy' = FALSE \/ (ediBusy' = ediBusy /\ w.mount # ediMounts)
    <3>1. CASE w.mount = ediMounts
      <4>1. /\ ediShown' = [ediShown EXCEPT !.values =
                   [n \in DOMAIN @ \cup {e.name} |-> IF n \in Edi!NamesOf(w) THEN Edi!ValueOf(w, n) ELSE @[n]]]
            /\ ediPending' = Edi!Without(ediPending, Edi!NamesOf(w)) /\ ediBusy' = FALSE
        BY <1>9, <3>1 DEF Edi!Commit, e
      <4> DEFINE values == [n \in DOMAIN ediShown.values \cup {e.name} |-> IF n \in Edi!NamesOf(w) THEN Edi!ValueOf(w, n) ELSE ediShown.values[n]]
      <4>2. ediShown' = [values |-> values, of |-> ediShown.of]
        BY <4>1 DEF EditsTyped
      <4>3. /\ DOMAIN values = DOMAIN ediShown.values \cup {e.name}
            /\ \A m \in DOMAIN values : values[m] = IF m \in Edi!NamesOf(w) THEN Edi!ValueOf(w, m) ELSE ediShown.values[m]
        OBVIOUS
      <4> HIDE DEF values
      <4>4. ediShown'.values = values /\ ediShown'.of = ediShown.of
        BY <4>2
      <4>5. /\ DOMAIN ediPending' = DOMAIN ediPending \ Edi!NamesOf(w) /\ IsPart(ediPending')
            /\ \A m \in DOMAIN ediPending' : ediPending'[m] = ediPending[m]
        <5>1. IsPart(ediPending)
          BY DEF EditsTyped
        <5>2. /\ DOMAIN Edi!Without(ediPending, Edi!NamesOf(w)) = DOMAIN ediPending \ Edi!NamesOf(w)
              /\ IsPart(Edi!Without(ediPending, Edi!NamesOf(w)))
              /\ \A m \in DOMAIN ediPending \ Edi!NamesOf(w) : Edi!Without(ediPending, Edi!NamesOf(w))[m] = ediPending[m]
          BY <5>1, WithoutIs
        <5> QED
          BY <4>1, <5>2
      <4>6. \A m \in DOMAIN ediPending \ DOMAIN ediPending' : m \in Edi!NamesOf(w) /\ (m \notin ediTouched => ediPending[m] = Edi!ValueOf(w, m))
        <5>1. ASSUME NEW m \in DOMAIN ediPending, m \in Edi!NamesOf(w), m \notin ediTouched PROVE ediPending[m] = Edi!ValueOf(w, m)
          <6>1. PICK k \in 1..Len(w.entries) : w.entries[k].name = m /\ Edi!ValueOf(w, m) = w.entries[k].value
            BY <2>5, <5>1
          <6> QED
            BY <3>1, <5>1, <6>1 DEF WriteFulfils
        <5> QED
          BY <4>5, <5>1
      <4>7. \A m \in DOMAIN values : \/ m \in Edi!NamesOf(w) /\ values[m] = Edi!ValueOf(w, m)
                                     \/ m \in DOMAIN ediShown.values /\ m # e.name /\ values[m] = ediShown.values[m]
        BY <2>6, <4>3
      <4> QED
        BY <4>1, <4>2, <4>3, <4>4, <4>5, <4>6, <4>7
    <3>2. CASE w.mount # ediMounts
      <4>1. Edi!Announced(e.name, e.value) /\ ediBusy' = ediBusy
        BY <1>9, <3>2 DEF Edi!Commit, e
      <4>2. /\ ediShown' = [values |-> Edi!With(ediShown.values, e.name, e.value), of |-> ediShown.of]
            /\ DOMAIN ediPending' \subseteq DOMAIN ediPending /\ \A m \in DOMAIN ediPending' : ediPending'[m] = ediPending[m]
            /\ \A m \in DOMAIN ediPending \ DOMAIN ediPending' : m = e.name /\ ediPending[m] = e.value
            /\ IsPart(ediPending')
        BY <2>2, <4>1, AnnouncedIs
      <4>3. ediShown'.values = Edi!With(ediShown.values, e.name, e.value) /\ ediShown'.of = ediShown.of
        BY <4>2
      <4>4. /\ DOMAIN ediShown'.values = DOMAIN ediShown.values \cup {e.name} /\ ediShown'.values[e.name] = e.value
            /\ \A n \in DOMAIN ediShown.values \ {e.name} : ediShown'.values[n] = ediShown.values[n]
        BY <4>3 DEF Edi!With
      <4> QED
        BY <2>6, <3>2, <4>1, <4>2, <4>3, <4>4
    <3> QED
      BY <3>1, <3>2
  <2>9. IsPart(ediShown'.values)
    <3>1. \A m \in Edi!NamesOf(w) : Edi!ValueOf(w, m) \in Edi!Values /\ m \in EditNames
      BY <2>2, <2>5, <2>6
    <3>2. IsPart(ediShown.values)
      BY DEF EditsTyped
    <3> QED
      BY <2>2, <2>8, <3>1, <3>2 DEF IsPart
  <2>10. \A y \in ediWrites : WriteTyped(y)' /\ WriteFulfils(y)'
    BY <2>1, <2>8, FulfilsStays DEF EditsTyped, WriteTyped
  <2>11. EditsTyped'
    BY <2>1, <2>3, <2>4, <2>8, <2>9, <2>10 DEF EditsTyped
  <2>12. WritesApart'
    BY <2>1 DEF WritesApart, Apart
  <2>13. BusyIsTrue'
    <3>1. ASSUME ediBusy' PROVE \/ \E f \in ediFetches' : f.mount = ediMounts
                                \/ \E y \in ediWrites' : y.mount = ediMounts /\ ~y.asking
      <4>1. ediBusy /\ w.mount # ediMounts
        BY <2>8, <3>1
      <4> QED
        BY <2>1, <2>4, <4>1 DEF BusyIsTrue
    <3> QED
      BY <2>1, <3>1 DEF BusyIsTrue
  <2>14. ASSUME ~ediCrossed PROVE EditsAtHome'
    <3>1. ShownAtHome'
      <4>1. \A n \in DOMAIN ediShown.values : n \in EditNames
        BY DEF EditsTyped, IsPart
      <4>2. \A n \in DOMAIN ediShown'.values : n \notin ediTouched => ediShown'.values[n] = ediHeld'[ediActive][n]
        BY <2>3, <2>7, <2>8, <2>14, <4>1 DEF EditsAtHome, ShownAtHome
      <4> QED
        BY <2>1, <2>4, <2>8, <2>14, <4>2 DEF EditsAtHome, ShownAtHome
    <3>2. ASSUME NEW y \in ediWrites' PROVE WriteAtHome(y)'
      <4>1. y \in ediWrites /\ y.id # w.id
        BY <2>1 DEF WritesApart
      <4>2. WriteAtHome(y) /\ WriteTyped(y) /\ \A k \in 1..y.done : k \in 1..Len(y.entries)
        BY <2>14, <4>1 DEF EditsAtHome, EditsTyped, WriteTyped, EditWrite
      <4>3. \A k \in 1..Len(y.entries) : y.entries[k].name \in {e.name} => y.entries[k].name \in ediTouched
        BY <2>2, <4>1 DEF WritesApart, Apart
      <4> QED
        BY <2>1, <2>3, <4>2, <4>3, AtHomeStays
    <3> QED
      BY <3>1, <3>2 DEF EditsAtHome
  <2>15. Edi!DropStep
    BY <2>1, <2>3, <2>6, <2>7, <2>8 DEF Edi!DropStep
  <2>16. DOMAIN ediPending' # {} => ediStagedOn' = ediShown'.of
    BY <2>1, <2>8
  <2> QED
    BY <2>1, <2>10, <2>11, <2>12, <2>13, <2>14, <2>15, <2>16
<1>10. ASSUME NEW w \in ediWrites, Edi!SetFails(w) PROVE EditsInv' /\ Edi!DropStep
  <2> DEFINE e == Edi!Order(w)
  <2>1. /\ UNCHANGED <<ediActive, ediShown, ediPending, ediStagedOn, ediMounts, ediBegun, ediEdits, ediCrossed, ediAstray>>
        /\ ediWrites' = ediWrites \ {w} /\ ediFetches' = Edi!Aged(Edi!NamesOf(w)) /\ ediTouched' = ediTouched \cup {e.name}
        /\ ediBusy' = (ediBusy /\ w.mount # ediMounts)
        /\ ediHeld' = ediHeld \/ ediHeld' = [ediHeld EXCEPT ![w.to][e.name] = e.value]
    BY <1>10 DEF Edi!SetFails, Edi!Outcomes
  <2>2. e.name \in EditNames /\ e.value \in Edi!Values /\ w.to \in EditVehicles /\ ediHeld \in EditValues /\ ediActive \in EditVehicles
    BY WriteIs DEF EditsTyped
  <2> HIDE DEF e
  <2>3. ediHeld' \in EditValues /\ \A n \in EditNames \ {e.name} : ediHeld'[ediActive][n] = ediHeld[ediActive][n]
    BY <2>1, <2>2 DEF EditValues
  <2>4. /\ \A g \in ediFetches' : FetchTyped(g)' /\ \E f \in ediFetches : f.mount = g.mount /\ f.of = g.of
        /\ \A f \in ediFetches : \E g \in ediFetches' : g.mount = f.mount
    BY <2>1, WriteIs, AgedIs
  <2>5. \A y \in ediWrites : WriteTyped(y)' /\ WriteFulfils(y)'
    BY <2>1, FulfilsStays DEF EditsTyped, WriteTyped
  <2>6. EditsTyped'
    BY <2>1, <2>3, <2>4, <2>5 DEF EditsTyped
  <2>7. WritesApart'
    BY <2>1 DEF WritesApart, Apart
  <2>8. BusyIsTrue'
    <3>1. ASSUME ediBusy' PROVE \/ \E f \in ediFetches' : f.mount = ediMounts
                                \/ \E y \in ediWrites' : y.mount = ediMounts /\ ~y.asking
      BY <2>1, <2>4, <3>1 DEF BusyIsTrue
    <3> QED
      BY <2>1, <3>1 DEF BusyIsTrue
  <2>9. ASSUME ~ediCrossed PROVE EditsAtHome'
    <3>1. ShownAtHome'
      <4>1. \A n \in DOMAIN ediShown.values : n \in EditNames
        BY DEF EditsTyped, IsPart
      <4> QED
        BY <2>1, <2>3, <2>4, <2>9, <4>1 DEF EditsAtHome, ShownAtHome
    <3>2. \A y \in ediWrites : WriteAtHome(y) /\ WriteTyped(y)
      BY <2>9 DEF EditsAtHome, EditsTyped
    <3>3. \A y \in ediWrites : WriteAtHome(y)'
      BY <2>1, <2>3, <3>2, AtHomeStays
    <3> QED
      BY <2>1, <3>1, <3>3 DEF EditsAtHome
  <2> QED
    BY <2>1, <2>5, <2>6, <2>7, <2>8, <2>9 DEF Edi!DropStep
<1>11. ASSUME ediPending' = <<>>, ediShown' = [values |-> <<>>, of |-> ediActive'], ediActive' \in EditVehicles,
              ediMounts' \in Nat, ediMounts <= ediMounts', ediBusy' \in BOOLEAN, BusyIsTrue',
              UNCHANGED <<ediHeld, ediStagedOn, ediFetches, ediWrites, ediBegun, ediEdits, ediAstray>>,
              ediTouched' = ediTouched \/ ediWrites = {},
              ~ediCrossed' => /\ \A f \in ediFetches : f.mount = ediMounts' => f.of = ediActive'
                              /\ ediWrites = {} \/ (~ediCrossed /\ ediActive' = ediActive)
       PROVE  EditsInv'
  <2>1. ediShown'.values = <<>> /\ ediShown'.of = ediActive' /\ ediShown' = [values |-> ediShown'.values, of |-> ediShown'.of]
    BY <1>11
  <2>2. \A f \in ediFetches : FetchTyped(f)'
    BY <1>11 DEF EditsTyped, FetchTyped, EditFetch
  <2>3. \A w \in ediWrites : WriteTyped(w)' /\ WriteFulfils(w)'
    BY <1>11, NothingStaged DEF EditsTyped, WriteTyped, EditWrite, WriteFulfils
  <2>4. EditsTyped'
    BY <1>11, <2>1, <2>2, <2>3, NothingStaged DEF EditsTyped
  <2>5. WritesApart'
    BY <1>11 DEF WritesApart, Apart
  <2>6. ASSUME ~ediCrossed' PROVE EditsAtHome'
    <3>1. ShownAtHome'
      BY <1>11, <2>1, <2>6, NothingStaged DEF ShownAtHome
    <3>2. \A w \in ediWrites' : WriteAtHome(w)'
      BY <1>11, <2>6 DEF EditsAtHome, WriteAtHome
    <3> QED
      BY <3>1, <3>2 DEF EditsAtHome
  <2> QED
    BY <1>11, <2>3, <2>4, <2>5, <2>6, NothingStaged
<1>12. ASSUME NEW v \in EditVehicles, Edi!Switch(v) PROVE EditsInv' /\ Edi!DropStep
  <2>1. /\ ediActive' = v /\ v # ediActive /\ ediPending' = <<>> /\ ediShown' = [values |-> <<>>, of |-> ediActive']
        /\ UNCHANGED <<ediHeld, ediStagedOn, ediBusy, ediFetches, ediWrites, ediMounts, ediBegun, ediEdits, ediAstray>>
        /\ ediCrossed' = ~Edi!Idle /\ ediTouched' = IF Edi!Idle THEN {} ELSE ediTouched
    BY <1>12 DEF Edi!Switch, Edi!Emptied
  <2>2. BusyIsTrue' /\ ediMounts \in Nat /\ ediBusy \in BOOLEAN
    BY <2>1 DEF BusyIsTrue, EditsTyped
  <2>3. ~ediCrossed' => ediWrites = {} /\ \A f \in ediFetches : f.mount # ediMounts
    BY <2>1 DEF Edi!Idle, Edi!Own
  <2>4. ediTouched' = ediTouched \/ ediWrites = {}
    BY <2>1 DEF Edi!Idle
  <2>5. ediMounts' \in Nat /\ ediMounts <= ediMounts' /\ ediBusy' \in BOOLEAN
    BY <2>1, <2>2
  <2>6. EditsInv'
    BY <1>11, <2>1, <2>2, <2>3, <2>4, <2>5
  <2> QED
    BY <2>1, <2>6 DEF Edi!DropStep
<1>13. ASSUME Edi!Remount PROVE EditsInv' /\ Edi!DropStep
  <2>1. /\ ediMounts' = ediMounts + 1 /\ ediActive' = ediActive /\ ediBusy' = FALSE /\ ediPending' = <<>>
        /\ ediShown' = [values |-> <<>>, of |-> ediActive'] /\ ediCrossed' = (ediCrossed /\ ediWrites # {})
        /\ ediTouched' = (IF ediWrites = {} THEN {} ELSE ediTouched)
        /\ UNCHANGED <<ediHeld, ediStagedOn, ediFetches, ediWrites, ediBegun, ediEdits, ediAstray>>
    BY <1>13 DEF Edi!Remount, Edi!Emptied
  <2>2. /\ BusyIsTrue' /\ ediMounts \in Nat /\ ediActive \in EditVehicles
        /\ \A f \in ediFetches : f.mount \in Nat /\ f.mount <= ediMounts
    BY <2>1 DEF BusyIsTrue, EditsTyped, FetchTyped, EditFetch
  <2>3. /\ ediMounts' \in Nat /\ ediMounts <= ediMounts' /\ ediBusy' \in BOOLEAN /\ ediActive' \in EditVehicles
        /\ ediMounts' # ediMounts /\ \A f \in ediFetches : f.mount # ediMounts'
    <3>1. ediMounts \in Nat /\ ediMounts' = ediMounts + 1
      BY <2>1, <2>2
    <3>2. \A f \in ediFetches : f.mount # ediMounts'
      BY <2>2, <3>1
    <3>3. ediBusy' \in BOOLEAN /\ ediActive' \in EditVehicles
      BY <2>1, <2>2
    <3> QED
      BY <3>1, <3>2, <3>3
  <2>4. ediTouched' = ediTouched \/ ediWrites = {}
    BY <2>1
  <2>5. EditsInv'
    BY <1>11, <2>1, <2>2, <2>3, <2>4
  <2> QED
    BY <2>3, <2>5 DEF Edi!DropStep
<1>14. ASSUME NEW n \in EditNames, NEW v \in Edi!Values, Edi!Changes(n, v) PROVE EditsInv' /\ Edi!DropStep
  <2>1. /\ ediHeld' = [ediHeld EXCEPT ![ediActive][n] = v] /\ ediFetches' = Edi!Aged({n})
        /\ UNCHANGED <<ediActive, ediStagedOn, ediBusy, ediWrites, ediMounts, ediBegun, ediEdits, ediCrossed, ediAstray>>
        /\ \/ Edi!Announced(n, v) /\ ediTouched' = ediTouched \cup ({n} \cap Edi!Carried)
           \/ ediTouched' = ediTouched \cup {n} /\ UNCHANGED <<ediShown, ediPending>>
    BY <1>14 DEF Edi!Changes
  <2>2. /\ ediHeld' \in EditValues /\ ediHeld'[ediActive][n] = v
        /\ \A m \in EditNames \ {n} : ediHeld'[ediActive][m] = ediHeld[ediActive][m]
    BY <2>1 DEF EditsTyped, EditValues
  <2>3. /\ \A g \in ediFetches' : FetchTyped(g)' /\ \E f \in ediFetches : f.mount = g.mount /\ f.of = g.of
        /\ \A f \in ediFetches : \E g \in ediFetches' : g.mount = f.mount
    BY <2>1, AgedIs
  <2>4. ediTouched \subseteq ediTouched' /\ \A w \in ediWrites : \A k \in 1..Len(w.entries) : w.entries[k].name = n => n \in ediTouched'
    BY <2>1 DEF Edi!Carried, Edi!NamesOf
  <2>5. /\ IsPart(ediPending') /\ DOMAIN ediPending' \subseteq DOMAIN ediPending /\ \A m \in DOMAIN ediPending' : ediPending'[m] = ediPending[m]
        /\ \A m \in DOMAIN ediPending \ DOMAIN ediPending' : m = n /\ ediPending[m] = v
        /\ ediShown' = [values |-> ediShown'.values, of |-> ediShown'.of] /\ ediShown'.of = ediShown.of /\ IsPart(ediShown'.values)
        /\ \A m \in DOMAIN ediShown'.values : \/ m = n /\ (n \in ediTouched' \/ ediShown'.values[m] = v)
                                              \/ m \in DOMAIN ediShown.values /\ m # n /\ ediShown'.values[m] = ediShown.values[m]
    <3>1. CASE Edi!Announced(n, v)
      <4>1. /\ ediShown' = [values |-> Edi!With(ediShown.values, n, v), of |-> ediShown.of] /\ IsPart(ediShown'.values)
            /\ DOMAIN ediPending' \subseteq DOMAIN ediPending /\ \A m \in DOMAIN ediPending' : ediPending'[m] = ediPending[m]
            /\ \A m \in DOMAIN ediPending \ DOMAIN ediPending' : m = n /\ ediPending[m] = v
            /\ IsPart(ediPending')
        BY <3>1, AnnouncedIs
      <4>2. ediShown'.values = Edi!With(ediShown.values, n, v) /\ ediShown'.of = ediShown.of
        BY <4>1
      <4>3. /\ DOMAIN ediShown'.values = DOMAIN ediShown.values \cup {n} /\ ediShown'.values[n] = v
            /\ \A m \in DOMAIN ediShown.values \ {n} : ediShown'.values[m] = ediShown.values[m]
        BY <4>2 DEF Edi!With
      <4> QED
        BY <4>1, <4>2, <4>3
    <3>2. CASE ediTouched' = ediTouched \cup {n} /\ UNCHANGED <<ediShown, ediPending>>
      BY <3>2 DEF EditsTyped
    <3> QED
      BY <2>1, <3>1, <3>2
  <2>6. \A y \in ediWrites : WriteTyped(y)' /\ WriteFulfils(y)'
    BY <2>1, <2>4, <2>5, FulfilsStays DEF EditsTyped, WriteTyped
  <2>7. EditsTyped'
    BY <2>1, <2>2, <2>3, <2>5, <2>6 DEF EditsTyped
  <2>8. WritesApart'
    BY <2>1, <2>4 DEF WritesApart, Apart
  <2>9. BusyIsTrue'
    BY <2>1, <2>3 DEF BusyIsTrue
  <2>10. ASSUME ~ediCrossed PROVE EditsAtHome'
    <3>1. ShownAtHome'
      <4>1. \A m \in DOMAIN ediShown.values : m \in EditNames
        BY DEF EditsTyped, IsPart
      <4>2. \A m \in DOMAIN ediShown'.values : m \notin ediTouched' => ediShown'.values[m] = ediHeld'[ediActive][m]
        BY <2>2, <2>4, <2>5, <2>10, <4>1 DEF EditsAtHome, ShownAtHome
      <4>3. ediShown'.of = ediActive' /\ ediMounts' = ediMounts /\ ediActive' = ediActive
        BY <2>1, <2>5, <2>10 DEF EditsAtHome, ShownAtHome
      <4>4. \A g \in ediFetches' : g.mount = ediMounts => g.of = ediActive
        BY <2>3, <2>10 DEF EditsAtHome, ShownAtHome
      <4> QED
        BY <4>2, <4>3, <4>4 DEF ShownAtHome
    <3>2. ASSUME NEW y \in ediWrites PROVE WriteAtHome(y)'
      <4>1. WriteAtHome(y) /\ WriteTyped(y) /\ \A k \in 1..y.done : k \in 1..Len(y.entries)
        BY <2>10 DEF EditsAtHome, EditsTyped, WriteTyped, EditWrite
      <4>2. \A k \in 1..y.done : y.entries[k].name \in {n} => y.entries[k].name \in ediTouched'
        BY <2>4, <4>1
      <4> QED
        BY <2>1, <2>2, <2>4, <4>1, <4>2, AtHomeStays
    <3> QED
      BY <2>1, <3>1, <3>2 DEF EditsAtHome
  <2>11. Edi!DropStep
    BY <2>1, <2>2, <2>5 DEF Edi!DropStep
  <2>12. DOMAIN ediPending' # {} => ediStagedOn' = ediShown'.of
    BY <2>1, <2>5
  <2> QED
    BY <2>1, <2>6, <2>7, <2>8, <2>9, <2>10, <2>11, <2>12
<1>15. IsPart(Edi!Changed) /\ \A n \in DOMAIN Edi!Changed \cap DOMAIN ediPending : Edi!Changed[n] = ediPending[n]
  BY DEF Edi!Changed, Edi!Restrict, IsPart, EditsTyped
<1>16. IsPart(Edi!Effective) /\ \A n \in DOMAIN Edi!Effective \cap DOMAIN ediPending : Edi!Effective[n] = ediPending[n]
  BY DEF Edi!Effective, IsPart, EditsTyped
<1>17. Edi!Asks(Edi!Changed) \/ Edi!Asks(Edi!Effective) => EditsInv' /\ Edi!DropStep
  BY <1>6, <1>15, <1>16
<1>18. \A f \in ediFetches : Edi!Fetched(f) \/ Edi!FetchFails(f) => EditsInv' /\ Edi!DropStep
  <2>1. ASSUME NEW f \in ediFetches, Edi!FetchFails(f) PROVE EditsInv' /\ Edi!DropStep
    <3>1. UNCHANGED <<ediShown, ediPending, ediCrossed, ediTouched>> /\ ediBusy' = (ediBusy /\ f.mount # ediMounts)
      BY <2>1 DEF Edi!FetchFails
    <3> QED
      BY <1>2, <2>1, <3>1
  <2>2. ASSUME NEW f \in ediFetches, Edi!Fetched(f), f.mount # ediMounts PROVE EditsInv' /\ Edi!DropStep
    <3>1. UNCHANGED <<ediShown, ediPending, ediCrossed, ediTouched>> /\ ediBusy' = (ediBusy /\ f.mount # ediMounts)
      BY <2>2 DEF Edi!Fetched, EditsTyped
    <3> QED
      BY <1>2, <2>2, <3>1
  <2> QED
    BY <1>3, <2>1, <2>2
<1> QED
  BY <1>1, <1>4, <1>5, <1>7, <1>8, <1>9, <1>10, <1>12, <1>13, <1>14, <1>17, <1>18 DEF Edi!Next

LEMMA EditsPromise == ASSUME EditsInv PROVE Edi!EditsGoHome
BY DEF EditsInv, Edi!EditsGoHome, Edi!Idle, Edi!Own, BusyIsTrue, EditsAtHome, ShownAtHome

\* A stop that has the link for itself stops every motor, however many there are
\* (motors-step.tsx); the setup panes show a run exactly while it goes on, and the end only
\* of the latest (the steps under setup/); the edits of parameters are sent to their own
\* vehicle and stay until it has them, and what is shown at rest is what it holds, whatever
\* overlaps and however often the panel is left (workbench.tsx), but for the names and the
\* times that EditsGoHome leaves out.
THEOREM SetupStaysSafe == Mot!Spec /\ Set!Spec /\ Edi!Spec => SetupIsSafe
<1>1. Mot!Init => MotorsInv
  BY MotorsBegin
<1>2. MotorsInv /\ [Mot!Next]_(Mot!vars) => MotorsInv'
  <2> SUFFICES ASSUME MotorsInv, [Mot!Next]_(Mot!vars) PROVE MotorsInv'
    OBVIOUS
  <2>1. CASE UNCHANGED Mot!vars
    BY <2>1 DEF Mot!vars, MotorsInv, StopAt, AllStopped, Mot!Command
  <2> QED
    BY <2>1, MotorsKeep
<1>3. Set!Init => FlowsInv
  BY FlowsBegin
<1>4. FlowsInv /\ [Set!Next]_(Set!vars) => FlowsInv' /\ [Set!ResultStep]_(Set!vars)
  <2> SUFFICES ASSUME FlowsInv, [Set!Next]_(Set!vars) PROVE FlowsInv' /\ [Set!ResultStep]_(Set!vars)
    OBVIOUS
  <2>1. CASE UNCHANGED Set!vars
    BY <2>1 DEF Set!vars, FlowsInv, FlowsTyped, Set!FlowsAreTrue
  <2> QED
    BY <2>1, FlowsKeep
<1>5. Edi!Init => EditsInv
  BY EditsBegin
<1>6. EditsInv /\ [Edi!Next]_(Edi!vars) => EditsInv' /\ [Edi!DropStep]_(Edi!vars)
  <2> SUFFICES ASSUME EditsInv, [Edi!Next]_(Edi!vars) PROVE EditsInv' /\ [Edi!DropStep]_(Edi!vars)
    OBVIOUS
  <2>1. CASE UNCHANGED Edi!vars
    BY <2>1 DEF Edi!vars, EditsInv, EditsTyped, FetchTyped, WriteTyped, WritesApart, Apart, BusyIsTrue,
              WriteFulfils, EditsAtHome, ShownAtHome, WriteAtHome
  <2> QED
    BY <2>1, EditsKeep
<1>7. MotorsInv /\ FlowsInv /\ EditsInv => Mot!StoppedMeansStopped /\ Set!FlowsAreTrue /\ Edi!EditsGoHome
  BY MotorsPromise, EditsPromise DEF FlowsInv
<1> QED
  BY <1>1, <1>2, <1>3, <1>4, <1>5, <1>6, <1>7, PTL
     DEF Mot!Spec, Set!Spec, Edi!Spec, SetupIsSafe, Set!ResultsAreCurrent, Edi!EditsAreKept

-----------------------------------------------------------------------------
\* The plan. The request of the latest path is about the mission on display, unless the
\* path became too short, no two requests have one token, and a screen that is not there
\* awaits and shows nothing.
PathInv ==
    /\ plaToken \in Nat
    /\ \A s \in plaSamplings : s.token \in Nat /\ s.token <= plaToken /\ s.path \in PlanRoutes
    /\ \A s, r \in plaSamplings : s.token = r.token => s = r
    /\ ~plaStale => \A s \in plaSamplings : s.token = plaToken => s.path = plaMission
    /\ ~plaStale /\ plaProfile # NoRoute => plaProfile = plaMission \/ \E s \in plaSamplings : s.token = plaToken
    /\ ~plaStale /\ plaMission \notin PlanRoutes => plaProfile = NoRoute
    /\ ~plaShown => plaSamplings = {} /\ plaProfile = NoRoute

\* Every transfer is that of one mount so far, which has no other, and the flag is that of
\* this mount.
TransfersInv ==
    /\ plaMounts \in Nat
    /\ \A x \in plaTransfers : "mount" \in DOMAIN x /\ x.mount \in 0..plaMounts
    /\ \A x, y \in plaTransfers : x.mount = y.mount => x = y
    /\ plaBusy <=> Pla!Own # {}
PlanInv == PathInv /\ TransfersInv

LEMMA PlanBegin == ASSUME Pla!Init PROVE PlanInv
BY DEF Pla!Init, Pla!Own, PlanInv, PathInv, TransfersInv

\* Another mission.
LEMMA PlanSets ==
    ASSUME PathInv, NEW m, Pla!SetMission(m), plaShown' = plaShown
    PROVE  PathInv'
<1>1. CASE plaShown /\ m \in PlanRoutes
  <2> DEFINE new == [token |-> plaToken + 1, path |-> m]
  <2>1. /\ plaToken' = plaToken + 1 /\ plaSamplings' = plaSamplings \cup {new} /\ plaMission' = m
        /\ new.token = plaToken + 1 /\ new.path = m /\ plaToken \in Nat /\ plaShown'
    BY <1>1 DEF Pla!SetMission, PathInv
  <2> HIDE DEF new
  <2>2. \A s \in plaSamplings : s.token # plaToken + 1
    BY <2>1 DEF PathInv
  <2>3. \A s \in plaSamplings' : s \in plaSamplings \/ s = new
    BY <2>1
  <2>4. /\ plaToken' \in Nat /\ \A s \in plaSamplings' : s.token \in Nat /\ s.token <= plaToken' /\ s.path \in PlanRoutes
    BY <1>1, <2>1, <2>3 DEF PathInv
  <2>5. \A s \in plaSamplings' : s.token = plaToken' => s = new
    BY <2>1, <2>2, <2>3
  <2>6. \A s, r \in plaSamplings' : s.token = r.token => s = r
    BY <2>1, <2>2, <2>3 DEF PathInv
  <2>7. new \in plaSamplings' /\ new.token = plaToken'
    BY <2>1
  <2> QED
    BY <1>1, <2>1, <2>4, <2>5, <2>6, <2>7 DEF PathInv
<1>2. CASE plaShown /\ m \notin PlanRoutes
  <2>1. /\ plaMission' = m /\ plaProfile' = NoRoute /\ UNCHANGED <<plaToken, plaSamplings>>
        /\ plaStale' = \E s \in plaSamplings : s.token = plaToken
    BY <1>2 DEF Pla!SetMission
  <2> QED
    BY <1>2, <2>1 DEF PathInv
<1>3. CASE ~plaShown
  <2>1. UNCHANGED <<plaToken, plaSamplings, plaProfile, plaStale>>
    BY <1>3 DEF Pla!SetMission
  <2> QED
    BY <1>3, <2>1 DEF PathInv
<1> QED
  BY <1>1, <1>2, <1>3

\* The answer of the terrain: to the latest request or for nobody.
LEMMA PlanSamples ==
    ASSUME PathInv, NEW s \in plaSamplings, NEW ok \in BOOLEAN, Pla!Samples(s, ok)
    PROVE  PathInv'
<1>1. /\ plaSamplings' = plaSamplings \ {s} /\ UNCHANGED <<plaMission, plaShown, plaToken, plaStale>>
      /\ plaProfile' = IF s.token # plaToken THEN plaProfile ELSE IF ok THEN s.path ELSE NoRoute
  BY DEF Pla!Samples, Pla!Sampled
<1>2. plaShown
  BY DEF PathInv
<1>3. CASE s.token # plaToken
  BY <1>1, <1>2, <1>3 DEF PathInv
<1>4. CASE s.token = plaToken
  <2>1. \A r \in plaSamplings' : r.token # plaToken
    BY <1>1, <1>4 DEF PathInv
  <2>2. ~plaStale => s.path = plaMission /\ plaMission \in PlanRoutes
    BY <1>4 DEF PathInv
  <2>3. plaProfile' \in {s.path, NoRoute}
    BY <1>1, <1>4
  <2> QED
    BY <1>1, <1>2, <2>1, <2>2, <2>3 DEF PathInv
<1> QED
  BY <1>3, <1>4

\* A transfer that ends, and one that goes on.
LEMMA PlanEnds ==
    ASSUME TransfersInv, NEW x \in plaTransfers, Pla!Ends(x), UNCHANGED <<plaShown, plaMounts>>
    PROVE  TransfersInv'
<1>1. plaTransfers' = plaTransfers \ {x} /\ plaBusy' = (plaBusy /\ x \notin Pla!Own)
  BY DEF Pla!Ends
<1>2. Pla!Own' = Pla!Own \ {x}
  BY <1>1 DEF Pla!Own
<1>3. \A y, z \in Pla!Own : y = z
  BY DEF TransfersInv, Pla!Own
<1>4. plaBusy' <=> Pla!Own' # {}
  BY <1>1, <1>2, <1>3 DEF TransfersInv
<1> QED
  BY <1>1, <1>4 DEF TransfersInv
LEMMA PlanGoesOn ==
    ASSUME TransfersInv, NEW x \in plaTransfers, NEW phase,
           plaTransfers' = (plaTransfers \ {x}) \cup {[x EXCEPT !.phase = phase]},
           UNCHANGED <<plaBusy, plaShown, plaMounts>>
    PROVE  TransfersInv'
<1> DEFINE y == [x EXCEPT !.phase = phase]
<1>1. "mount" \in DOMAIN x /\ x.mount \in 0..plaMounts
  BY DEF TransfersInv
<1>2. "mount" \in DOMAIN y /\ y.mount = x.mount
  BY <1>1
<1>3. plaTransfers' = (plaTransfers \ {x}) \cup {y}
  OBVIOUS
<1> HIDE DEF y
<1>4. \A z \in plaTransfers' : z = y \/ (z \in plaTransfers /\ z.mount # x.mount)
  BY <1>3 DEF TransfersInv
<1>5. Pla!Own' # {} <=> Pla!Own # {}
  <2>1. x \in Pla!Own <=> y \in Pla!Own'
    BY <1>2, <1>3 DEF Pla!Own
  <2>2. \A z \in plaTransfers : z # x => (z \in Pla!Own <=> z \in Pla!Own')
    BY <1>3 DEF Pla!Own
  <2> QED
    BY <1>4, <2>1, <2>2 DEF Pla!Own
<1> QED
  BY <1>1, <1>2, <1>4, <1>5 DEF TransfersInv

LEMMA PlanKeep == ASSUME PlanInv, Pla!Next PROVE PlanInv'
<1> USE DEF PlanInv
<1>1. ASSUME UNCHANGED <<plaBusy, plaTransfers, plaShown, plaMounts>> PROVE TransfersInv'
  BY <1>1 DEF TransfersInv, Pla!Own
<1>2. ASSUME Pla!NoProfile, UNCHANGED <<plaMission, plaShown>> PROVE PathInv'
  BY <1>2 DEF Pla!NoProfile, PathInv
<1>3. CASE Pla!Connects \/ Pla!Load \/ (\E l \in plaLoads : Pla!LoadFails(l) \/ \E yes \in BOOLEAN : Pla!LoadAnswer(l, yes))
  BY <1>1, <1>2, <1>3 DEF Pla!Connects, Pla!Load, Pla!LoadFails, Pla!LoadAnswer, Pla!NoProfile
<1>4. CASE (\E m \in Pla!Missions : Pla!Edit(m)) \/ (\E l \in plaLoads, m \in Pla!Missions : Pla!Loaded(l, m))
  BY <1>1, <1>4, PlanSets DEF Pla!Edit, Pla!Loaded
<1>5. ASSUME NEW kind \in Pla!Transfers, Pla!Starts(kind) PROVE PlanInv'
  <2>1. /\ plaShown /\ ~plaBusy /\ plaBusy' = TRUE /\ UNCHANGED <<plaMission, plaShown, plaMounts>>
        /\ Pla!NoProfile
    BY <1>5 DEF Pla!Starts
  <2>a. PICK phase : plaTransfers' = plaTransfers \cup
               {[kind |-> kind, wire |-> plaMission, phase |-> phase, mount |-> plaMounts]}
    BY <1>5 DEF Pla!Starts
  <2> DEFINE x == [kind |-> kind, wire |-> plaMission, phase |-> phase, mount |-> plaMounts]
  <2>2. plaTransfers' = plaTransfers \cup {x} /\ "mount" \in DOMAIN x /\ x.mount = plaMounts
    BY <2>a
  <2> HIDE DEF x
  <2>3. \A y \in plaTransfers : y.mount # plaMounts
    BY <2>1 DEF TransfersInv, Pla!Own
  <2>4. x \in Pla!Own'
    BY <2>1, <2>2 DEF Pla!Own
  <2>5. TransfersInv'
    BY <2>1, <2>2, <2>3, <2>4 DEF TransfersInv
  <2> QED
    BY <1>2, <2>1, <2>5
<1>6. ASSUME NEW x \in plaTransfers,
             Pla!Uploaded(x) \/ Pla!FenceDone(x) \/ Pla!Fails(x)
             \/ \E yes \in BOOLEAN : Pla!Answers(x, yes) /\ Pla!Ends(x)
      PROVE  PlanInv'
  <2>1. Pla!Ends(x) /\ Pla!NoProfile /\ UNCHANGED <<plaMission, plaShown, plaMounts>>
    BY <1>6 DEF Pla!Uploaded, Pla!FenceDone, Pla!Fails, Pla!Answers
  <2> QED
    BY <1>2, <2>1, PlanEnds
<1>7. ASSUME NEW x \in plaTransfers, Pla!Downloaded(x) PROVE PlanInv'
  <2>1. Pla!Ends(x) /\ Pla!SetMission(plaOnVehicle) /\ UNCHANGED <<plaShown, plaMounts>>
    BY <1>7 DEF Pla!Downloaded
  <2> QED
    BY <2>1, PlanEnds, PlanSets
<1>8. ASSUME NEW x \in plaTransfers,
             Pla!FenceSent(x) \/ \E yes \in BOOLEAN : Pla!Answers(x, yes) /\ ~Pla!Ends(x)
      PROVE  PlanInv'
  <2>1. /\ \E phase : plaTransfers' = (plaTransfers \ {x}) \cup {[x EXCEPT !.phase = phase]}
        /\ UNCHANGED <<plaBusy, plaMission, plaShown, plaMounts>> /\ Pla!NoProfile
    BY <1>8 DEF Pla!FenceSent, Pla!Answers
  <2> QED
    BY <1>2, <2>1, PlanGoesOn
<1>9. ASSUME NEW s \in plaSamplings, NEW ok \in BOOLEAN, Pla!Samples(s, ok) PROVE PlanInv'
  BY <1>1, <1>9, PlanSamples DEF Pla!Samples
<1>10. CASE Pla!Leave
  <2>1. PathInv'
    BY <1>10 DEF Pla!Leave, PathInv
  <2>2. TransfersInv'
    BY <1>10 DEF Pla!Leave, TransfersInv, Pla!Own
  <2> QED
    BY <2>1, <2>2
<1>11. CASE Pla!Mount
  <2>1. PathInv'
    <3>1. plaSamplings = {} /\ plaProfile = NoRoute /\ plaProfile' = NoRoute /\ plaMission' = plaMission
      BY <1>11 DEF Pla!Mount, PathInv
    <3>2. CASE plaMission \in PlanRoutes
      <4> DEFINE new == [token |-> 1, path |-> plaMission]
      <4>1. plaToken' = 1 /\ plaSamplings' = {new} /\ new.token = 1 /\ new.path = plaMission /\ plaShown'
        BY <1>11, <3>2 DEF Pla!Mount
      <4> HIDE DEF new
      <4> QED
        BY <3>1, <3>2, <4>1 DEF PathInv
    <3>3. CASE plaMission \notin PlanRoutes
      BY <1>11, <3>1, <3>3 DEF Pla!Mount, PathInv
    <3> QED
      BY <3>2, <3>3
  <2>2. TransfersInv'
    <3>1. ~plaBusy' /\ plaTransfers' = plaTransfers /\ plaMounts' = plaMounts + 1 /\ plaMounts \in Nat
      BY <1>11 DEF Pla!Mount, TransfersInv, Pla!Own
    <3>2. \A x \in plaTransfers : x.mount \in 0..plaMounts' /\ x.mount # plaMounts'
      BY <3>1 DEF TransfersInv
    <3> QED
      BY <3>1, <3>2 DEF TransfersInv, Pla!Own
  <2> QED
    BY <2>1, <2>2
<1> QED
  BY <1>3, <1>4, <1>5, <1>6, <1>7, <1>8, <1>9, <1>10, <1>11 DEF Pla!Next

LEMMA PlanPromise == ASSUME PlanInv PROVE Pla!ProfileIsCurrent /\ Pla!OneTransfer
BY DEF PlanInv, PathInv, TransfersInv, Pla!ProfileIsCurrent, Pla!OneTransfer

-----------------------------------------------------------------------------
\* The logs. Unless loads overlapped or the screen was left during one, every load belongs
\* to this showing and there is one; a log that is made ready for replay finds none that plays.
LogLoads == [n : Nat \ {0}, kind : Lgs!Kinds, of : Nat, recent : BOOLEAN, step : {"stop", "read"}]
LogsInv ==
    /\ lgsMount \in Nat /\ lgsMounts \in Nat /\ lgsRecents \in Nat /\ lgsBegun \in Nat
    /\ lgsLoads \subseteq LogLoads /\ lgsPicking \in Lgs!Kinds \cup {"no"} /\ lgsPending.kind \in Lgs!Kinds
    /\ 0 \notin lgsRunning
    /\ lgsMount = 0 => lgsSession = 0 /\ lgsPicking = "no"
    /\ \A l \in lgsLoads : l.of # 0
    /\ ~lgsOverlap => \A l, k \in lgsLoads : l.of = k.of => l = k
    /\ ~lgsLeft => \A l \in lgsLoads : l.of = lgsMount
    /\ ~lgsOverlap /\ ~lgsLeft => \A l \in lgsLoads : l.kind = "tlog" => lgsSession = 0
    /\ Lgs!NoGhostReplay

LEMMA LogsBegin == ASSUME Lgs!Init PROVE LogsInv
BY DEF Lgs!Init, LogsInv, Lgs!NoGhostReplay, Lgs!Kinds

\* A load begins in this showing, of those that are left with a replay that it would stop.
LEMMA LogBegins ==
    ASSUME NEW others \in SUBSET LogLoads, NEW current, NEW kind \in Lgs!Kinds, NEW recent \in BOOLEAN,
           NEW of \in Nat \ {0}, lgsBegun \in Nat, Lgs!Begins(others, current, kind, recent, of), \A l \in others : l.of # 0,
           ~lgsOverlap => \A l, k \in others : l.of = k.of => l = k,
           ~lgsLeft => \A l \in others : l.of = of,
           lgsOverlap \/ lgsLeft \/ lgsRunning' \ lgsStopping \subseteq {current}
    PROVE  /\ lgsBegun' \in Nat /\ lgsLoads' \subseteq LogLoads
           /\ \A l \in lgsLoads' : l.of # 0
           /\ ~lgsOverlap' => \A l, k \in lgsLoads' : l.of = k.of => l = k
           /\ ~lgsLeft => \A l \in lgsLoads' : l.of = of
           /\ ~lgsOverlap' /\ ~lgsLeft => \A l \in lgsLoads' : l.kind = "tlog" => lgsSession' = 0
           /\ lgsOverlap' \/ lgsLeft \/ lgsRunning' \ lgsStopping' \subseteq {lgsSession'}
<1> DEFINE new == [n |-> lgsBegun + 1, kind |-> kind, of |-> of, recent |-> recent,
                   step |-> IF kind = "tlog" /\ current # 0 THEN "stop" ELSE "read"]
<1>1. lgsLoads' = others \cup {new} /\ new.of = of /\ new.kind = kind /\ new \in LogLoads /\ lgsBegun' = lgsBegun + 1
  <2>1. lgsLoads' = others \cup {new} /\ lgsBegun' = lgsBegun + 1
    BY DEF Lgs!Begins
  <2>2. lgsBegun + 1 \in Nat \ {0}
    OBVIOUS
  <2> QED
    BY <2>1, <2>2 DEF LogLoads
<1> HIDE DEF new
<1>2. lgsOverlap' = (lgsOverlap \/ \E l \in others : l.of = of)
  BY Zenon DEF Lgs!Begins
<1>3. IF kind = "tlog" /\ current # 0 THEN lgsStopping' = lgsStopping \cup {current} /\ lgsSession' = 0
      ELSE lgsStopping' = lgsStopping /\ lgsSession' = current
  BY DEF Lgs!Begins
<1>4. ~lgsOverlap' => ~lgsOverlap /\ \A l \in others : l.of # of
  BY <1>2
<1> QED
  BY <1>1, <1>3, <1>4

LEMMA LogsKeep == ASSUME LogsInv, Lgs!Next PROVE LogsInv' /\ Lgs!OpenedStep
<1>1. ASSUME Lgs!Mount PROVE LogsInv' /\ Lgs!OpenedStep
  <2>1. /\ lgsMount = 0 /\ lgsMounts' = lgsMounts + 1 /\ lgsMount' = lgsMounts + 1 /\ lgsSession = 0 /\ lgsPicking = "no"
        /\ UNCHANGED <<lgsPicking, lgsRunning, lgsPending, lgsRecents, lgsLeft>> /\ lgsMount' \in Nat \ {0} /\ lgsMounts' \in Nat
    BY <1>1 DEF Lgs!Mount, LogsInv
  <2>2. ~lgsLeft => lgsLoads = {}
    BY <2>1 DEF LogsInv
  <2>3. CASE Lgs!Waits(lgsPending, 0)
    <3> DEFINE of == lgsMounts + 1
    <3>1. Lgs!Begins(lgsLoads, 0, lgsPending.kind, TRUE, of) /\ of \in Nat \ {0} /\ lgsMount' = of
      BY <1>1, <2>1, <2>3 DEF Lgs!Mount, Lgs!Opens, LogsInv
    <3> HIDE DEF of
    <3>2. lgsOverlap \/ lgsLeft \/ lgsRunning' \ lgsStopping \subseteq {0}
      BY <2>1 DEF LogsInv, Lgs!NoGhostReplay
    <3>3. /\ ~lgsOverlap => \A l, k \in lgsLoads : l.of = k.of => l = k
          /\ \A l \in lgsLoads : l.of # 0
      BY DEF LogsInv
    <3>4. /\ lgsBegun' \in Nat /\ lgsLoads' \subseteq LogLoads
          /\ \A l \in lgsLoads' : l.of # 0
          /\ ~lgsOverlap' => \A l, k \in lgsLoads' : l.of = k.of => l = k
          /\ ~lgsLeft => \A l \in lgsLoads' : l.of = of
          /\ ~lgsOverlap' /\ ~lgsLeft => \A l \in lgsLoads' : l.kind = "tlog" => lgsSession' = 0
          /\ lgsOverlap' \/ lgsLeft \/ lgsRunning' \ lgsStopping' \subseteq {lgsSession'}
      BY <2>2, <3>1, <3>2, <3>3, LogBegins DEF LogsInv
    <3> QED
      BY <2>1, <3>1, <3>4 DEF LogsInv, Lgs!NoGhostReplay, Lgs!OpenedStep
  <2>4. CASE ~Lgs!Waits(lgsPending, 0)
    BY <1>1, <2>1, <2>2, <2>4 DEF Lgs!Mount, LogsInv, Lgs!NoGhostReplay, Lgs!OpenedStep
  <2> QED
    BY <2>3, <2>4
<1>2. ASSUME Lgs!Unmount PROVE LogsInv' /\ Lgs!OpenedStep
  <2>1. /\ lgsMount # 0 /\ lgsPicking = "no" /\ lgsMount' = 0 /\ lgsStopping' = lgsStopping \cup ({lgsSession} \ {0}) /\ lgsSession' = 0
        /\ UNCHANGED <<lgsMounts, lgsPicking, lgsLoads, lgsBegun, lgsRunning, lgsPending, lgsRecents, lgsOverlap>>
    BY <1>2 DEF Lgs!Unmount
  <2>2. ~lgsLeft' => ~lgsLeft /\ lgsLoads = {}
    <3>1. lgsLeft' = (lgsLeft \/ Lgs!Mine # {})
      BY Zenon, <1>2 DEF Lgs!Unmount
    <3> QED
      BY <3>1 DEF LogsInv, Lgs!Mine
  <2> QED
    BY <2>1, <2>2 DEF LogsInv, Lgs!NoGhostReplay, Lgs!OpenedStep
<1>3. ASSUME NEW kind \in Lgs!Kinds, Lgs!Choose(kind) PROVE LogsInv' /\ Lgs!OpenedStep
  <2>1. /\ lgsRecents' = lgsRecents + 1 /\ lgsPending' = [n |-> lgsRecents + 1, kind |-> kind]
        /\ UNCHANGED <<lgsMount, lgsMounts, lgsPicking, lgsRunning, lgsLeft>>
    BY <1>3 DEF Lgs!Choose
  <2>2. lgsPending'.n # 0 /\ lgsRecents' \in Nat
    BY <2>1 DEF LogsInv
  <2>3. CASE lgsMount # 0 /\ ~lgsLoading
    <3>1. Lgs!Begins(lgsLoads, lgsSession, kind, TRUE, lgsMount)
      <4>1. Lgs!Opens(lgsLoads, lgsSession, [n |-> lgsRecents + 1, kind |-> kind], lgsMount)
        BY <1>3, <2>1, <2>3 DEF Lgs!Choose
      <4> QED
        BY <4>1 DEF Lgs!Opens
    <3>2. /\ \A l \in lgsLoads : l.of # 0
          /\ ~lgsOverlap => \A l, k \in lgsLoads : l.of = k.of => l = k
          /\ ~lgsLeft => \A l \in lgsLoads : l.of = lgsMount
          /\ lgsOverlap \/ lgsLeft \/ lgsRunning' \ lgsStopping \subseteq {lgsSession}
      BY <2>1 DEF LogsInv, Lgs!NoGhostReplay
    <3>3. /\ lgsBegun' \in Nat /\ lgsLoads' \subseteq LogLoads
          /\ \A l \in lgsLoads' : l.of # 0
          /\ ~lgsOverlap' => \A l, k \in lgsLoads' : l.of = k.of => l = k
          /\ ~lgsLeft => \A l \in lgsLoads' : l.of = lgsMount
          /\ ~lgsOverlap' /\ ~lgsLeft => \A l \in lgsLoads' : l.kind = "tlog" => lgsSession' = 0
          /\ lgsOverlap' \/ lgsLeft \/ lgsRunning' \ lgsStopping' \subseteq {lgsSession'}
      BY <2>2, <2>3, <3>1, <3>2, LogBegins DEF LogsInv
    <3> QED
      BY <2>1, <2>2, <2>3, <3>3 DEF LogsInv, Lgs!NoGhostReplay, Lgs!OpenedStep
  <2>4. CASE ~(lgsMount # 0 /\ ~lgsLoading)
    BY <1>3, <2>1, <2>2, <2>4 DEF Lgs!Choose, LogsInv, Lgs!NoGhostReplay, Lgs!OpenedStep
  <2> QED
    BY <2>3, <2>4
<1>4. ASSUME NEW kind \in Lgs!Kinds, Lgs!Pick(kind) PROVE LogsInv' /\ Lgs!OpenedStep
  BY <1>4 DEF Lgs!Pick, LogsInv, Lgs!NoGhostReplay, Lgs!OpenedStep
<1>5. ASSUME Lgs!Picked PROVE LogsInv' /\ Lgs!OpenedStep
  <2>1. lgsMount # 0 /\ lgsPicking # "no" /\ lgsPicking' = "no" /\ UNCHANGED <<lgsMount, lgsMounts, lgsRunning, lgsPending, lgsStarted, lgsRecents, lgsLeft>>
    BY <1>5 DEF Lgs!Picked, LogsInv
  <2>2. CASE Lgs!Begins(lgsLoads, lgsSession, lgsPicking, FALSE, lgsMount)
    <3>1. /\ \A l \in lgsLoads : l.of # 0
          /\ ~lgsOverlap => \A l, k \in lgsLoads : l.of = k.of => l = k
          /\ ~lgsLeft => \A l \in lgsLoads : l.of = lgsMount
          /\ lgsOverlap \/ lgsLeft \/ lgsRunning' \ lgsStopping \subseteq {lgsSession}
      BY <2>1 DEF LogsInv, Lgs!NoGhostReplay
    <3>2. /\ lgsBegun' \in Nat /\ lgsLoads' \subseteq LogLoads
          /\ \A l \in lgsLoads' : l.of # 0
          /\ ~lgsOverlap' => \A l, k \in lgsLoads' : l.of = k.of => l = k
          /\ ~lgsLeft => \A l \in lgsLoads' : l.of = lgsMount
          /\ ~lgsOverlap' /\ ~lgsLeft => \A l \in lgsLoads' : l.kind = "tlog" => lgsSession' = 0
          /\ lgsOverlap' \/ lgsLeft \/ lgsRunning' \ lgsStopping' \subseteq {lgsSession'}
      BY <2>1, <2>2, <3>1, LogBegins DEF LogsInv
    <3> QED
      BY <2>1, <3>2 DEF LogsInv, Lgs!NoGhostReplay, Lgs!OpenedStep
  <2>3. CASE UNCHANGED <<lgsLoading, lgsLoads, lgsBegun, lgsSession, lgsStopping, lgsOverlap>>
    BY <2>1, <2>3 DEF LogsInv, Lgs!NoGhostReplay, Lgs!OpenedStep
  <2> QED
    BY <1>5, <2>2, <2>3 DEF Lgs!Picked
<1>6. ASSUME NEW s \in lgsStopping, Lgs!Stopped(s) PROVE LogsInv' /\ Lgs!OpenedStep
  <2>1. /\ UNCHANGED <<lgsMount, lgsMounts, lgsPicking, lgsBegun, lgsSession, lgsPending, lgsRecents, lgsOverlap, lgsLeft>>
        /\ lgsRunning' \ lgsStopping' \subseteq lgsRunning \ lgsStopping /\ 0 \notin lgsRunning'
    BY <1>6 DEF Lgs!Stopped, LogsInv
  <2>3. lgsLoads' \subseteq LogLoads
    BY <1>6 DEF Lgs!Stopped, LogsInv, LogLoads
  <2>2. \A l \in lgsLoads' : \E k \in lgsLoads :
            l = (IF k.step = "stop" THEN [k EXCEPT !.step = "read"] ELSE k) /\ l.of = k.of /\ l.kind = k.kind
    BY <1>6 DEF Lgs!Stopped, LogsInv, LogLoads
  <2> QED
    BY <2>1, <2>2, <2>3 DEF LogsInv, Lgs!NoGhostReplay, Lgs!OpenedStep
<1>7. ASSUME NEW l \in lgsLoads, NEW ok \in BOOLEAN, Lgs!LoadEnds(l, ok) PROVE LogsInv' /\ Lgs!OpenedStep
  <2> DEFINE plays == ok /\ l.kind = "tlog"
             current == IF plays THEN l.n ELSE lgsSession
             others == lgsLoads \ {l}
  <2>1. /\ UNCHANGED <<lgsMount, lgsMounts, lgsPicking, lgsRecents, lgsLeft>>
        /\ lgsRunning' = IF plays THEN lgsRunning \cup {l.n} ELSE lgsRunning
        /\ lgsPending'.kind = lgsPending.kind /\ l.n # 0 /\ 0 \notin lgsRunning'
    <3>1. l.n # 0 /\ 0 \notin lgsRunning
      BY DEF LogsInv, LogLoads
    <3>2. /\ UNCHANGED <<lgsMount, lgsMounts, lgsPicking, lgsRecents, lgsLeft>>
          /\ lgsRunning' = IF plays THEN lgsRunning \cup {l.n} ELSE lgsRunning
      BY <1>7 DEF Lgs!LoadEnds
    <3>3. lgsPending'.kind = lgsPending.kind
      BY <1>7 DEF Lgs!LoadEnds
    <3> QED
      BY <3>1, <3>2, <3>3
  <2>2. CASE l.of = lgsMount
    <3>1. Lgs!Reopens(l, others, current)
      BY <1>7, <2>2 DEF Lgs!LoadEnds
    <3>2. Lgs!OpenedStep
      BY <3>1 DEF Lgs!Reopens, Lgs!Opens, Lgs!Waits, Lgs!OpenedStep
    <3>3. /\ lgsMount \in Nat \ {0} /\ others \in SUBSET LogLoads /\ \A k \in others : k.of # 0
          /\ ~lgsOverlap => \A k, m \in others : k.of = m.of => k = m
          /\ ~lgsLeft => \A k \in others : k.of = lgsMount
          /\ ~lgsOverlap => \A k \in others : k.of # lgsMount
      BY <2>2 DEF LogsInv
    <3>4. lgsOverlap \/ lgsLeft \/ lgsRunning' \ lgsStopping \subseteq {current}
      BY <2>1 DEF LogsInv, Lgs!NoGhostReplay
    <3>5. CASE Lgs!Waits(lgsPending, lgsStarted)
      <4>1. Lgs!Begins(others, current, lgsPending.kind, TRUE, lgsMount)
        BY <3>1, <3>5 DEF Lgs!Reopens, Lgs!Opens
      <4> HIDE DEF others, current
      <4>2. /\ lgsBegun' \in Nat /\ lgsLoads' \subseteq LogLoads
            /\ \A k \in lgsLoads' : k.of # 0
            /\ ~lgsOverlap' => \A k, m \in lgsLoads' : k.of = m.of => k = m
            /\ ~lgsLeft => \A k \in lgsLoads' : k.of = lgsMount
            /\ ~lgsOverlap' /\ ~lgsLeft => \A k \in lgsLoads' : k.kind = "tlog" => lgsSession' = 0
            /\ lgsOverlap' \/ lgsLeft \/ lgsRunning' \ lgsStopping' \subseteq {lgsSession'}
        BY <3>3, <3>4, <4>1, LogBegins DEF LogsInv
      <4> QED
        BY <2>1, <3>2, <3>3, <4>2 DEF LogsInv, Lgs!NoGhostReplay
    <3>6. CASE ~Lgs!Waits(lgsPending, lgsStarted)
      <4>1. lgsLoads' = others /\ lgsSession' = current /\ UNCHANGED <<lgsBegun, lgsStopping, lgsOverlap>>
        BY <3>1, <3>6 DEF Lgs!Reopens
      <4> HIDE DEF others, current
      <4> QED
        BY <2>1, <3>2, <3>3, <3>4, <4>1 DEF LogsInv, Lgs!NoGhostReplay
    <3> QED
      BY <3>5, <3>6
  <2>3. CASE l.of # lgsMount
    BY <1>7, <2>1, <2>3 DEF Lgs!LoadEnds, LogsInv, Lgs!NoGhostReplay, Lgs!OpenedStep
  <2> QED
    BY <2>2, <2>3
<1> QED
  BY <1>1, <1>2, <1>3, <1>4, <1>5, <1>6, <1>7 DEF Lgs!Next

\* Each mount of the plan screen runs one transfer, though not the link, and shows the profile
\* of its own mission, whatever order the answers come in (plan-screen.tsx); the logs screen runs one replay at most that
\* it does not stop, and opens the recent file that was chosen (logs-screen.tsx).
THEOREM ScreensStayCurrent == Pla!Spec /\ Lgs!Spec => ScreensAreCurrent
<1>1. Pla!Init => PlanInv
  BY PlanBegin
<1>2. PlanInv /\ [Pla!Next]_(Pla!vars) => PlanInv'
  <2> SUFFICES ASSUME PlanInv, [Pla!Next]_(Pla!vars) PROVE PlanInv'
    OBVIOUS
  <2>1. CASE UNCHANGED Pla!vars
    BY <2>1 DEF Pla!vars, PlanInv, PathInv, TransfersInv, Pla!Own
  <2> QED
    BY <2>1, PlanKeep
<1>3. Lgs!Init => LogsInv
  BY LogsBegin
<1>4. LogsInv /\ [Lgs!Next]_(Lgs!vars) => LogsInv' /\ [Lgs!OpenedStep]_(Lgs!vars)
  <2> SUFFICES ASSUME LogsInv, [Lgs!Next]_(Lgs!vars) PROVE LogsInv' /\ [Lgs!OpenedStep]_(Lgs!vars)
    OBVIOUS
  <2>1. CASE UNCHANGED Lgs!vars
    BY <2>1 DEF Lgs!vars, LogsInv, Lgs!NoGhostReplay
  <2> QED
    BY <2>1, LogsKeep
<1>5. PlanInv /\ LogsInv => Pla!ProfileIsCurrent /\ Pla!OneTransfer /\ Lgs!NoGhostReplay
  BY PlanPromise DEF LogsInv
<1> QED
  BY <1>1, <1>2, <1>3, <1>4, <1>5, PTL DEF Pla!Spec, Lgs!Spec, ScreensAreCurrent, Lgs!RecentIsOpened

-----------------------------------------------------------------------------
\* The gamepad. Every frame of this activation but the first came an interval after the
\* one before it, and what is held is held by this mode for this vehicle.
PadTyped ==
    /\ padNow \in 0 .. PadTime /\ padSince \in Nat /\ padFrames \in Nat /\ padLast \in 0 .. Pad!Never
    /\ padConfig \in [mode : Pad!Modes, requireArmed : BOOLEAN, releaseOnStop : BOOLEAN]
PadSpaced ==
    padActive => /\ padSince <= padNow
                 /\ IF padLast = Pad!Never THEN padFrames = 0
                    ELSE padLast <= padNow /\ padSince + padFrames * PadInterval <= padLast + PadInterval
PadHolds == padActive /\ padSettled => padHeld \subseteq {<<padTarget, padConfig.mode>>}
PadInv == PadTyped /\ PadSpaced /\ PadHolds

\* Frames an interval apart, counted.
LEMMA FramesFit ==
    ASSUME NEW n \in Nat, NEW d \in Nat, NEW i \in Nat \ {0}, n * i <= d + i
    PROVE  n <= 1 + d \div i
<1>1. d \div i \in Nat /\ d < (d \div i) * i + i
  OBVIOUS
<1>2. ASSUME NEW q \in Nat, q + 2 <= n PROVE q * i + i + i <= n * i
  <2>1. n = q + 2 + (n - q - 2) /\ n - q - 2 \in Nat
    BY <1>2
  <2>2. ASSUME NEW k \in Nat PROVE (q + 2 + k) * i = q * i + i + i + k * i /\ k * i \in Nat
    OBVIOUS
  <2>3. (q + 2 + (n - q - 2)) * i = q * i + i + i + (n - q - 2) * i /\ (n - q - 2) * i \in Nat
    BY <2>1, <2>2
  <2>4. q * i \in Nat /\ n * i \in Nat
    BY <2>2
  <2> QED
    BY <2>1, <2>3, <2>4
<1>3. (d \div i) * i \in Nat /\ n * i \in Nat
  BY <1>1
<1>4. CASE d \div i + 2 <= n
  BY <1>1, <1>2, <1>3, <1>4
<1> QED
  BY <1>1, <1>4

\* stop(), whatever calls it.
LEMMA PadStops == ASSUME PadInv, Pad!Stopping PROVE PadInv' /\ (padActive /\ padConfig.releaseOnStop /\ padSettled' => padHeld' = {})
<1>1. PadTyped'
  BY ScreensAssumption DEF Pad!Stopping, PadInv, PadTyped, Pad!env, Pad!Never
<1>2. PadSpaced' /\ PadHolds'
  BY DEF Pad!Stopping, PadSpaced, PadHolds
<1>3. padActive /\ padConfig.releaseOnStop /\ padSettled' => padHeld' = {}
  BY DEF Pad!Stopping, Pad!Sends, PadInv, PadHolds
<1> QED
  BY <1>1, <1>2, <1>3 DEF PadInv

LEMMA PadTicks == ASSUME PadInv, Pad!Tick PROVE PadInv' /\ (padActive /\ ~padActive' /\ padConfig.releaseOnStop /\ padSettled' => padHeld' = {})
<1>1. CASE ~padPad.connected
  BY <1>1, PadStops DEF Pad!Tick
<1>2. CASE padPad.connected /\ ((padConfig.requireArmed /\ ~padArmed) \/ ~Pad!MayPump(padNow))
  BY <1>2, ScreensAssumption DEF Pad!Tick, Pad!env, PadInv, PadTyped, PadSpaced, PadHolds, Pad!Never
<1>3. CASE padPad.connected /\ ~((padConfig.requireArmed /\ ~padArmed) \/ ~Pad!MayPump(padNow))
  <2>1. /\ padActive /\ padLast' = padNow /\ padFrames' = padFrames + 1 /\ Pad!Sends("live") /\ Pad!MayPump(padNow)
        /\ UNCHANGED <<padActive, padConfig, padPad, padTarget, padArmed, padNow, padSince>>
    BY <1>3 DEF Pad!Tick, Pad!env
  <2>2. /\ padNow \in Nat /\ padNow <= PadTime /\ padLast \in Nat /\ padFrames \in Nat /\ padSince \in Nat /\ PadInterval \in Nat
        /\ padSince <= padNow /\ Pad!Never = PadTime + 1 /\ PadTime \in Nat
    BY <2>1, ScreensAssumption DEF PadInv, PadTyped, PadSpaced, Pad!Never
  <2>3. PadTyped'
    BY <2>1, <2>2 DEF PadInv, PadTyped
  <2>4. (padFrames + 1) * PadInterval = padFrames * PadInterval + PadInterval /\ padFrames * PadInterval \in Nat
    BY <2>2
  <2>5. padSince + padFrames' * PadInterval <= padNow + PadInterval
    <3>1. CASE padLast = Pad!Never
      <4>1. padFrames = 0 /\ 0 * PadInterval = 0
        BY <2>1, <2>2, <3>1 DEF PadInv, PadSpaced
      <4> QED
        BY <2>1, <2>2, <2>4, <4>1
    <3>2. CASE padLast # Pad!Never
      <4>1. padSince + padFrames * PadInterval <= padLast + PadInterval /\ padLast + PadInterval <= padNow
        BY <2>1, <2>2, <3>2 DEF PadInv, PadSpaced, Pad!MayPump
      <4> QED
        BY <2>1, <2>2, <2>4, <4>1
    <3> QED
      BY <3>1, <3>2
  <2>6. PadSpaced'
    BY <2>1, <2>2, <2>5 DEF PadSpaced, Pad!Never
  <2>7. PadHolds'
    BY <2>1 DEF PadInv, PadHolds, Pad!Sends
  <2> QED
    BY <2>1, <2>3, <2>6, <2>7 DEF PadInv
<1> QED
  BY <1>1, <1>2, <1>3

LEMMA PadKeep == ASSUME PadInv, Pad!Next PROVE PadInv' /\ (padActive /\ ~padActive' /\ padConfig.releaseOnStop /\ padSettled' => padHeld' = {})
<1>1. ASSUME Pad!Start PROVE PadInv' /\ padActive'
  <2>1. PadTyped' /\ padActive'
    BY <1>1, ScreensAssumption DEF Pad!Start, Pad!env, PadInv, PadTyped, Pad!Never
  <2>2. PadSpaced'
    BY <1>1 DEF Pad!Start, Pad!env, PadInv, PadTyped, PadSpaced
  <2>3. PadHolds'
    <3>1. padHeld' = padHeld /\ (padSettled' => padHeld = {})
      BY Zenon, <1>1 DEF Pad!Start
    <3> QED
      BY <3>1 DEF PadHolds
  <2> QED
    BY <2>1, <2>2, <2>3 DEF PadInv
<1>2. ASSUME Pad!Stop PROVE PadInv' /\ (padActive /\ padConfig.releaseOnStop /\ padSettled' => padHeld' = {})
  BY <1>2, PadStops DEF Pad!Stop
<1>3. ASSUME Pad!Dispose PROVE PadInv' /\ (padActive /\ padConfig.releaseOnStop /\ padSettled' => padHeld' = {})
  <2>1. CASE padActive
    BY <1>3, <2>1, PadStops DEF Pad!Dispose
  <2>2. CASE ~padActive
    BY <1>3, <2>2 DEF Pad!Dispose, Pad!env, PadInv, PadTyped, PadSpaced, PadHolds
  <2> QED
    BY <2>1, <2>2
<1>4. ASSUME Pad!SetConfig PROVE PadInv' /\ padActive' = padActive
  BY <1>4 DEF Pad!SetConfig, Pad!env, PadInv, PadTyped, PadSpaced, PadHolds
<1>5. ASSUME Pad!Environment PROVE PadInv' /\ padActive' = padActive
  <2>1. /\ UNCHANGED <<padActive, padConfig, padLast, padHeld, padSince, padFrames>>
        /\ padNow' = padNow \/ (padNow < PadTime /\ padNow' = padNow + 1)
    BY <1>5 DEF Pad!Environment
  <2>2. padSettled' => padSettled /\ padTarget' = padTarget
    BY Zenon, <1>5 DEF Pad!Environment
  <2>3. PadTyped' /\ padNow \in Nat /\ padNow <= padNow'
    BY <2>1, ScreensAssumption DEF PadInv, PadTyped
  <2>4. PadSpaced'
    BY <2>1, <2>3 DEF PadInv, PadTyped, PadSpaced, Pad!Never
  <2>5. PadHolds'
    BY <2>1, <2>2 DEF PadInv, PadHolds
  <2> QED
    BY <2>1, <2>3, <2>4, <2>5 DEF PadInv
<1> QED
  BY <1>1, <1>2, <1>3, <1>4, <1>5, PadTicks DEF Pad!Next

LEMMA PadBegin == ASSUME Pad!Init PROVE PadInv
BY ScreensAssumption DEF Pad!Init, PadInv, PadTyped, PadSpaced, PadHolds, Pad!Never

LEMMA PadPromise == ASSUME PadInv PROVE Pad!RateIsBounded
<1> SUFFICES ASSUME padActive PROVE padFrames <= 1 + (padNow - padSince) \div PadInterval
  BY DEF Pad!RateIsBounded
<1>1. /\ padNow \in Nat /\ padLast \in Nat /\ padFrames \in Nat /\ padSince \in Nat /\ PadInterval \in Nat \ {0}
      /\ padSince <= padNow
  BY ScreensAssumption DEF PadInv, PadTyped, PadSpaced, Pad!Never
<1>2. padFrames * PadInterval <= (padNow - padSince) + PadInterval
  <2>1. CASE padLast = Pad!Never
    <3>1. padFrames = 0 /\ 0 * PadInterval = 0
      BY <1>1, <2>1 DEF PadInv, PadSpaced
    <3> QED
      BY <1>1, <3>1
  <2>2. CASE padLast # Pad!Never
    <3>1. padLast <= padNow /\ padSince + padFrames * PadInterval <= padLast + PadInterval /\ padFrames * PadInterval \in Nat
      BY <1>1, <2>2 DEF PadInv, PadSpaced
    <3> QED
      BY <1>1, <3>1
  <2> QED
    BY <2>1, <2>2
<1>3. padNow - padSince \in Nat
  BY <1>1
<1> QED
  BY <1>1, <1>2, <1>3, FramesFit

-----------------------------------------------------------------------------
LEMMA AppendGives ==
    ASSUME NEW S, NEW s \in Seq(S), NEW x \in S
    PROVE  /\ Append(s, x) \in Seq(S) /\ Len(s) \in Nat /\ Len(Append(s, x)) = Len(s) + 1
           /\ Append(s, x)[Len(s) + 1] = x /\ \A i \in 1..Len(s) : Append(s, x)[i] = s[i]
OBVIOUS

LEMMA TailGives ==
    ASSUME NEW S, NEW s \in Seq(S), s # <<>>
    PROVE  /\ Tail(s) \in Seq(S) /\ Len(s) \in Nat \ {0} /\ Len(Tail(s)) = Len(s) - 1
           /\ Head(s) = s[1] /\ Head(s) \in S
           /\ \A i \in 1..Len(Tail(s)) : Tail(s)[i] = s[i + 1] /\ i + 1 \in 1..Len(s)
OBVIOUS

\* The calibrations. Calls, commands and reports, and their types;
CalCalls == [kind : Cal!Kinds \cup {"none"}, stage : {"new", "command", "step", "report"} \cup Cal!Ended,
             on : CalVehicles \cup {Cal!None}, face : 0 .. CalFaces]
CalCommands == [cmd : {"accel", "position", "startMag", "cancelMag", "level"}, n : 0 .. CalFaces,
                to : CalVehicles, op : CalOps]
CalStates == [mag : {"idle", "running"}, accel : {"idle", "running"}, faces : Seq(Nat)]
CalReports == [from : CalVehicles, about : {"compass", "accel"}, says : {"done", "failed"}]
CalTyped ==
    /\ calCall \in [CalOps -> CalCalls] /\ calLink \in Seq(CalCommands) /\ calVehicle \in [CalVehicles -> CalStates]
    /\ calReports \in Seq(CalReports) /\ \A r \in 1..Len(calReports) : calReports[r].about = "accel" => calReports[r].says = "failed"
    /\ calActive \in CalVehicles \cup {Cal!None} /\ calChanges \in Nat
    /\ \A o \in CalOps : /\ calCall[o].stage = "new" <=> calCall[o].kind = "none"
                         /\ calCall[o].stage = "step" => calCall[o].kind = "accel"
                         /\ calCall[o].kind = "compass" => calCall[o].stage # "command"
                         /\ calCall[o].kind = "accel" => calCall[o].stage # "report"
\* what is on the link or done by a vehicle was asked for by a call of its kind;
CalKind(cmd) == IF cmd \in {"accel", "position"} THEN "accel" ELSE IF cmd = "level" THEN "single" ELSE "compass"
CalAsked ==
    /\ \A i \in 1..Len(calLink) : calCall[calLink[i].op].kind = CalKind(calLink[i].cmd)
    /\ \A v \in CalVehicles : /\ calVehicle[v].accel = "running" => \E o \in CalOps : calCall[o].kind = "accel"
                              /\ calVehicle[v].mag = "running" => \E o \in CalOps : calCall[o].kind = "compass"
\* until the active vehicle changes or a command is lost all of it is about that vehicle;
CalHere ==
    calChanges = 0 => calActive \in CalVehicles /\ \A i \in 1..Len(calLink) : calLink[i].to = calActive
\* the vehicle took the positions up to the one that is under way;
Took(n) == Len(calVehicle[calActive].faces) = n /\ \A i \in 1..n : calVehicle[calActive].faces[i] = i
CalAccel(o) ==
    Cal!Alone(o) /\ calCall[o].kind = "accel" /\ calCall[o].stage \in {"command", "step", "done"} =>
        /\ calCall[o].on = calActive
        /\ \A i \in 1..Len(calLink) : calLink[i].op = o =>
              /\ calCall[o].stage = "command" /\ calLink[i].n = calCall[o].face
              /\ calLink[i].cmd = IF calCall[o].face = 0 THEN "accel" ELSE "position"
        /\ \A i, j \in 1..Len(calLink) : calLink[i].op = o /\ calLink[j].op = o => i = j
        /\ calCall[o].stage = "step" => calCall[o].face # 0
        /\ calVehicle[calActive].accel = "running" =>
              IF calCall[o].stage = "done" THEN Took(CalFaces) ELSE calCall[o].face # 0 /\ Took(calCall[o].face - 1)
\* and what was started is cancelled behind it.
CalMag(o) ==
    Cal!Alone(o) /\ calCall[o].kind = "compass" /\ calCall[o].stage \in {"report", "aborted", "timeout"} =>
        /\ calCall[o].on = calActive
        /\ calCall[o].stage = "report" \/
              /\ \A i \in 1..Len(calLink) : calLink[i].cmd = "startMag" =>
                    \E j \in 1..Len(calLink) : i < j /\ calLink[j].cmd = "cancelMag"
              /\ calVehicle[calActive].mag = "running" => \E j \in 1..Len(calLink) : calLink[j].cmd = "cancelMag"
CalInv == /\ CalTyped /\ Cal!NothingLeaks /\ CalAsked /\ CalHere
          /\ \A o \in CalOps : CalAccel(o) /\ CalMag(o)

LEMMA CalNobody == CalFaces \in Nat /\ Cal!None \notin CalVehicles
BY ScreensAssumption DEF Cal!None

LEMMA CalRecords ==
    /\ \A c \in CalCalls : /\ c.kind \in Cal!Kinds \cup {"none"} /\ c.on \in CalVehicles \cup {Cal!None} /\ c.face \in 0 .. CalFaces
                           /\ c.stage \in {"new", "command", "step", "report"} \cup Cal!Ended
    /\ \A m \in CalCommands : /\ m.cmd \in {"accel", "position", "startMag", "cancelMag", "level"}
                              /\ m.n \in 0 .. CalFaces /\ m.to \in CalVehicles /\ m.op \in CalOps
    /\ \A r \in CalReports : r.from \in CalVehicles /\ r.about \in {"compass", "accel"} /\ r.says \in {"done", "failed"}
    /\ \A s \in CalStates : s.mag \in {"idle", "running"} /\ s.accel \in {"idle", "running"} /\ s.faces \in Seq(Nat)
BY DEF CalCalls, CalCommands, CalReports, CalStates

\* What a vehicle makes of a command.
LEMMA CalDoes ==
    ASSUME NEW s \in CalStates, NEW m \in CalCommands
    PROVE  /\ Cal!Does(s, m) \in CalStates
           /\ m.cmd = "accel" => Cal!Does(s, m).accel = "running" /\ Cal!Does(s, m).faces = <<>> /\ Cal!Does(s, m).mag = s.mag
           /\ m.cmd = "position" => Cal!Does(s, m).accel = s.accel /\ Cal!Does(s, m).mag = s.mag
           /\ m.cmd = "position" /\ s.accel = "running" => Cal!Does(s, m).faces = Append(s.faces, m.n)
           /\ m.cmd = "startMag" => Cal!Does(s, m).mag = "running"
           /\ m.cmd = "cancelMag" => Cal!Does(s, m).mag = "idle"
           /\ m.cmd \notin {"startMag", "cancelMag"} => Cal!Does(s, m).mag = s.mag
           /\ m.cmd \notin {"accel", "position"} => Cal!Does(s, m).accel = s.accel /\ Cal!Does(s, m).faces = s.faces
<1>1. /\ m.cmd = "accel" => Cal!Does(s, m) = [s EXCEPT !.accel = "running", !.faces = <<>>]
      /\ m.cmd = "position" => Cal!Does(s, m) = IF s.accel = "running" THEN [s EXCEPT !.faces = Append(s.faces, m.n)] ELSE s
      /\ m.cmd = "startMag" => Cal!Does(s, m) = [s EXCEPT !.mag = "running"]
      /\ m.cmd = "cancelMag" => Cal!Does(s, m) = [s EXCEPT !.mag = "idle"]
  BY Zenon DEF Cal!Does
<1>2. m.cmd = "level" => Cal!Does(s, m) = s
  BY Zenon DEF Cal!Does
<1>3. /\ m.cmd \in {"accel", "position", "startMag", "cancelMag", "level"} /\ m.n \in Nat
      /\ s.faces \in Seq(Nat) /\ Append(s.faces, m.n) \in Seq(Nat)
  <2>1. m.n \in Nat /\ s.faces \in Seq(Nat)
    BY CalRecords, CalNobody
  <2> QED
    BY <2>1, AppendGives, CalRecords
<1>4. <<>> \in Seq(Nat)
  OBVIOUS
<1> HIDE DEF Cal!Does
<1> QED
  BY <1>1, <1>2, <1>3, <1>4 DEF CalStates

LEMMA CalFirst ==
    ASSUME NEW k \in Cal!Kinds, k # "radio"
    PROVE  Cal!FirstCommand(k) = IF k = "accel" THEN "accel" ELSE IF k = "compass" THEN "startMag" ELSE "level"
BY Zenon DEF Cal!FirstCommand, Cal!Kinds

\* The link takes a command of call o, or nothing without an active vehicle.
LEMMA CalSends ==
    ASSUME CalTyped, CalHere, UNCHANGED <<calActive, calChanges>>, NEW o \in CalOps, NEW n \in 0 .. CalFaces,
           NEW cmd \in {"accel", "position", "startMag", "cancelMag", "level"}, Cal!Sends(o, cmd, n)
    PROVE  /\ calLink' \in Seq(CalCommands) /\ CalHere'
           /\ Len(calLink) \in Nat /\ Len(calLink') \in {Len(calLink), Len(calLink) + 1}
           /\ \A i \in 1..Len(calLink) : calLink'[i] = calLink[i] /\ i \in 1..Len(calLink')
           /\ \A i \in 1..Len(calLink') : i \in 1..Len(calLink) \/ (i = Len(calLink) + 1 /\ calLink'[i].op = o /\ calLink'[i].cmd = cmd /\ calLink'[i].n = n)
           /\ calActive # Cal!None => Len(calLink') = Len(calLink) + 1 /\ calLink'[Len(calLink) + 1].cmd = cmd
<1>1. calLink \in Seq(CalCommands) /\ Len(calLink) \in Nat /\ calActive \in CalVehicles \cup {Cal!None}
  BY DEF CalTyped
<1>2. CASE calActive = Cal!None
  <2>1. calLink' = calLink
    BY <1>2 DEF Cal!Sends
  <2> QED
    BY <1>1, <1>2, <2>1, CalNobody DEF CalHere
<1>3. CASE calActive # Cal!None
  <2> DEFINE m == [cmd |-> cmd, n |-> n, to |-> calActive, op |-> o]
  <2>1. calLink' = Append(calLink, m)
    BY <1>3 DEF Cal!Sends
  <2>2. m \in CalCommands /\ m.to = calActive /\ m.op = o /\ m.cmd = cmd /\ m.n = n
    BY <1>1, <1>3 DEF CalCommands
  <2> HIDE DEF m
  <2>3. /\ calLink' \in Seq(CalCommands) /\ Len(calLink') = Len(calLink) + 1 /\ calLink'[Len(calLink) + 1] = m
        /\ \A i \in 1..Len(calLink) : calLink'[i] = calLink[i]
    BY <1>1, <2>1, <2>2, AppendGives
  <2>4. \A i \in 1..Len(calLink') : i \in 1..Len(calLink) \/ i = Len(calLink) + 1
    BY <1>1, <2>3
  <2>5. CalHere'
    BY <2>2, <2>3, <2>4 DEF CalHere
  <2> QED
    BY <1>1, <2>2, <2>3, <2>4, <2>5
<1> QED
  BY <1>2, <1>3


\* A step of call o with the link leaves the claims of the others.
LEMMA CalOthers ==
    ASSUME CalInv, NEW o \in CalOps, UNCHANGED <<calActive, calChanges, calVehicle>>,
           \A p \in CalOps : p # o => calCall'[p] = calCall[p],
           calCall'[o].kind = calCall[o].kind \/ calCall[o].kind = "none",
           \A i \in 1..Len(calLink) : calLink'[i] = calLink[i] /\ i \in 1..Len(calLink'),
           \A i \in 1..Len(calLink') : \/ i \in 1..Len(calLink)
                                       \/ calLink'[i].op = o /\ CalKind(calLink'[i].cmd) = calCall'[o].kind
    PROVE  CalAsked' /\ \A p \in CalOps : p # o => CalAccel(p)' /\ CalMag(p)'
<1>0. \A i \in 1..Len(calLink) : calLink[i].op \in CalOps
  BY CalRecords DEF CalInv, CalTyped
<1>1. CalAsked'
  <2>1. ASSUME NEW i \in 1..Len(calLink') PROVE calCall'[calLink'[i].op].kind = CalKind(calLink'[i].cmd)
    <3>1. CASE i \in 1..Len(calLink)
      <4>1. calCall[calLink[i].op].kind = CalKind(calLink[i].cmd) /\ calLink[i].op \in CalOps
        BY <1>0, <3>1 DEF CalInv, CalAsked
      <4>2. calCall[calLink[i].op].kind # "none"
        BY <4>1 DEF CalKind
      <4> QED
        BY <3>1, <4>1, <4>2
    <3>2. CASE i \notin 1..Len(calLink)
      BY <3>2
    <3> QED
      BY <3>1, <3>2
  <2>2. \A p \in CalOps : calCall[p].kind \in {"accel", "compass"} => calCall'[p].kind = calCall[p].kind
    OBVIOUS
  <2>3. ASSUME NEW v \in CalVehicles
        PROVE  /\ calVehicle'[v].accel = "running" => \E p \in CalOps : calCall'[p].kind = "accel"
               /\ calVehicle'[v].mag = "running" => \E p \in CalOps : calCall'[p].kind = "compass"
    BY <2>2 DEF CalInv, CalAsked
  <2> QED
    BY <2>1, <2>3 DEF CalAsked
<1>2. ASSUME NEW p \in CalOps, p # o, calCall[p].kind \in {"accel", "compass"}, Cal!Alone(p)' PROVE Cal!Alone(p)
  BY <1>2 DEF Cal!Alone
<1>3. ASSUME NEW p \in CalOps, p # o PROVE CalAccel(p)'
  <2> SUFFICES ASSUME Cal!Alone(p)', calCall[p].kind = "accel", calCall[p].stage \in {"command", "step", "done"}
               PROVE  /\ calCall[p].on = calActive
                      /\ \A i \in 1..Len(calLink') : calLink'[i].op = p =>
                            /\ calCall[p].stage = "command" /\ calLink'[i].n = calCall[p].face
                            /\ calLink'[i].cmd = IF calCall[p].face = 0 THEN "accel" ELSE "position"
                      /\ \A i, j \in 1..Len(calLink') : calLink'[i].op = p /\ calLink'[j].op = p => i = j
                      /\ calCall[p].stage = "step" => calCall[p].face # 0
                      /\ calVehicle[calActive].accel = "running" =>
                            IF calCall[p].stage = "done" THEN Took(CalFaces) ELSE calCall[p].face # 0 /\ Took(calCall[p].face - 1)
    BY <1>3 DEF CalAccel, Took
  <2>1. Cal!Alone(p)
    BY <1>2, <1>3
  <2>2. \A i \in 1..Len(calLink') : calLink'[i].op = p => i \in 1..Len(calLink) /\ calLink'[i] = calLink[i]
    BY <1>3
  <2> HIDE DEF Took
  <2> QED
    BY <2>1, <2>2 DEF CalInv, CalAccel
<1>4. ASSUME NEW p \in CalOps, p # o PROVE CalMag(p)'
  <2> SUFFICES ASSUME Cal!Alone(p)', calCall[p].kind = "compass", calCall[p].stage \in {"report", "aborted", "timeout"}
               PROVE  /\ calCall[p].on = calActive
                      /\ calCall[p].stage = "report" \/
                            /\ \A i \in 1..Len(calLink') : calLink'[i].cmd = "startMag" =>
                                  \E j \in 1..Len(calLink') : i < j /\ calLink'[j].cmd = "cancelMag"
                            /\ calVehicle[calActive].mag = "running" => \E j \in 1..Len(calLink') : calLink'[j].cmd = "cancelMag"
    BY <1>4 DEF CalMag
  <2>1. Cal!Alone(p) /\ calCall'[o].kind # "compass"
    BY <1>2, <1>4 DEF Cal!Alone
  <2>2. \A i \in 1..Len(calLink') : calLink'[i].cmd = "startMag" => i \in 1..Len(calLink) /\ calLink'[i] = calLink[i]
    BY <2>1 DEF CalKind
  <2>3. \A j \in 1..Len(calLink) : j \in 1..Len(calLink') /\ calLink'[j] = calLink[j]
    OBVIOUS
  <2> QED
    BY <2>1, <2>2, <2>3 DEF CalInv, CalMag
<1> QED
  BY <1>1, <1>3, <1>4

LEMMA CalCall == ASSUME CalInv, NEW o \in CalOps, NEW k \in Cal!Kinds, Cal!Call(o, k) PROVE CalInv'
<1>0. /\ CalTyped /\ Cal!NothingLeaks /\ CalAsked /\ CalHere /\ ~Cal!Running(o) /\ calCall[o].kind = "none" /\ calCall[o] \in CalCalls
      /\ calActive \in CalVehicles \cup {Cal!None} /\ calCall[o].stage = "new"
      /\ UNCHANGED <<calActive, calDisposed, calVehicle, calReports, calChanges>> /\ 0 \in 0 .. CalFaces
  BY CalNobody DEF CalInv, CalTyped, Cal!Call, Cal!Running
<1>1. CASE calDisposed \/ calActive = Cal!None
  <2>1. calCall' = [calCall EXCEPT ![o].kind = k, ![o].stage = "failed"] /\ UNCHANGED <<calTaps, calTimers, calLink>>
    BY <1>1 DEF Cal!Call
  <2>2. /\ calCall'[o] \in CalCalls /\ calCall'[o].kind = k /\ calCall'[o].stage = "failed"
        /\ \A p \in CalOps : p # o => calCall'[p] = calCall[p]
        /\ calCall' \in [CalOps -> CalCalls]
    BY <1>0, <2>1 DEF CalTyped, CalCalls, Cal!Ended
  <2>3. CalTyped'
    <3>1. \A p \in CalOps : /\ calCall'[p].stage = "new" <=> calCall'[p].kind = "none"
                            /\ calCall'[p].stage = "step" => calCall'[p].kind = "accel"
                            /\ calCall'[p].kind = "compass" => calCall'[p].stage # "command"
                            /\ calCall'[p].kind = "accel" => calCall'[p].stage # "report"
      BY <1>0, <2>2 DEF CalTyped, Cal!Kinds
    <3> QED
      BY <1>0, <2>1, <2>2, <3>1 DEF CalTyped
  <2>4. Cal!NothingLeaks'
    BY <1>0, <2>1, <2>2 DEF Cal!NothingLeaks, Cal!Running
  <2>5. CalAsked' /\ \A p \in CalOps : p # o => CalAccel(p)' /\ CalMag(p)'
    BY <1>0, <2>1, <2>2, CalOthers
  <2>6. CalAccel(o)' /\ CalMag(o)' /\ CalHere'
    BY <1>0, <2>1, <2>2 DEF CalAccel, CalMag, CalHere
  <2> QED
    BY <2>3, <2>4, <2>5, <2>6 DEF CalInv
<1>2. CASE ~(calDisposed \/ calActive = Cal!None) /\ k = "radio"
  <2>1. calCall' = [calCall EXCEPT ![o] = Cal!Opening(k, calActive)] /\ calTaps' = calTaps \cup {o} /\ UNCHANGED <<calTimers, calLink>>
    BY <1>2 DEF Cal!Call
  <2>2. /\ calCall'[o] \in CalCalls /\ calCall'[o].kind = k /\ calCall'[o].stage = "report"
        /\ \A p \in CalOps : p # o => calCall'[p] = calCall[p]
        /\ calCall' \in [CalOps -> CalCalls]
    BY <1>0, <1>2, <2>1 DEF CalTyped, CalCalls, Cal!Ended, Cal!Opening
  <2>3. CalTyped'
    <3>1. \A p \in CalOps : /\ calCall'[p].stage = "new" <=> calCall'[p].kind = "none"
                            /\ calCall'[p].stage = "step" => calCall'[p].kind = "accel"
                            /\ calCall'[p].kind = "compass" => calCall'[p].stage # "command"
                            /\ calCall'[p].kind = "accel" => calCall'[p].stage # "report"
      BY <1>0, <1>2, <2>2 DEF CalTyped, Cal!Kinds
    <3> QED
      BY <1>0, <2>1, <2>2, <3>1 DEF CalTyped
  <2>4. Cal!NothingLeaks'
    BY <1>0, <1>2, <2>1, <2>2 DEF Cal!NothingLeaks, Cal!Running
  <2>5. CalAsked' /\ \A p \in CalOps : p # o => CalAccel(p)' /\ CalMag(p)'
    BY <1>0, <2>1, <2>2, CalOthers
  <2>6. CalAccel(o)' /\ CalMag(o)' /\ CalHere'
    BY <1>0, <1>2, <2>1, <2>2 DEF CalAccel, CalMag, CalHere
  <2> QED
    BY <2>3, <2>4, <2>5, <2>6 DEF CalInv
<1>3. CASE ~(calDisposed \/ calActive = Cal!None) /\ k # "radio"
  <2> DEFINE c == Cal!Opening(k, calActive)
             cmd == Cal!FirstCommand(k)
  <2>1. /\ c.kind = k /\ c.face = 0 /\ c.on = calActive /\ c \in CalCalls
        /\ c.stage = IF k = "compass" THEN "report" ELSE "command"
        /\ [c EXCEPT !.stage = IF calActive = Cal!None THEN "failed" ELSE @] = c
    BY <1>0, <1>3 DEF Cal!Opening, CalCalls
  <2>2. cmd = IF k = "accel" THEN "accel" ELSE IF k = "compass" THEN "startMag" ELSE "level"
    BY <1>3, CalFirst
  <2>3. /\ Cal!Sends(o, cmd, 0) /\ calCall' = [calCall EXCEPT ![o] = c]
        /\ calTaps' = IF k = "single" THEN calTaps \ {o} ELSE calTaps \cup {o}
        /\ calTimers' = IF k = "compass" THEN calTimers \cup {o} ELSE calTimers \ {o}
    BY <1>3, <2>1 DEF Cal!Call, Cal!Commands
  <2>a. cmd \in {"accel", "position", "startMag", "cancelMag", "level"} /\ CalKind(cmd) = k
    BY <1>3, <2>2 DEF CalKind, Cal!Kinds
  <2> HIDE DEF c, cmd
  <2>4. /\ calLink' \in Seq(CalCommands) /\ CalHere'
        /\ \A i \in 1..Len(calLink) : calLink'[i] = calLink[i] /\ i \in 1..Len(calLink')
        /\ \A i \in 1..Len(calLink') : \/ i \in 1..Len(calLink)
                                       \/ i = Len(calLink) + 1 /\ calLink'[i].op = o /\ calLink'[i].cmd = cmd /\ calLink'[i].n = 0
    BY <1>0, <2>3, <2>a, CalSends
  <2>5. /\ calCall'[o] = c /\ \A p \in CalOps : p # o => calCall'[p] = calCall[p]
        /\ calCall' \in [CalOps -> CalCalls]
    BY <1>0, <2>1, <2>3 DEF CalTyped
  <2>6. CalTyped'
    <3>1. \A p \in CalOps : /\ calCall'[p].stage = "new" <=> calCall'[p].kind = "none"
                            /\ calCall'[p].stage = "step" => calCall'[p].kind = "accel"
                            /\ calCall'[p].kind = "compass" => calCall'[p].stage # "command"
                            /\ calCall'[p].kind = "accel" => calCall'[p].stage # "report"
      BY <1>0, <2>1, <2>5 DEF CalTyped, Cal!Kinds
    <3> QED
      BY <1>0, <2>1, <2>4, <2>5, <3>1 DEF CalTyped
  <2>7. Cal!NothingLeaks'
    <3>1. Cal!Running(o)'
      BY <2>1, <2>5 DEF Cal!Running
    <3>2. \A p \in CalOps : p # o => (Cal!Running(p)' <=> Cal!Running(p)) /\ calCall'[p].kind = calCall[p].kind
      BY <2>5 DEF Cal!Running
    <3>3. o \notin calTaps /\ o \notin calTimers
      BY <1>0 DEF Cal!NothingLeaks
    <3> QED
      BY <1>0, <2>1, <2>3, <2>5, <3>1, <3>2, <3>3 DEF Cal!NothingLeaks
  <2>8. CalAsked' /\ \A p \in CalOps : p # o => CalAccel(p)' /\ CalMag(p)'
    <3>1. \A i \in 1..Len(calLink') : i \in 1..Len(calLink) \/ (calLink'[i].op = o /\ CalKind(calLink'[i].cmd) = calCall'[o].kind)
      BY <2>1, <2>a, <2>4, <2>5
    <3> QED
      BY <1>0, <2>4, <2>5, <3>1, CalOthers
  <2>9. CalMag(o)'
    BY <1>0, <2>1, <2>5 DEF CalMag
  <2>10. CalAccel(o)'
    <3> SUFFICES ASSUME Cal!Alone(o)', k = "accel"
                 PROVE  CalAccel(o)'
      BY <2>1, <2>5 DEF CalAccel
    <3>1. \A i \in 1..Len(calLink) : calLink[i].op # o
      BY <1>0 DEF CalAsked, CalKind
    <3>2. calVehicle[calActive].accel # "running"
      <4>1. \A p \in CalOps : calCall[p].kind # "accel"
        BY <1>0, <2>1, <2>5 DEF Cal!Alone
      <4> QED
        BY <1>0, <1>3, <4>1 DEF CalAsked
    <3>3. \A i \in 1..Len(calLink') : calLink'[i].op = o => i = Len(calLink) + 1 /\ calLink'[i].cmd = "accel" /\ calLink'[i].n = 0
      BY <2>2, <2>4, <3>1
    <3> QED
      BY <1>0, <2>1, <2>5, <3>2, <3>3 DEF CalAccel
  <2> QED
    BY <2>4, <2>6, <2>7, <2>8, <2>9, <2>10 DEF CalInv
<1> QED
  BY <1>1, <1>2, <1>3


LEMMA CalStepDone == ASSUME CalInv, NEW o \in CalOps, Cal!StepDone(o) PROVE CalInv'
<1>0. /\ CalTyped /\ Cal!NothingLeaks /\ CalAsked /\ CalHere /\ Cal!Running(o) /\ calCall[o].kind = "accel" /\ calCall[o] \in CalCalls
      /\ calActive \in CalVehicles \cup {Cal!None} /\ calCall[o].stage = "step" /\ calCall[o].face \in 0 .. CalFaces
      /\ UNCHANGED <<calActive, calDisposed, calVehicle, calReports, calChanges>> /\ CalAccel(o)
  BY CalRecords DEF CalInv, CalTyped, Cal!StepDone, Cal!Running
<1> DEFINE c == [calCall[o] EXCEPT !.stage = "command"]
           d == [c EXCEPT !.stage = IF calActive = Cal!None THEN "failed" ELSE @]
<1>1. /\ Cal!Sends(o, "position", calCall[o].face) /\ calCall' = [calCall EXCEPT ![o] = d]
      /\ calTimers' = calTimers \ {o} /\ calTaps' = IF calActive = Cal!None THEN calTaps \ {o} ELSE calTaps \cup {o}
  BY <1>0 DEF Cal!StepDone, Cal!Commands, CalCalls
<1>2. /\ d \in CalCalls /\ d.kind = "accel" /\ d.on = calCall[o].on /\ d.face = calCall[o].face
      /\ d.stage = IF calActive = Cal!None THEN "failed" ELSE "command"
  BY <1>0 DEF CalCalls, Cal!Ended
<1> HIDE DEF c, d
<1>3. /\ calLink' \in Seq(CalCommands) /\ CalHere'
      /\ \A i \in 1..Len(calLink) : calLink'[i] = calLink[i] /\ i \in 1..Len(calLink')
      /\ \A i \in 1..Len(calLink') : \/ i \in 1..Len(calLink)
                                     \/ i = Len(calLink) + 1 /\ calLink'[i].op = o /\ calLink'[i].cmd = "position"
                                        /\ calLink'[i].n = calCall[o].face
  BY <1>0, <1>1, CalSends
<1>4. /\ calCall'[o] = d /\ \A p \in CalOps : p # o => calCall'[p] = calCall[p]
      /\ calCall' \in [CalOps -> CalCalls]
  BY <1>0, <1>1, <1>2 DEF CalTyped
<1>5. CalTyped'
  BY <1>0, <1>2, <1>3, <1>4 DEF CalTyped
<1>6. Cal!NothingLeaks'
  <2>1. Cal!Running(o)' <=> calActive # Cal!None
    BY <1>2, <1>4 DEF Cal!Running
  <2>2. \A p \in CalOps : p # o => (Cal!Running(p)' <=> Cal!Running(p)) /\ calCall'[p].kind = calCall[p].kind
    BY <1>4 DEF Cal!Running
  <2> QED
    BY <1>0, <1>1, <1>2, <1>4, <2>1, <2>2 DEF Cal!NothingLeaks
<1>7. CalAsked' /\ \A p \in CalOps : p # o => CalAccel(p)' /\ CalMag(p)'
  <2>1. \A i \in 1..Len(calLink') : i \in 1..Len(calLink) \/ (calLink'[i].op = o /\ CalKind(calLink'[i].cmd) = calCall'[o].kind)
    BY <1>2, <1>3, <1>4 DEF CalKind
  <2> QED
    BY <1>0, <1>2, <1>3, <1>4, <2>1, CalOthers
<1>8. CalMag(o)'
  BY <1>2, <1>4 DEF CalMag
<1>9. CalAccel(o)'
  <2> SUFFICES ASSUME Cal!Alone(o)', calActive # Cal!None
               PROVE  CalAccel(o)'
    BY <1>2, <1>4 DEF CalAccel
  <2>1. Cal!Alone(o)
    BY <1>0, <1>2, <1>4 DEF Cal!Alone
  <2>2. /\ calCall[o].on = calActive /\ calCall[o].face # 0 /\ \A i \in 1..Len(calLink) : calLink[i].op # o
        /\ calVehicle[calActive].accel = "running" => Took(calCall[o].face - 1)
    BY <1>0, <2>1 DEF CalAccel
  <2>3. UNCHANGED <<calActive, calVehicle>> /\ calCall'[o].face = calCall[o].face /\ calCall'[o].stage = "command"
    BY <1>0, <1>2, <1>4
  <2> QED
    BY <1>2, <1>3, <1>4, <2>2, <2>3 DEF CalAccel, Took
<1> QED
  BY <1>3, <1>5, <1>6, <1>7, <1>8, <1>9 DEF CalInv

\* Calls that end, but a calibration of the accelerometers that is done and a
\* compass calibration that was cancelled.
LEMMA CalStops ==
    ASSUME CalInv, UNCHANGED <<calActive, calChanges, calLink, calVehicle>>, calCall' \in [CalOps -> CalCalls],
           \A o \in CalOps : \/ calCall'[o] = calCall[o]
                             \/ /\ Cal!Running(o) /\ calCall'[o].kind = calCall[o].kind /\ calCall'[o].stage \in Cal!Ended
                                /\ calCall[o].kind = "accel" => calCall'[o].stage # "done"
                                /\ calCall[o].kind = "compass" => calCall'[o].stage \notin {"aborted", "timeout"},
           calTaps' = {o \in CalOps : Cal!Running(o)' /\ calCall'[o].kind # "single"},
           calTimers' = {o \in CalOps : Cal!Running(o)' /\ calCall'[o].kind = "compass"},
           calReports' \in Seq(CalReports),
           \A r \in 1..Len(calReports') : calReports'[r].about = "accel" => calReports'[r].says = "failed"
    PROVE  CalInv'
<1>1. \A o \in CalOps : calCall'[o].kind = calCall[o].kind
  OBVIOUS
<1>2. CalTyped'
  BY DEF CalInv, CalTyped, Cal!Ended, Cal!Running
<1>3. Cal!NothingLeaks'
  BY DEF Cal!NothingLeaks
<1>4. CalAsked' /\ CalHere'
  <2>1. \A i \in 1..Len(calLink) : calLink[i].op \in CalOps
    BY CalRecords DEF CalInv, CalTyped
  <2> QED
    BY <1>1, <2>1 DEF CalInv, CalAsked, CalHere
<1>5. ASSUME NEW o \in CalOps PROVE CalAccel(o)' /\ CalMag(o)'
  <2>1. Cal!Alone(o)' => Cal!Alone(o)
    BY <1>1 DEF Cal!Alone
  <2>2. CASE calCall'[o] = calCall[o]
    BY <2>1, <2>2 DEF CalInv, CalAccel, CalMag, Took
  <2>3. CASE calCall'[o] # calCall[o]
    BY <2>3 DEF CalAccel, CalMag, Cal!Ended
  <2> QED
    BY <2>2, <2>3
<1> QED
  BY <1>2, <1>3, <1>4, <1>5 DEF CalInv

\* A compass calibration that is given up is cancelled.
LEMMA CalCancels ==
    ASSUME CalInv, NEW o \in CalOps, Cal!Running(o), calCall[o].kind = "compass", Cal!CancelMag(o),
           NEW how \in {"aborted", "timeout"}, Cal!Ends(o, how),
           UNCHANGED <<calActive, calVehicle, calReports, calChanges>>
    PROVE  CalInv'
<1>0. /\ CalTyped /\ Cal!NothingLeaks /\ CalAsked /\ CalHere /\ calCall[o] \in CalCalls /\ calCall[o].stage = "report"
      /\ Cal!Sends(o, "cancelMag", 0) /\ 0 \in 0 .. CalFaces /\ CalMag(o)
  BY CalNobody DEF CalInv, CalTyped, Cal!Running, Cal!CancelMag
<1>1. /\ calLink' \in Seq(CalCommands) /\ CalHere' /\ Len(calLink) \in Nat
      /\ \A i \in 1..Len(calLink) : calLink'[i] = calLink[i] /\ i \in 1..Len(calLink')
      /\ \A i \in 1..Len(calLink') : \/ i \in 1..Len(calLink)
                                     \/ i = Len(calLink) + 1 /\ calLink'[i].op = o /\ calLink'[i].cmd = "cancelMag"
      /\ calActive # Cal!None => Len(calLink') = Len(calLink) + 1 /\ calLink'[Len(calLink) + 1].cmd = "cancelMag"
  BY <1>0, CalSends
<1>2. /\ calCall'[o] \in CalCalls /\ calCall'[o].stage = how /\ calCall'[o].kind = "compass" /\ calCall'[o].on = calCall[o].on
      /\ \A p \in CalOps : p # o => calCall'[p] = calCall[p]
      /\ calCall' \in [CalOps -> CalCalls] /\ calTaps' = calTaps \ {o} /\ calTimers' = calTimers \ {o}
  BY <1>0 DEF Cal!Ends, CalTyped, CalCalls, Cal!Ended
<1>3. CalTyped'
  BY <1>0, <1>1, <1>2 DEF CalTyped
<1>4. Cal!NothingLeaks'
  BY <1>0, <1>2 DEF Cal!NothingLeaks, Cal!Running
<1>5. CalAsked' /\ \A p \in CalOps : p # o => CalAccel(p)' /\ CalMag(p)'
  <2>1. \A i \in 1..Len(calLink') : i \in 1..Len(calLink) \/ (calLink'[i].op = o /\ CalKind(calLink'[i].cmd) = calCall'[o].kind)
    BY <1>1, <1>2 DEF CalKind
  <2> QED
    BY <1>0, <1>1, <1>2, <2>1, CalOthers
<1>6. CalAccel(o)'
  BY <1>2 DEF CalAccel
<1>7. CalMag(o)'
  <2> SUFFICES ASSUME Cal!Alone(o)' PROVE CalMag(o)'
    BY DEF CalMag
  <2>1. Cal!Alone(o) /\ calChanges = 0
    BY <1>2 DEF Cal!Alone
  <2>2. calCall[o].on = calActive /\ calActive # Cal!None
    BY <1>0, <2>1, CalNobody DEF CalMag, CalHere
  <2>3. Len(calLink) + 1 \in 1..Len(calLink') /\ calLink'[Len(calLink) + 1].cmd = "cancelMag"
    BY <1>1, <2>2
  <2>4. \A i \in 1..Len(calLink') : calLink'[i].cmd = "startMag" => i < Len(calLink) + 1
    BY <1>1
  <2> QED
    BY <1>2, <2>2, <2>3, <2>4 DEF CalMag
<1> QED
  BY <1>1, <1>3, <1>4, <1>5, <1>6, <1>7 DEF CalInv

LEMMA CalGivesUp == ASSUME CalInv, NEW o \in CalOps, Cal!Abort(o) \/ Cal!Timer(o) PROVE CalInv'
<1>1. CASE Cal!Timer(o)
  <2>1. Cal!Running(o) /\ calCall[o].kind = "compass"
    BY <1>1 DEF Cal!Timer, CalInv, Cal!NothingLeaks
  <2> QED
    BY <1>1, <2>1, CalCancels DEF Cal!Timer
<1>2. CASE Cal!Abort(o) /\ calCall[o].kind = "compass"
  BY <1>2, CalCancels DEF Cal!Abort
<1>3. CASE Cal!Abort(o) /\ calCall[o].kind # "compass"
  <2> DEFINE how == IF calCall[o].kind = "radio" THEN "done" ELSE "aborted"
  <2>1. /\ Cal!Running(o) /\ UNCHANGED <<calActive, calChanges, calLink, calVehicle, calReports>> /\ how \in Cal!Ended
        /\ calCall' = [calCall EXCEPT ![o].stage = how] /\ calTaps' = calTaps \ {o} /\ calTimers' = calTimers \ {o}
    BY <1>3 DEF Cal!Abort, Cal!Ends, Cal!Ended
  <2>2. calCall[o].kind = "accel" => how # "done"
    OBVIOUS
  <2> HIDE DEF how
  <2>3. /\ calCall'[o] \in CalCalls /\ calCall'[o].stage = how /\ calCall'[o].kind = calCall[o].kind
        /\ \A p \in CalOps : p # o => calCall'[p] = calCall[p]
        /\ calCall' \in [CalOps -> CalCalls]
    BY <2>1 DEF CalInv, CalTyped, CalCalls
  <2>4. /\ calTaps' = {p \in CalOps : Cal!Running(p)' /\ calCall'[p].kind # "single"}
        /\ calTimers' = {p \in CalOps : Cal!Running(p)' /\ calCall'[p].kind = "compass"}
    BY <2>1, <2>3 DEF CalInv, Cal!NothingLeaks, Cal!Running, Cal!Ended
  <2>5. /\ calReports' \in Seq(CalReports)
        /\ \A r \in 1..Len(calReports') : calReports'[r].about = "accel" => calReports'[r].says = "failed"
    BY <2>1 DEF CalInv, CalTyped
  <2> QED
    BY <1>3, <2>1, <2>2, <2>3, <2>4, <2>5, CalStops
<1> QED
  BY <1>1, <1>2, <1>3

\* A report of a vehicle, and the end of the radio captures.
LEMMA CalTold == ASSUME CalInv, Cal!OnMessage \/ Cal!Dispose PROVE CalInv'
<1>0. CalTyped /\ Cal!NothingLeaks
  BY DEF CalInv
<1>1. CASE Cal!OnMessage
  <2> DEFINE m == Head(calReports)
             told == {o \in CalOps : Cal!Concerns(o, m)}
  <2>1. /\ calReports # <<>> /\ calReports' = Tail(calReports)
        /\ calCall' = [o \in CalOps |-> IF o \in told THEN [calCall[o] EXCEPT !.stage = m.says] ELSE calCall[o]]
        /\ calTaps' = calTaps \ told /\ calTimers' = calTimers \ told
        /\ UNCHANGED <<calActive, calDisposed, calLink, calVehicle, calChanges>>
    BY <1>1 DEF Cal!OnMessage
  <2>2. /\ m \in CalReports /\ m = calReports[1] /\ 1 \in 1..Len(calReports) /\ calReports' \in Seq(CalReports)
        /\ \A r \in 1..Len(calReports') : calReports'[r] = calReports[r + 1] /\ r + 1 \in 1..Len(calReports)
    BY <1>0, <2>1, TailGives DEF CalTyped
  <2>3. m.says \in {"done", "failed"} /\ (m.about = "accel" => m.says = "failed")
    BY <1>0, <2>2, CalRecords DEF CalTyped
  <2>4. \A o \in told : Cal!Running(o) /\ (calCall[o].kind = "accel" => m.says = "failed")
    BY <1>0, <2>3 DEF Cal!Concerns, Cal!NothingLeaks
  <2> HIDE DEF m, told
  <2>5. told \subseteq CalOps
    BY DEF told
  <2>6. /\ calCall' \in [CalOps -> CalCalls]
        /\ \A o \in CalOps : calCall'[o].kind = calCall[o].kind /\ calCall'[o].stage = IF o \in told THEN m.says ELSE calCall[o].stage
        /\ \A o \in CalOps : o \notin told => calCall'[o] = calCall[o]
    BY <1>0, <2>1, <2>3 DEF CalTyped, CalCalls, Cal!Ended
  <2>7. /\ calTaps' = {p \in CalOps : Cal!Running(p)' /\ calCall'[p].kind # "single"}
        /\ calTimers' = {p \in CalOps : Cal!Running(p)' /\ calCall'[p].kind = "compass"}
    BY <1>0, <2>1, <2>3, <2>6 DEF Cal!NothingLeaks, Cal!Running
  <2>8. \A r \in 1..Len(calReports') : calReports'[r].about = "accel" => calReports'[r].says = "failed"
    BY <1>0, <2>2 DEF CalTyped
  <2> QED
    BY <2>1, <2>2, <2>3, <2>4, <2>6, <2>7, <2>8, CalStops DEF Cal!Ended
<1>2. CASE Cal!Dispose
  <2> DEFINE radio == {o \in CalOps : Cal!Running(o) /\ calCall[o].kind = "radio"}
  <2>1. /\ calCall' = [o \in CalOps |-> IF o \in radio THEN [calCall[o] EXCEPT !.stage = "failed"] ELSE calCall[o]]
        /\ calTaps' = calTaps \ radio
        /\ UNCHANGED <<calTimers, calActive, calLink, calVehicle, calReports, calChanges>>
    BY <1>2 DEF Cal!Dispose
  <2>2. \A o \in CalOps : o \in radio <=> Cal!Running(o) /\ calCall[o].kind = "radio"
    OBVIOUS
  <2> HIDE DEF radio
  <2>3. /\ calCall' \in [CalOps -> CalCalls]
        /\ \A o \in CalOps : calCall'[o].kind = calCall[o].kind /\ calCall'[o].stage = IF o \in radio THEN "failed" ELSE calCall[o].stage
        /\ \A o \in CalOps : o \notin radio => calCall'[o] = calCall[o]
    BY <1>0, <2>1 DEF CalTyped, CalCalls, Cal!Ended
  <2>4. /\ calTaps' = {p \in CalOps : Cal!Running(p)' /\ calCall'[p].kind # "single"}
        /\ calTimers' = {p \in CalOps : Cal!Running(p)' /\ calCall'[p].kind = "compass"}
    BY <1>0, <2>1, <2>2, <2>3 DEF Cal!NothingLeaks, Cal!Running
  <2>5. /\ calReports' \in Seq(CalReports)
        /\ \A r \in 1..Len(calReports') : calReports'[r].about = "accel" => calReports'[r].says = "failed"
    BY <1>0, <2>1 DEF CalTyped
  <2> QED
    BY <2>1, <2>2, <2>3, <2>4, <2>5, CalStops DEF Cal!Ended
<1> QED
  BY <1>1, <1>2


\* The answer to a command of a call.
LEMMA CalAnswers ==
    ASSUME CalTyped, Cal!NothingLeaks, NEW o \in CalOps, calCall[o].kind \in {"accel", "compass", "single"},
           NEW ok \in BOOLEAN, Cal!Answered(o, ok)
    PROVE  /\ calCall' \in [CalOps -> CalCalls] /\ \A p \in CalOps : p # o => calCall'[p] = calCall[p]
           /\ calTaps' = {p \in CalOps : Cal!Running(p)' /\ calCall'[p].kind # "single"}
           /\ calTimers' = {p \in CalOps : Cal!Running(p)' /\ calCall'[p].kind = "compass"}
           /\ calCall'[o].kind = calCall[o].kind /\ calCall'[o].on = calCall[o].on
           /\ calCall'[o].stage = "new" <=> calCall'[o].kind = "none"
           /\ calCall'[o].stage = "step" => calCall'[o].kind = "accel"
           /\ calCall'[o].kind = "compass" => calCall'[o].stage # "command"
           /\ calCall'[o].kind = "accel" => calCall'[o].stage # "report"
           /\ \/ calCall'[o] = calCall[o] /\ (~Cal!Running(o) \/ calCall[o].kind = "compass")
              \/ calCall'[o].stage = "failed"
              \/ calCall[o].kind # "compass" /\ Cal!Running(o) /\ ok
                 /\ IF calCall[o].kind = "single" \/ calCall[o].face = CalFaces
                    THEN calCall'[o].stage = "done" /\ calCall'[o].face = calCall[o].face
                    ELSE calCall'[o].stage = "step" /\ calCall'[o].face = calCall[o].face + 1
<1>0. /\ calCall \in [CalOps -> CalCalls] /\ calCall[o] \in CalCalls /\ calCall[o].face \in 0 .. CalFaces
      /\ calTaps = {p \in CalOps : Cal!Running(p) /\ calCall[p].kind # "single"}
      /\ calTimers = {p \in CalOps : Cal!Running(p) /\ calCall[p].kind = "compass"}
      /\ calCall[o].stage = "new" <=> calCall[o].kind = "none"
      /\ calCall[o].stage = "step" => calCall[o].kind = "accel"
      /\ calCall[o].kind = "compass" => calCall[o].stage # "command"
      /\ calCall[o].kind = "accel" => calCall[o].stage # "report"
  BY CalRecords DEF CalTyped, Cal!NothingLeaks
<1>1. CASE UNCHANGED <<calCall, calTaps, calTimers>> /\ (~Cal!Running(o) \/ calCall[o].kind = "compass")
  BY <1>0, <1>1 DEF Cal!Running
<1>2. ASSUME NEW how \in {"failed", "done"}, Cal!Ends(o, how), Cal!Running(o)
      PROVE  /\ calCall' \in [CalOps -> CalCalls] /\ \A p \in CalOps : p # o => calCall'[p] = calCall[p]
             /\ calTaps' = {p \in CalOps : Cal!Running(p)' /\ calCall'[p].kind # "single"}
             /\ calTimers' = {p \in CalOps : Cal!Running(p)' /\ calCall'[p].kind = "compass"}
             /\ calCall'[o].kind = calCall[o].kind /\ calCall'[o].on = calCall[o].on /\ calCall'[o].face = calCall[o].face
             /\ calCall'[o].stage = how
  <2>1. /\ calCall' \in [CalOps -> CalCalls] /\ \A p \in CalOps : p # o => calCall'[p] = calCall[p]
        /\ calCall'[o].kind = calCall[o].kind /\ calCall'[o].on = calCall[o].on /\ calCall'[o].face = calCall[o].face
        /\ calCall'[o].stage = how /\ calTaps' = calTaps \ {o} /\ calTimers' = calTimers \ {o}
    BY <1>0, <1>2 DEF Cal!Ends, CalCalls, Cal!Ended
  <2> QED
    BY <1>0, <2>1 DEF Cal!Running
<1>3. CASE Cal!Running(o) /\ ok /\ calCall[o].kind = "accel" /\ calCall[o].face # CalFaces
  <2>1. calCall' = [calCall EXCEPT ![o].stage = "step", ![o].face = @ + 1] /\ UNCHANGED <<calTaps, calTimers>>
    BY <1>3 DEF Cal!Answered
  <2>2. calCall[o].face + 1 \in 0 .. CalFaces
    BY <1>0, <1>3, CalNobody
  <2>3. /\ calCall' \in [CalOps -> CalCalls] /\ \A p \in CalOps : p # o => calCall'[p] = calCall[p]
        /\ calCall'[o].kind = "accel" /\ calCall'[o].on = calCall[o].on /\ calCall'[o].face = calCall[o].face + 1
        /\ calCall'[o].stage = "step"
    BY <1>0, <1>3, <2>1, <2>2 DEF CalCalls
  <2> QED
    BY <1>0, <1>3, <2>1, <2>3 DEF Cal!Running
<1>4. CASE Cal!Running(o) /\ ~ok
  BY <1>2, <1>4 DEF Cal!Answered
<1>5. CASE Cal!Running(o) /\ ok /\ calCall[o].kind # "compass" /\ (calCall[o].kind = "single" \/ calCall[o].face = CalFaces)
  BY <1>2, <1>5 DEF Cal!Answered
<1>6. CASE (~Cal!Running(o) \/ (ok /\ calCall[o].kind = "compass"))
  BY <1>1, <1>6 DEF Cal!Answered
<1> QED
  BY <1>3, <1>4, <1>5, <1>6

\* A command leaves the link: it is carried out and answered, or lost.
LEMMA CalLeaves ==
    ASSUME CalInv, calLink # <<>>, calLink' = Tail(calLink), UNCHANGED <<calActive, calReports>>,
           calVehicle' = [calVehicle EXCEPT ![calLink[1].to] = Cal!Does(@, calLink[1])] \/ calVehicle' = calVehicle,
           \/ \E ok \in BOOLEAN : Cal!Answered(calLink[1].op, ok)
           \/ calLink[1].cmd = "cancelMag" /\ UNCHANGED <<calCall, calTaps, calTimers>>,
           calChanges' \in Nat,
           calChanges' = 0 => calChanges = 0 /\ calVehicle' = [calVehicle EXCEPT ![calLink[1].to] = Cal!Does(@, calLink[1])]
    PROVE  CalInv'
<1> DEFINE m == calLink[1]
           o == calLink[1].op
           v == calLink[1].to
<1>0. /\ CalTyped /\ Cal!NothingLeaks /\ CalAsked /\ CalHere /\ calCall \in [CalOps -> CalCalls]
      /\ \A p \in CalOps : CalAccel(p) /\ CalMag(p)
  BY DEF CalInv, CalTyped
<1>1. /\ 1 \in 1..Len(calLink) /\ m \in CalCommands /\ calLink' \in Seq(CalCommands) /\ Len(calLink) \in Nat
      /\ Len(calLink') = Len(calLink) - 1
      /\ \A i \in 1..Len(calLink') : calLink'[i] = calLink[i + 1] /\ i + 1 \in 1..Len(calLink)
  BY <1>0, TailGives DEF CalTyped
<1>2. o \in CalOps /\ v \in CalVehicles /\ m.cmd \in {"accel", "position", "startMag", "cancelMag", "level"} /\ m.n \in 0 .. CalFaces
  BY <1>1, CalRecords
<1>3. calCall[o].kind = CalKind(m.cmd) /\ calCall[o].kind \in {"accel", "compass", "single"}
  BY <1>0, <1>1 DEF CalAsked, CalKind
<1>4. /\ calCall' \in [CalOps -> CalCalls] /\ \A p \in CalOps : p # o => calCall'[p] = calCall[p]
      /\ calTaps' = {p \in CalOps : Cal!Running(p)' /\ calCall'[p].kind # "single"}
      /\ calTimers' = {p \in CalOps : Cal!Running(p)' /\ calCall'[p].kind = "compass"}
      /\ calCall'[o].kind = calCall[o].kind /\ calCall'[o].on = calCall[o].on
      /\ calCall'[o].stage = "new" <=> calCall'[o].kind = "none"
      /\ calCall'[o].stage = "step" => calCall'[o].kind = "accel"
      /\ calCall'[o].kind = "compass" => calCall'[o].stage # "command"
      /\ calCall'[o].kind = "accel" => calCall'[o].stage # "report"
      /\ \/ calCall'[o] = calCall[o] /\ (~Cal!Running(o) \/ calCall[o].kind = "compass")
         \/ calCall'[o].stage = "failed"
         \/ calCall[o].kind # "compass" /\ Cal!Running(o)
            /\ IF calCall[o].kind = "single" \/ calCall[o].face = CalFaces
               THEN calCall'[o].stage = "done" /\ calCall'[o].face = calCall[o].face
               ELSE calCall'[o].stage = "step" /\ calCall'[o].face = calCall[o].face + 1
  <2>1. CASE m.cmd = "cancelMag" /\ UNCHANGED <<calCall, calTaps, calTimers>>
    <3>1. calCall[o].kind = "compass"
      BY <1>3, <2>1 DEF CalKind
    <3> QED
      BY <1>0, <1>2, <2>1, <3>1 DEF CalTyped, Cal!NothingLeaks, Cal!Running
  <2>2. CASE \E ok \in BOOLEAN : Cal!Answered(o, ok)
    BY <1>0, <1>2, <1>3, <2>2, CalAnswers
  <2> QED
    BY <2>1, <2>2
<1>5. /\ \A p \in CalOps : calCall'[p].kind = calCall[p].kind
      /\ \A p \in CalOps : Cal!Alone(p)' => Cal!Alone(p) /\ calChanges' = 0 /\ calChanges = 0
  <2>1. \A p \in CalOps : calCall'[p].kind = calCall[p].kind
    BY <1>4
  <2> QED
    BY <2>1 DEF Cal!Alone
<1> DEFINE s == calVehicle[v]
<1>6. /\ s \in CalStates /\ Cal!Does(s, m) \in CalStates /\ calVehicle \in [CalVehicles -> CalStates]
      /\ m.cmd = "accel" => Cal!Does(s, m).accel = "running" /\ Cal!Does(s, m).faces = <<>> /\ Cal!Does(s, m).mag = s.mag
      /\ m.cmd = "position" => Cal!Does(s, m).accel = s.accel /\ Cal!Does(s, m).mag = s.mag
      /\ m.cmd = "position" /\ s.accel = "running" => Cal!Does(s, m).faces = Append(s.faces, m.n)
      /\ m.cmd = "startMag" => Cal!Does(s, m).mag = "running"
      /\ m.cmd = "cancelMag" => Cal!Does(s, m).mag = "idle"
      /\ m.cmd \notin {"startMag", "cancelMag"} => Cal!Does(s, m).mag = s.mag
      /\ m.cmd \notin {"accel", "position"} => Cal!Does(s, m).accel = s.accel /\ Cal!Does(s, m).faces = s.faces
  <2>1. s \in CalStates /\ calVehicle \in [CalVehicles -> CalStates]
    BY <1>0, <1>2 DEF CalTyped
  <2> HIDE DEF s, m
  <2> QED
    BY <1>1, <2>1, CalDoes
<1>7. calVehicle' = [calVehicle EXCEPT ![v] = Cal!Does(s, m)] \/ calVehicle' = calVehicle
  OBVIOUS
<1>8. calChanges' = 0 => calVehicle' = [calVehicle EXCEPT ![v] = Cal!Does(s, m)] /\ v = calActive /\ calActive \in CalVehicles
  BY <1>0, <1>1 DEF CalHere
<1>9. UNCHANGED <<calActive, calReports>> /\ calChanges' \in Nat
  OBVIOUS
<1>10. \A i \in 1..Len(calLink) : calLink[i].op \in CalOps /\ calCall[calLink[i].op].kind = CalKind(calLink[i].cmd)
  BY <1>0, CalRecords DEF CalTyped, CalAsked
<1>11. \A i \in 1..Len(calLink) : i = 1 \/ (i - 1 \in 1..Len(calLink') /\ calLink'[i - 1] = calLink[i])
  BY <1>1
<1>12. m = calLink[1] /\ o = m.op /\ s = calVehicle[v]
  OBVIOUS
<1> HIDE DEF m, o, v, s
<1>13. CalTyped'
  <2>1. calVehicle' \in [CalVehicles -> CalStates]
    BY <1>2, <1>6, <1>7
  <2> QED
    BY <1>0, <1>1, <1>4, <1>9, <2>1 DEF CalTyped
<1>14. CalAsked'
  <2>1. \A i \in 1..Len(calLink') : calCall'[calLink'[i].op].kind = CalKind(calLink'[i].cmd)
    BY <1>1, <1>5, <1>10
  <2>2. ASSUME NEW w \in CalVehicles
        PROVE  /\ calVehicle'[w].accel = "running" => \E p \in CalOps : calCall'[p].kind = "accel"
               /\ calVehicle'[w].mag = "running" => \E p \in CalOps : calCall'[p].kind = "compass"
    <3>1. CASE calVehicle'[w] = calVehicle[w]
      BY <1>0, <1>5, <3>1 DEF CalAsked
    <3>2. CASE w = v /\ calVehicle'[w] = Cal!Does(s, m)
      <4>1. s.accel = "running" => \E p \in CalOps : calCall[p].kind = "accel"
        BY <1>0, <1>2, <1>12 DEF CalAsked
      <4>2. s.mag = "running" => \E p \in CalOps : calCall[p].kind = "compass"
        BY <1>0, <1>2, <1>12 DEF CalAsked
      <4>3. m.cmd = "accel" => calCall[o].kind = "accel"
        BY <1>3 DEF CalKind
      <4>4. m.cmd = "startMag" => calCall[o].kind = "compass"
        BY <1>3 DEF CalKind
      <4> QED
        BY <1>2, <1>5, <1>6, <3>2, <4>1, <4>2, <4>3, <4>4
    <3>3. calVehicle'[w] = calVehicle[w] \/ (w = v /\ calVehicle'[w] = Cal!Does(s, m))
      BY <1>2, <1>6, <1>7
    <3> QED
      BY <3>1, <3>2, <3>3
  <2> QED
    BY <2>1, <2>2 DEF CalAsked
<1>15. CalHere'
  BY <1>0, <1>1, <1>8, <1>9 DEF CalHere
<1>16. Cal!NothingLeaks'
  BY <1>4 DEF Cal!NothingLeaks
<1>17. ASSUME NEW p \in CalOps PROVE CalAccel(p)'
  <2> SUFFICES ASSUME Cal!Alone(p)', calCall[p].kind = "accel", calCall'[p].stage \in {"command", "step", "done"}
               PROVE  CalAccel(p)'
    BY <1>5 DEF CalAccel
  <2>1. /\ Cal!Alone(p) /\ calVehicle'[calActive] = Cal!Does(s, m) /\ v = calActive /\ calActive \in CalVehicles /\ s = calVehicle[calActive]
    BY <1>5, <1>6, <1>8, <1>12
  <2>2. CASE p = o
    <3>1. calCall[p].stage \in {"command", "step", "done"} /\ Cal!Running(o)
      BY <1>0, <1>4, <1>12, <1>1, <2>1, <2>2 DEF CalTyped, Cal!Running, CalAccel
    <3>2. /\ calCall[o].stage = "command" /\ calCall[o].on = calActive /\ m.n = calCall[o].face
          /\ m.cmd = IF calCall[o].face = 0 THEN "accel" ELSE "position"
          /\ \A i \in 1..Len(calLink) : calLink[i].op = o => i = 1
          /\ s.accel = "running" => calCall[o].face # 0 /\ Took(calCall[o].face - 1)
      BY <1>0, <1>1, <1>12, <2>1, <2>2, <3>1 DEF CalAccel
    <3>3. \A i \in 1..Len(calLink') : calLink'[i].op # o
      <4>1. \A i \in 1..Len(calLink') : i + 1 # 1
        BY <1>1
      <4> QED
        BY <1>1, <3>2, <4>1
    <3>4. calCall[o].face \in Nat /\ CalFaces \in Nat
      BY <1>0, <1>2, CalRecords, CalNobody DEF CalTyped
    <3>5. Cal!Does(s, m).accel = "running" =>
             /\ Len(Cal!Does(s, m).faces) = calCall[o].face
             /\ \A i \in 1..calCall[o].face : Cal!Does(s, m).faces[i] = i
      <4>1. CASE calCall[o].face = 0
        BY <1>6, <3>2, <4>1
      <4>2. CASE calCall[o].face # 0
        <5> SUFFICES ASSUME s.accel = "running"
                     PROVE  /\ Len(Append(s.faces, m.n)) = calCall[o].face
                            /\ \A i \in 1..calCall[o].face : Append(s.faces, m.n)[i] = i
          BY <1>6, <3>2, <4>2
        <5>1. Len(s.faces) = calCall[o].face - 1 /\ \A i \in 1..(calCall[o].face - 1) : s.faces[i] = i
          BY <2>1, <3>2 DEF Took
        <5>2. s.faces \in Seq(Nat) /\ m.n \in Nat /\ m.n = calCall[o].face
          BY <1>6, <3>2, <3>4, CalRecords
        <5>3. /\ Len(Append(s.faces, m.n)) = calCall[o].face /\ Append(s.faces, m.n)[calCall[o].face] = calCall[o].face
              /\ \A i \in 1..(calCall[o].face - 1) : Append(s.faces, m.n)[i] = i
          <6>1. /\ Len(Append(s.faces, m.n)) = Len(s.faces) + 1
                /\ Append(s.faces, m.n)[Len(s.faces) + 1] = m.n
                /\ \A i \in 1..Len(s.faces) : Append(s.faces, m.n)[i] = s.faces[i]
            BY <5>2, AppendGives
          <6>2. Len(s.faces) + 1 = calCall[o].face
            BY <3>4, <5>1
          <6> QED
            BY <5>1, <5>2, <6>1, <6>2
        <5>4. \A i \in 1..calCall[o].face : i \in 1..(calCall[o].face - 1) \/ i = calCall[o].face
          BY <3>4
        <5> QED
          BY <5>3, <5>4
      <4> QED
        BY <4>1, <4>2
    <3>6. \/ calCall'[o].stage = "done" /\ calCall'[o].face = calCall[o].face /\ calCall[o].face = CalFaces
          \/ calCall'[o].stage = "step" /\ calCall'[o].face = calCall[o].face + 1
      BY <1>4, <2>2, <3>1, <3>2
    <3>7. UNCHANGED calActive /\ calVehicle'[calActive].accel = Cal!Does(s, m).accel /\ calVehicle'[calActive].faces = Cal!Does(s, m).faces
      BY <1>9, <2>1
    <3>8. CASE calCall'[o].stage = "done" /\ calCall[o].face = CalFaces
      BY <1>4, <2>2, <3>2, <3>3, <3>5, <3>7, <3>8 DEF CalAccel, Took
    <3>9. CASE calCall'[o].stage = "step" /\ calCall'[o].face = calCall[o].face + 1
      <4>1. calCall'[o].face # 0 /\ calCall'[o].face - 1 = calCall[o].face
        BY <3>4, <3>9
      <4> QED
        BY <1>4, <2>2, <3>2, <3>3, <3>5, <3>7, <3>9, <4>1 DEF CalAccel, Took
    <3> QED
      BY <3>6, <3>8, <3>9
  <2>3. CASE p # o
    <3>1. calCall'[p] = calCall[p] /\ m.cmd \notin {"accel", "position"}
      <4>1. calCall[o].kind # "accel"
        BY <1>2, <2>1, <2>3 DEF Cal!Alone
      <4> QED
        BY <1>3, <1>4, <2>3, <4>1 DEF CalKind
    <3>2. /\ UNCHANGED calActive /\ calVehicle'[calActive].accel = calVehicle[calActive].accel
          /\ calVehicle'[calActive].faces = calVehicle[calActive].faces
      BY <1>6, <1>9, <2>1, <3>1
    <3>3. \A i \in 1..Len(calLink') : calLink'[i] = calLink[i + 1] /\ i + 1 \in 1..Len(calLink) /\ i \in Int
      BY <1>1
    <3>4. /\ calCall[p].on = calActive
          /\ \A i \in 1..Len(calLink') : calLink'[i].op = p =>
                /\ calCall[p].stage = "command" /\ calLink'[i].n = calCall[p].face
                /\ calLink'[i].cmd = IF calCall[p].face = 0 THEN "accel" ELSE "position"
          /\ \A i, j \in 1..Len(calLink') : calLink'[i].op = p /\ calLink'[j].op = p => i + 1 = j + 1
          /\ calCall[p].stage = "step" => calCall[p].face # 0
          /\ calVehicle[calActive].accel = "running" =>
                IF calCall[p].stage = "done" THEN Took(CalFaces) ELSE calCall[p].face # 0 /\ Took(calCall[p].face - 1)
      BY <1>0, <2>1, <3>1, <3>3 DEF CalAccel
    <3>5. \A i, j \in 1..Len(calLink') : i + 1 = j + 1 => i = j
      BY <3>3
    <3> QED
      BY <3>1, <3>2, <3>4, <3>5 DEF CalAccel, Took
  <2> QED
    BY <2>2, <2>3
<1>18. ASSUME NEW p \in CalOps PROVE CalMag(p)'
  <2> SUFFICES ASSUME Cal!Alone(p)', calCall[p].kind = "compass", calCall'[p].stage \in {"report", "aborted", "timeout"}
               PROVE  CalMag(p)'
    BY <1>5 DEF CalMag
  <2>1. /\ Cal!Alone(p) /\ calVehicle'[calActive] = Cal!Does(s, m) /\ v = calActive /\ calActive \in CalVehicles /\ s = calVehicle[calActive]
    BY <1>5, <1>6, <1>8, <1>12
  <2>2. calCall'[p] = calCall[p]
    BY <1>4
  <2>3. calCall[p].on = calActive
    BY <1>0, <2>1, <2>2 DEF CalMag
  <2>4. CASE calCall[p].stage = "report"
    BY <1>9, <2>2, <2>3, <2>4 DEF CalMag
  <2>5. CASE calCall[p].stage # "report"
    <3>1. /\ \A i \in 1..Len(calLink) : calLink[i].cmd = "startMag" =>
                \E j \in 1..Len(calLink) : i < j /\ calLink[j].cmd = "cancelMag"
          /\ calVehicle[calActive].mag = "running" => \E j \in 1..Len(calLink) : calLink[j].cmd = "cancelMag"
      BY <1>0, <2>1, <2>2, <2>5 DEF CalMag
    <3>2. ASSUME NEW i \in 1..Len(calLink'), calLink'[i].cmd = "startMag"
          PROVE  \E j \in 1..Len(calLink') : i < j /\ calLink'[j].cmd = "cancelMag"
      <4>1. PICK j \in 1..Len(calLink) : i + 1 < j /\ calLink[j].cmd = "cancelMag"
        BY <1>1, <3>1, <3>2
      <4>2. j - 1 \in 1..Len(calLink') /\ calLink'[j - 1] = calLink[j] /\ i < j - 1
        BY <1>1, <1>11, <4>1
      <4> QED
        BY <4>1, <4>2
    <3>3. ASSUME Cal!Does(s, m).mag = "running" PROVE \E j \in 1..Len(calLink') : calLink'[j].cmd = "cancelMag"
      <4>1. \E j \in 1..Len(calLink) : j # 1 /\ calLink[j].cmd = "cancelMag"
        <5>1. CASE m.cmd = "startMag"
          <6>1. \E j \in 1..Len(calLink) : 1 < j /\ calLink[j].cmd = "cancelMag"
            BY <1>1, <1>12, <3>1, <5>1
          <6>2. \A j \in 1..Len(calLink) : 1 < j => j # 1
            OBVIOUS
          <6> QED
            BY <6>1, <6>2
        <5>2. CASE m.cmd # "startMag"
          <6>1. m.cmd # "cancelMag" /\ s.mag = "running"
            BY <1>6, <3>3, <5>2
          <6> QED
            BY <1>12, <2>1, <3>1, <6>1
        <5> QED
          BY <5>1, <5>2
      <4> QED
        BY <1>11, <4>1
    <3> QED
      BY <1>9, <2>1, <2>2, <2>3, <3>2, <3>3 DEF CalMag
  <2> QED
    BY <2>4, <2>5
<1> QED
  BY <1>13, <1>14, <1>15, <1>16, <1>17, <1>18 DEF CalInv

LEMMA CalArrives == ASSUME CalInv, Cal!Deliver \/ Cal!Lose PROVE CalInv'
<1>0. /\ CalTyped /\ calChanges \in Nat
      /\ calLink # <<>> => Head(calLink) = calLink[1]
  BY TailGives DEF CalInv, CalTyped
<1>1. CASE Cal!Deliver
  <2>1. \/ \E ok \in BOOLEAN : Cal!Answered(calLink[1].op, ok)
        \/ calLink[1].cmd = "cancelMag" /\ UNCHANGED <<calCall, calTaps, calTimers>>
    BY <1>0, <1>1 DEF Cal!Deliver, Cal!Waits
  <2> QED
    BY <1>0, <1>1, <2>1, CalLeaves DEF Cal!Deliver
<1>2. CASE Cal!Lose
  <2>1. \/ \E ok \in BOOLEAN : Cal!Answered(calLink[1].op, ok)
        \/ calLink[1].cmd = "cancelMag" /\ UNCHANGED <<calCall, calTaps, calTimers>>
    BY <1>0, <1>2 DEF Cal!Lose, Cal!Waits
  <2>2. calChanges' \in Nat /\ calChanges' # 0
    BY <1>0, <1>2 DEF Cal!Lose
  <2> QED
    BY <1>0, <1>2, <2>1, <2>2, CalLeaves DEF Cal!Lose
<1> QED
  BY <1>1, <1>2

\* A vehicle ends a calibration by itself, or another vehicle is chosen.
LEMMA CalMoves == ASSUME CalInv, Cal!Select \/ \E v \in CalVehicles : Cal!Reports(v) PROVE CalInv'
<1>0. /\ CalTyped /\ Cal!NothingLeaks /\ CalAsked /\ CalHere /\ \A o \in CalOps : CalAccel(o) /\ CalMag(o)
  BY DEF CalInv
<1>1. CASE Cal!Select
  <2>1. /\ calChanges' \in Nat /\ calChanges' # 0 /\ calActive' \in CalVehicles \cup {Cal!None}
        /\ UNCHANGED <<calCall, calTaps, calTimers, calDisposed, calLink, calVehicle, calReports>>
    BY <1>0, <1>1 DEF Cal!Select, CalTyped
  <2>2. CalTyped' /\ Cal!NothingLeaks' /\ CalAsked' /\ CalHere'
    BY <1>0, <2>1 DEF CalTyped, Cal!NothingLeaks, Cal!Running, CalAsked, CalHere
  <2>3. \A o \in CalOps : CalAccel(o)' /\ CalMag(o)'
    BY <2>1 DEF CalAccel, CalMag, Cal!Alone
  <2> QED
    BY <2>2, <2>3 DEF CalInv
<1>2. ASSUME NEW v \in CalVehicles, Cal!Reports(v) PROVE CalInv'
  <2>1. /\ UNCHANGED <<calCall, calTaps, calTimers, calActive, calDisposed, calLink, calChanges>>
        /\ calVehicle \in [CalVehicles -> CalStates]
    BY <1>0, <1>2 DEF Cal!Reports, CalTyped
  <2>2. PICK r \in CalReports : calReports' = Append(calReports, r) /\ (r.about = "accel" => r.says = "failed")
    BY <1>2 DEF Cal!Reports, CalReports
  <2>3. /\ calVehicle' \in [CalVehicles -> CalStates]
        /\ \A w \in CalVehicles : /\ calVehicle'[w].faces = calVehicle[w].faces
                                  /\ calVehicle'[w].accel = "running" => calVehicle[w].accel = "running"
                                  /\ calVehicle'[w].mag = "running" => calVehicle[w].mag = "running"
    <3>1. calVehicle' = [calVehicle EXCEPT ![v].mag = "idle"] \/ calVehicle' = [calVehicle EXCEPT ![v].accel = "idle"]
      BY <1>2 DEF Cal!Reports
    <3>2. calVehicle[v] \in CalStates
      BY <2>1
    <3>3. /\ [calVehicle[v] EXCEPT !.mag = "idle"] \in CalStates
          /\ [calVehicle[v] EXCEPT !.accel = "idle"] \in CalStates
      BY <3>2 DEF CalStates
    <3>4. /\ [calVehicle[v] EXCEPT !.mag = "idle"].faces = calVehicle[v].faces
          /\ [calVehicle[v] EXCEPT !.accel = "idle"].faces = calVehicle[v].faces
          /\ [calVehicle[v] EXCEPT !.mag = "idle"].mag = "idle"
          /\ [calVehicle[v] EXCEPT !.mag = "idle"].accel = calVehicle[v].accel
          /\ [calVehicle[v] EXCEPT !.accel = "idle"].accel = "idle"
          /\ [calVehicle[v] EXCEPT !.accel = "idle"].mag = calVehicle[v].mag
      BY <3>2 DEF CalStates
    <3> QED
      BY <2>1, <3>1, <3>3, <3>4
  <2>4. /\ calReports' \in Seq(CalReports)
        /\ \A i \in 1..Len(calReports') : calReports'[i].about = "accel" => calReports'[i].says = "failed"
    <3>1. /\ calReports' \in Seq(CalReports) /\ Len(calReports) \in Nat /\ Len(calReports') = Len(calReports) + 1
          /\ calReports'[Len(calReports) + 1] = r /\ \A i \in 1..Len(calReports) : calReports'[i] = calReports[i]
      BY <1>0, <2>2, AppendGives DEF CalTyped
    <3>2. \A i \in 1..Len(calReports') : i \in 1..Len(calReports) \/ i = Len(calReports) + 1
      BY <3>1
    <3> QED
      BY <1>0, <2>2, <3>1, <3>2 DEF CalTyped
  <2>5. CalTyped' /\ Cal!NothingLeaks' /\ CalAsked' /\ CalHere'
    BY <1>0, <2>1, <2>3, <2>4 DEF CalTyped, Cal!NothingLeaks, Cal!Running, CalAsked, CalHere
  <2>6. ASSUME NEW o \in CalOps PROVE CalAccel(o)' /\ CalMag(o)'
    <3>1. (Cal!Alone(o)' <=> Cal!Alone(o)) /\ (Cal!Alone(o) => calActive \in CalVehicles)
      BY <1>0, <2>1 DEF Cal!Alone, CalHere
    <3> QED
      BY <1>0, <2>1, <2>3, <3>1 DEF CalAccel, CalMag, Took
  <2> QED
    BY <2>5, <2>6 DEF CalInv
<1> QED
  BY <1>1, <1>2

LEMMA CalKeep == ASSUME CalInv, Cal!Next PROVE CalInv'
BY CalStepDone, CalGivesUp, CalCall, CalTold, CalArrives, CalMoves DEF Cal!Next

LEMMA CalBegin == ASSUME Cal!Init PROVE CalInv
<1>1. <<>> \in Seq(Nat) /\ <<>> \in Seq(CalCommands) /\ <<>> \in Seq(CalReports)
  OBVIOUS
<1>2. CalTyped
  <2>1. [kind |-> "none", stage |-> "new", on |-> Cal!None, face |-> 0] \in CalCalls /\ Cal!Idle \in CalStates
    BY <1>1, CalNobody DEF CalCalls, CalStates, Cal!Idle
  <2> QED
    BY <1>1, <2>1 DEF Cal!Init, CalTyped
<1>3. Cal!NothingLeaks /\ CalAsked /\ CalHere
  BY DEF Cal!Init, Cal!NothingLeaks, Cal!Running, CalAsked, CalHere, Cal!Idle
<1>4. \A o \in CalOps : CalAccel(o) /\ CalMag(o)
  BY DEF Cal!Init, CalAccel, CalMag
<1> QED
  BY <1>2, <1>3, <1>4 DEF CalInv

LEMMA CalPromise == ASSUME CalInv PROVE Cal!NothingLeaks /\ Cal!PositionsInOrder /\ Cal!StoppedOnTheVehicle
<1>1. Cal!NothingLeaks
  BY DEF CalInv
<1>2. ASSUME NEW o \in CalOps, Cal!Alone(o), calCall[o].kind = "accel", calCall[o].stage = "done", calVehicle[calCall[o].on].accel = "running"
      PROVE  calVehicle[calCall[o].on].faces = [i \in 1 .. CalFaces |-> i]
  <2>1. calCall[o].on = calActive /\ Took(CalFaces) /\ calActive \in CalVehicles
    BY <1>2 DEF CalInv, CalAccel, CalHere, Cal!Alone
  <2>2. calVehicle[calActive].faces \in Seq(Nat)
    BY <2>1, CalRecords DEF CalInv, CalTyped
  <2>3. calVehicle[calActive].faces = [i \in 1 .. Len(calVehicle[calActive].faces) |-> calVehicle[calActive].faces[i]]
    BY <2>2
  <2> QED
    BY <2>1, <2>3 DEF Took
<1>3. ASSUME NEW o \in CalOps, Cal!Alone(o), calCall[o].kind = "compass", calCall[o].stage \in {"aborted", "timeout"}, calLink = <<>>
      PROVE  calVehicle[calCall[o].on].mag = "idle"
  <2>1. calCall[o].on = calActive /\ calActive \in CalVehicles /\ calVehicle[calActive].mag # "running"
    BY <1>3 DEF CalInv, CalMag, CalHere, Cal!Alone
  <2> QED
    BY <2>1, CalRecords DEF CalInv, CalTyped
<1> QED
  BY <1>1, <1>2, <1>3 DEF Cal!PositionsInOrder, Cal!StoppedOnTheVehicle

\* For every rate and every number of positions and of calls: the gamepad sends no more
\* frames than its rate and holds no vehicle after stop() (manual-control.ts); a calibration
\* that ended keeps no tap and no timer, gave its vehicle every position in order, and
\* leaves no compass running that it was told to stop (calibration-client.ts).
THEOREM VehiclesAreLetGo == Pad!Spec /\ Cal!Spec => VehicleIsLetGo
<1> DEFINE Release == padActive /\ ~padActive' /\ padConfig.releaseOnStop /\ padSettled' => padHeld' = {}
<1>1. Pad!Init => PadInv
  BY PadBegin
<1>2. PadInv /\ [Pad!Next]_(Pad!vars) => PadInv' /\ [Release]_(Pad!vars)
  <2> SUFFICES ASSUME PadInv, [Pad!Next]_(Pad!vars) PROVE PadInv' /\ [Release]_(Pad!vars)
    OBVIOUS
  <2>1. CASE UNCHANGED Pad!vars
    BY <2>1 DEF Pad!vars, PadInv, PadTyped, PadSpaced, PadHolds
  <2> QED
    BY <2>1, PadKeep
<1>3. Cal!Init => CalInv
  BY CalBegin
<1>4. CalInv /\ [Cal!Next]_(Cal!vars) => CalInv'
  <2> SUFFICES ASSUME CalInv, [Cal!Next]_(Cal!vars) PROVE CalInv'
    OBVIOUS
  <2>1. CASE UNCHANGED Cal!vars
    BY <2>1 DEF Cal!vars, CalInv, CalTyped, CalAsked, CalHere, CalAccel, CalMag, Took,
                Cal!NothingLeaks, Cal!Running, Cal!Alone
  <2> QED
    BY <2>1, CalKeep
<1>5. PadInv /\ CalInv =>
         Pad!RateIsBounded /\ Cal!NothingLeaks /\ Cal!PositionsInOrder /\ Cal!StoppedOnTheVehicle
  BY PadPromise, CalPromise
<1> QED
  BY <1>1, <1>2, <1>3, <1>4, <1>5, PTL DEF Pad!Spec, Cal!Spec, VehicleIsLetGo, Pad!StopReleases

-----------------------------------------------------------------------------
\* What may be known of a source: an armed state always is, once its source was heard.
AlertValues == IF alrAspect = "arm" THEN {-1, 1, 2} ELSE -1..Alr!Worst
\* The alerts: the state stays what the messages of the aspect carry, and nothing is unsaid.
AlertsInv ==
    /\ alrAspect \in Alr!Aspects /\ Alr!Worst \in {2, 3} /\ (alrAspect = "battery" <=> Alr!Worst = 3)
    /\ alrModel \in [AlertSources -> AlertValues] /\ alrRows \in [AlertSources -> AlertValues]
    /\ alrPrevious \in [AlertSources -> AlertValues] /\ alrTold \in [AlertSources -> Int]
    /\ Alr!NothingUnsaid

\* What detectAlerts finds, by aspect.
LEMMA AlertOf ==
    ASSUME NEW prev, NEW next
    PROVE  /\ alrAspect = "arm" =>
                Alr!Alert(prev, next) = IF prev # Alr!Unseen /\ prev # next THEN next ELSE Alr!Unknown
           /\ alrAspect = "battery" =>
                Alr!Alert(prev, next) = IF next >= 3 /\ prev < 3 THEN 3
                                    ELSE IF next >= 2 /\ prev < 2 THEN 2 ELSE Alr!Unknown
           /\ alrAspect = "gps" =>
                Alr!Alert(prev, next) = IF prev = 1 /\ next # 1 THEN 2 ELSE Alr!Unknown
           /\ alrAspect = "ekf" =>
                Alr!Alert(prev, next) = IF prev = 1 /\ next = 2 THEN 2 ELSE Alr!Unknown
BY DEF Alr!Alert, Alr!Crossed

\* An alert leaves the operator with all that is bad in what is shown.
LEMMA AlertProcess ==
    ASSUME AlertsInv, NEW s, NEW value, s \in AlertSources => value \in AlertValues,
           Alr!Process(s, value), alrAspect' = alrAspect
    PROVE  /\ alrPrevious' \in [AlertSources -> AlertValues] /\ alrTold' \in [AlertSources -> Int]
           /\ Alr!NothingUnsaid'
<1> DEFINE alert == Alr!Alert(alrPrevious[s], value)
<1> USE DEF AlertsInv, AlertValues, Alr!Unseen, Alr!Unknown
<1>1. alrPrevious' = [r \in AlertSources |-> IF r \in {s} THEN value ELSE alrPrevious[r]]
  BY DEF Alr!Process, Alr!Key
<1>2. Alr!Fire(s, alert, Alr!Known(s, value))
  BY DEF Alr!Process
<1>3. alrHushed' = IF alert = Alr!Unknown THEN alrHushed
                ELSE IF Alr!Said(s, alert) THEN alrHushed \ {s} ELSE alrHushed \cup {s}
  BY DEF Alr!Process
<1>4. \/ Alr!Said(s, alert) /\ alrTold' = [alrTold EXCEPT ![s] = Alr!Told(alert, Alr!Known(s, value))]
      \/ ~Alr!Said(s, alert) /\ alrTold' = [alrTold EXCEPT ![s] = Alr!Known(s, value)]
  BY <1>2 DEF Alr!Fire
<1>a. /\ alrAspect = "arm" => alert = IF alrPrevious[s] # Alr!Unseen /\ alrPrevious[s] # value THEN value ELSE Alr!Unknown
      /\ alrAspect = "battery" => alert = IF value >= 3 /\ alrPrevious[s] < 3 THEN 3
                                       ELSE IF value >= 2 /\ alrPrevious[s] < 2 THEN 2 ELSE Alr!Unknown
      /\ alrAspect = "gps" => alert = IF alrPrevious[s] = 1 /\ value # 1 THEN 2 ELSE Alr!Unknown
      /\ alrAspect = "ekf" => alert = IF alrPrevious[s] = 1 /\ value = 2 THEN 2 ELSE Alr!Unknown
  BY AlertOf
<1> HIDE DEF alert
<1>5. s \in AlertSources => alert \in Int /\ Alr!Known(s, value) \in Int
  BY <1>a DEF Alr!Known, Alr!Aspects, Alr!Worst
<1>6. alrPrevious' \in [AlertSources -> AlertValues] /\ alrTold' \in [AlertSources -> Int]
  BY <1>1, <1>4, <1>5 DEF Alr!Told
<1>7. \A r \in AlertSources \ {s} : /\ alrPrevious'[r] = alrPrevious[r] /\ alrTold'[r] = alrTold[r]
                                    /\ r \in alrHushed' <=> r \in alrHushed
  BY <1>1, <1>3, <1>4
<1>8. ASSUME s \in AlertSources, s \notin alrHushed'
      PROVE  IF alrAspect = "arm" THEN alrPrevious'[s] # Alr!Unseen => alrTold'[s] = alrPrevious'[s]
             ELSE alrPrevious'[s] >= 2 => alrTold'[s] >= alrPrevious'[s]
  <2> DEFINE known == Alr!Known(s, value)
  <2>1. alrPrevious'[s] = value /\ value \in AlertValues /\ alrPrevious[s] \in AlertValues
        /\ alrTold[s] \in Int
    BY <1>1, <1>8
  <2>2. CASE alert = Alr!Unknown
    <3>1. alrTold'[s] = known /\ s \notin alrHushed
      BY <1>3, <1>4, <1>8, <2>2 DEF Alr!Said
    <3>2. IF alrAspect = "arm" THEN alrPrevious[s] # Alr!Unseen => alrTold[s] = alrPrevious[s]
          ELSE alrPrevious[s] >= 2 => alrTold[s] >= alrPrevious[s]
      BY <1>8, <3>1 DEF Alr!NothingUnsaid
    <3>3. CASE alrAspect = "arm"
      <4>1. alrPrevious[s] = Alr!Unseen \/ alrPrevious[s] = value
        BY <2>1, <2>2, <3>3, <1>a
      <4> QED
        BY <2>1, <3>1, <3>2, <3>3, <4>1 DEF Alr!Known
    <3>4. CASE alrAspect = "battery"
      <4>1. value >= 2 => alrPrevious[s] >= 2 /\ (value = 3 => alrPrevious[s] = 3)
        BY <2>1, <2>2, <3>4, <1>a
      <4> QED
        BY <2>1, <3>1, <3>2, <3>4, <4>1 DEF Alr!Known
    <3>5. CASE alrAspect \in {"gps", "ekf"}
      <4>1. value = 2 => alrPrevious[s] # 1
        BY <2>1, <2>2, <3>5, <1>a
      <4> QED
        BY <2>1, <3>1, <3>2, <3>5, <4>1 DEF Alr!Known
    <3> QED
      BY <3>3, <3>4, <3>5 DEF Alr!Aspects
  <2>3. CASE alert # Alr!Unknown
    <3>1. Alr!Said(s, alert) /\ alrTold'[s] = Alr!Told(alert, known)
      BY <1>3, <1>4, <1>8, <2>3
    <3>2. alert = value \/ (value < 2 /\ alrAspect # "arm")
      <4>1. CASE alrAspect = "arm"
        BY <2>3, <4>1, <1>a
      <4>2. CASE alrAspect = "battery"
        BY <2>1, <2>3, <4>2, <1>a
      <4>3. CASE alrAspect \in {"gps", "ekf"}
        BY <2>1, <2>3, <4>3, <1>a
      <4> QED
        BY <4>1, <4>2, <4>3 DEF Alr!Aspects
    <3> QED
      BY <2>1, <3>1, <3>2 DEF Alr!Told, Alr!Known
  <2> QED
    BY <2>2, <2>3
<1> QED
  BY <1>6, <1>7, <1>8 DEF Alr!NothingUnsaid

LEMMA AlertsKeep == ASSUME AlertsInv, Alr!Next PROVE AlertsInv'
<1> USE DEF AlertsInv
<1>0. alrAspect' = alrAspect /\ Alr!Worst' = Alr!Worst /\ AlertValues' = AlertValues
  BY DEF Alr!Next, Alr!Heartbeat, Alr!Report, Alr!Text, Alr!Select, Alr!Publish, Alr!Reset, Alr!Tick, Alr!Switch, Alr!Worst, AlertValues
<1>1. ASSUME UNCHANGED <<alrPrevious, alrTold, alrHushed>> PROVE Alr!NothingUnsaid'
  BY <1>0, <1>1 DEF Alr!NothingUnsaid
<1>2. ASSUME NEW s \in AlertSources, Alr!Heartbeat(s) \/ Alr!Report(s) PROVE AlertsInv'
  <2>1. alrModel' \in [AlertSources -> AlertValues]
    BY <1>2 DEF Alr!Heartbeat, Alr!Report, Alr!Carried, Alr!Made, Alr!Worst, Alr!Unseen, Alr!Unknown, AlertValues, Alr!Aspects
  <2> QED
    BY <1>0, <1>1, <1>2, <2>1 DEF Alr!Heartbeat, Alr!Report, Alr!Shown, Alr!Audio
<1>3. ASSUME NEW s \in AlertSources, Alr!Text(s) PROVE AlertsInv'
  <2>1. PICK value \in 2..Alr!Worst : Alr!Fire(s, value, alrTold[s])
    BY <1>3 DEF Alr!Text
  <2>2. alrTold' \in [AlertSources -> Int] /\ \A r \in AlertSources : alrTold'[r] >= alrTold[r]
    BY <1>3, <2>1 DEF Alr!Fire, Alr!Told, Alr!Text
  <2> QED
    <3>1. Alr!NothingUnsaid'
      BY <1>0, <1>3, <2>2 DEF Alr!Text, Alr!NothingUnsaid, AlertValues, Alr!Worst
    <3> QED
      BY <1>0, <1>3, <2>2, <3>1 DEF Alr!Text, Alr!Shown
<1>4. ASSUME NEW values \in [AlertSources -> AlertValues], NEW sys, Alr!Watch(values, sys)
      PROVE  /\ alrPrevious' \in [AlertSources -> AlertValues] /\ alrTold' \in [AlertSources -> Int]
             /\ Alr!NothingUnsaid'
  BY <1>0, <1>1, <1>4, AlertProcess DEF Alr!Watch, Alr!Audio
<1>5. CASE Alr!Publish
  BY <1>0, <1>4, <1>5 DEF Alr!Publish
<1>6. ASSUME NEW s \in AlertSources, Alr!Select(s[1]) PROVE AlertsInv'
  BY <1>0, <1>4, <1>6 DEF Alr!Select
<1>7. CASE Alr!Reset
  BY <1>0, <1>1, <1>7 DEF Alr!Reset, Alr!Audio, Alr!Unseen, AlertValues
<1>8. CASE Alr!Tick \/ Alr!Switch
  BY <1>0, <1>1, <1>8 DEF Alr!Tick, Alr!Switch, Alr!Audio, Alr!Shown
<1> QED
  BY <1>2, <1>3, <1>5, <1>6, <1>7, <1>8 DEF Alr!Next

LEMMA AlertsBegin == Alr!Init => AlertsInv
BY DEF Alr!Init, AlertsInv, AlertValues, Alr!NothingUnsaid, Alr!Worst, Alr!Aspects, Alr!Unseen, Alr!Unknown

\* What is bad in the snapshot that is shown was said since the operator was told that it
\* was well, for every number of vehicles and components, unless the alert came within the
\* time in which it is not repeated or while the alerts were off (alerts.ts).
THEOREM NothingBadGoesUnsaid == Alr!Spec => []AlertsAreTold
<1>1. Alr!Init => AlertsInv
  BY AlertsBegin
<1>2. AlertsInv /\ [Alr!Next]_(Alr!vars) => AlertsInv'
  <2> SUFFICES ASSUME AlertsInv, [Alr!Next]_(Alr!vars) PROVE AlertsInv'
    OBVIOUS
  <2>1. CASE UNCHANGED Alr!vars
    BY <2>1 DEF Alr!vars, AlertsInv, AlertValues, Alr!Worst, Alr!NothingUnsaid
  <2> QED
    BY <2>1, AlertsKeep
<1>3. AlertsInv => AlertsAreTold
  BY DEF AlertsInv, AlertsAreTold
<1> QED
  BY <1>1, <1>2, <1>3, PTL DEF Alr!Spec
==============================================================================
