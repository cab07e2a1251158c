----------------------------- MODULE MCPlumbing -----------------------------
(***************************************************************************)
(* What carries bytes, messages and records, for TLC: the transports, the  *)
(* parser, the forwarder, the RPC bus, the sandbox, the terrain service,   *)
(* the file and log clients with fewer messages than in MCServices, the    *)
(* recorder and the settings. part says which of them a behaviour is       *)
(* about; the others rest where they begin.                                *)
(***************************************************************************)
EXTENDS Integers, FiniteSets, Sequences, WellFoundedInduction, TLAPS

VARIABLES
    part,
    parComing, parSigning, parBuf, parOut, parArrived, parRestarts,
    losLastSeq, losReceived, losLost, losDuplicates, losOutOfOrder, losFirst, losNewest,
    sanAsked, sanWaiting, sanSettled, sanToGuest, sanToHost, sanGuest, sanInited, sanStalled,
    sanWatchdog, sanDisposed, sanKills, sanTold, sanBeats, sanInvokes,
    terRequest, terDecoded, terDisposed, terFetched, terFailed,
    ftpOp, ftpQueue, ftpAborted, ftpRun, ftpTx, ftpSeq, ftpDisposed, ftpServer, ftpToServer,
    ftpToClient,
    logCall, logCache, logActive, logErasing, logDisposed, logLogs, logAir, logChanges,
    wsState, wsSockets, wsCurrent, wsTimer, wsAttempt, wsByUser, wsEnded, wsCall,
    btState, btConn, btStep, btStale, btGatt, btNotifying, btClosing, btCloses, btWriting,
    btCall,
    rtcState, rtcPeer, rtcChannel, rtcOpened, rtcStep, rtcByUser, rtcEnded, rtcCall, rtcOpens,
    serState, serPort, serStep, serStale, serDevice, serPipes, serClosing, serCall, serOpens,
    repFrames, repIndex, repPaused, repClosed, repTimers, repLast, repDue, repEnded, repHeard,
    repSeeks,
    fwRunning, fwTargets, fwSink, fwPending, fwLoop, fwReleasing, fwAwaited, fwDeferred,
    fwStops, fwFailed, fwOrphans,
    fcPhase, fcMount, fcCurrent, fcRunning, fcOpen, fcClosing, fcMounts, fcMounted, fcBusy,
    fcForwarding, fcDisposed,
    rpcCall, rpcHandler, rpcSent, rpcHeard, rpcToPeer, rpcToCaller, rpcDisposed,
    recRecording, recId, recPending, recKeys, recCount, recChain, recStored, recFlushError,
    recStopping, recExport, recExports, recDisposed,
    appState, appCount, appPending, appTimer, appLast, appChain, appStored, appFound,
    appHydrated, appPatches, appReloads, appExcused

parVars == <<parComing, parSigning, parBuf, parOut, parArrived, parRestarts>>
losVars == <<losLastSeq, losReceived, losLost, losDuplicates, losOutOfOrder, losFirst,
    losNewest>>
sanVars == <<sanAsked, sanWaiting, sanSettled, sanToGuest, sanToHost, sanGuest, sanInited, sanStalled,
    sanWatchdog, sanDisposed, sanKills, sanTold, sanBeats, sanInvokes>>
terVars == <<terRequest, terDecoded, terDisposed, terFetched, terFailed>>
ftpVars == <<ftpOp, ftpQueue, ftpAborted, ftpRun, ftpTx, ftpSeq, ftpDisposed, ftpServer,
    ftpToServer, ftpToClient>>
logVars == <<logCall, logCache, logActive, logErasing, logDisposed, logLogs, logAir,
    logChanges>>
wsVars == <<wsState, wsSockets, wsCurrent, wsTimer, wsAttempt, wsByUser, wsEnded, wsCall>>
btVars == <<btState, btConn, btStep, btStale, btGatt, btNotifying, btClosing, btCloses,
    btWriting, btCall>>
rtcVars == <<rtcState, rtcPeer, rtcChannel, rtcOpened, rtcStep, rtcByUser, rtcEnded, rtcCall,
    rtcOpens>>
serVars == <<serState, serPort, serStep, serStale, serDevice, serPipes, serClosing, serCall,
    serOpens>>
repVars == <<repFrames, repIndex, repPaused, repClosed, repTimers, repLast, repDue, repEnded,
    repHeard, repSeeks>>
fwVars == <<fwRunning, fwTargets, fwSink, fwPending, fwLoop, fwReleasing, fwAwaited, fwDeferred,
    fwStops, fwFailed, fwOrphans>>
fcVars == <<fcPhase, fcMount, fcCurrent, fcRunning, fcOpen, fcClosing, fcMounts, fcMounted,
    fcBusy, fcForwarding, fcDisposed>>
rpcVars == <<rpcCall, rpcHandler, rpcSent, rpcHeard, rpcToPeer, rpcToCaller, rpcDisposed>>
recVars == <<recRecording, recId, recPending, recKeys, recCount, recChain, recStored,
    recFlushError, recStopping, recExport, recExports, recDisposed>>
appVars == <<appState, appCount, appPending, appTimer, appLast, appChain, appStored, appFound,
    appHydrated, appPatches, appReloads, appExcused>>

CONSTANTS
    t1, t2, source, o1,
    Saturation,                         \* the attempt from which a bridge's delay stays
    BluetoothOpens, BluetoothCloses,    \* bounds: calls of the transports, and of a
    PeerOpens, PortOpens, PortCloses,   \* replay the logs and the calls of seek()
    Tlogs, MaxSeeks,
    FirstFrames, FrameJumps, FrameLimit  \* bounds of LossTracker

\* A recorded frame has the time it was received at, which is never 0.
ASSUME LinksAssumption ==
    /\ Saturation \in Nat /\ MaxSeeks \in Nat
    /\ BluetoothOpens \in Nat /\ BluetoothCloses \in Nat
    /\ PeerOpens \in Nat /\ PortOpens \in Nat /\ PortCloses \in Nat
    /\ Tlogs \subseteq Seq(Nat \ {0})

\* A frame, two frames and garbage that may be joined on a link.
Plain == <<5, 1, 1, 6, 3>>
Toy == {Plain, <<5, 0, 0, 1>>, <<6, 1, 0, 0, 5, 0>>, <<6, 0, 1, 1, 4, 3>>, <<6, 0, 1, 1, 4, 0>>,
        <<5, 4, 0>>, <<6>>, <<6, 2, 2, 5>>, <<5, 4, 0, 5, 0, 0, 1, 4>>}
Few == {Plain, <<5, 4, 0>>, <<6>>, <<6, 0, 1, 1, 4, 3>>}
Streams == {a \o b : a \in Toy, b \in Toy} \cup {a \o b \o c : a \in Few, b \in Few, c \in Few}
\* The numbers of frames wrap after 255; jumps of every kind, up to half of the numbers.
FramesHeardFirst == {0, 2, 254}
Jumps == {-127, -2, 0, 1, 2, 128}
\* Two tiles, of which one is remembered: a request for two blocks with a post between
\* the tiles, one that goes back and forth, and an empty one.
Plans == {<<>>, << << <<1>>, <<1, 2>> >>, << <<2>> >> >>, << << <<2, 1>> >> >>}
\* Logs of which one goes back in time and one has two frames at a time.
SomeTlogs == {<<>>, <<1>>, <<1, 3, 4>>, <<2, 1, 3>>, <<2, 2, 5>>}
\* A server that ends a burst with a flag, and one that ends it with a refusal.
Servers == {[burst |-> "flag", counts |-> TRUE, tells |-> TRUE],
            [burst |-> "nak", counts |-> FALSE, tells |-> FALSE]}

Par == INSTANCE Parser WITH
    Streams <- Streams, MaxChunk <- 3, MaxRestarts <- 1,
    coming <- parComing, signing <- parSigning, buf <- parBuf, out <- parOut,
    arrived <- parArrived, restarts <- parRestarts
Los == INSTANCE LossTracker WITH
    Starts <- FirstFrames, Jumps <- FrameJumps, MaxFrames <- FrameLimit,
    lastSeq <- losLastSeq, received <- losReceived, lost <- losLost,
    duplicates <- losDuplicates, outOfOrder <- losOutOfOrder, first <- losFirst,
    newest <- losNewest
San == INSTANCE Sandbox WITH
    MaxBeats <- 2, MaxInvokes <- 1,
    asked <- sanAsked, waiting <- sanWaiting, settled <- sanSettled, toGuest <- sanToGuest,
    toHost <- sanToHost, guest <- sanGuest, inited <- sanInited, stalled <- sanStalled,
    watchdog <- sanWatchdog, disposed <- sanDisposed, kills <- sanKills, told <- sanTold, beats <- sanBeats,
    invokes <- sanInvokes
Ter == INSTANCE Terrain WITH
    Requests <- {1, 2}, Plans <- Plans, MaxDecoded <- 1, MaxFailures <- 1,
    request <- terRequest, decoded <- terDecoded, disposed <- terDisposed,
    fetched <- terFetched, failed <- terFailed
Ftp == INSTANCE FtpClient WITH
    Ops <- {o1}, Kinds <- {"list", "read", "write", "remove"}, Sizes <- {0, 3}, Chunk <- 2,
    MaxRetries <- 0, SeqRange <- 16, MaxBurst <- 2, MaxFlight <- 1, Servers <- Servers,
    op <- ftpOp, queue <- ftpQueue, aborted <- ftpAborted, run <- ftpRun, tx <- ftpTx,
    seq <- ftpSeq, disposed <- ftpDisposed, server <- ftpServer, toServer <- ftpToServer,
    toClient <- ftpToClient
Log == INSTANCE LogClient WITH
    Ops <- {o1}, Systems <- {1}, Ids <- {1}, MaxSize <- 3, Chunk <- 2, MaxStalls <- 1,
    MaxChanges <- 1,
    call <- logCall, cache <- logCache, active <- logActive, erasing <- logErasing,
    disposed <- logDisposed, logs <- logLogs, air <- logAir, changes <- logChanges
Ws == INSTANCE WebSocketTransport WITH
    state <- wsState, sockets <- wsSockets, current <- wsCurrent, timer <- wsTimer,
    attempt <- wsAttempt, byUser <- wsByUser, ended <- wsEnded, call <- wsCall
Bt == INSTANCE BluetoothTransport WITH
    MaxOpens <- BluetoothOpens, MaxCloses <- BluetoothCloses, Overlaps <- FALSE,
    state <- btState, conn <- btConn, step <- btStep, stale <- btStale, gatt <- btGatt,
    notifying <- btNotifying, closing <- btClosing, closes <- btCloses, writing <- btWriting,
    call <- btCall
Rtc == INSTANCE WebRtcTransport WITH
    MaxOpens <- PeerOpens,
    state <- rtcState, peer <- rtcPeer, channel <- rtcChannel, opened <- rtcOpened,
    step <- rtcStep, byUser <- rtcByUser, ended <- rtcEnded, call <- rtcCall, opens <- rtcOpens
Ser == INSTANCE SerialTransport WITH
    MaxOpens <- PortOpens, MaxCloses <- PortCloses,
    state <- serState, port <- serPort, step <- serStep, stale <- serStale, device <- serDevice,
    pipes <- serPipes, closing <- serClosing, call <- serCall, opens <- serOpens
Rep == INSTANCE ReplayTransport WITH
    frames <- repFrames, index <- repIndex, paused <- repPaused, closed <- repClosed,
    timers <- repTimers, last <- repLast, due <- repDue, ended <- repEnded, heard <- repHeard,
    seeks <- repSeeks
Fw == INSTANCE Forwarder WITH
    Targets <- {t1, t2}, TwoWay <- {t2}, Source <- source, MaxPending <- 1, MaxStops <- 2,
    running <- fwRunning, targets <- fwTargets, sink <- fwSink, pending <- fwPending,
    loop <- fwLoop, releasing <- fwReleasing, awaited <- fwAwaited, deferred <- fwDeferred,
    stops <- fwStops, failed <- fwFailed, orphans <- fwOrphans
Fc == INSTANCE ForwardControl WITH
    MaxStarts <- 2, MaxMounts <- 3, Interrupts <- FALSE,
    phase <- fcPhase, mount <- fcMount, current <- fcCurrent, running <- fcRunning,
    open <- fcOpen, closing <- fcClosing, mounts <- fcMounts, mounted <- fcMounted,
    busy <- fcBusy, forwarding <- fcForwarding, disposed <- fcDisposed
Rpc == INSTANCE Rpc WITH
    Ids <- {1, 2}, MaxMsgs <- 2, Streams <- {2},
    call <- rpcCall, handler <- rpcHandler, sent <- rpcSent, heard <- rpcHeard,
    toPeer <- rpcToPeer, toCaller <- rpcToCaller, disposed <- rpcDisposed
Rec == INSTANCE Recorder WITH
    MaxRecordings <- 2, MaxFrames <- 3, ChunkFrames <- 2, MaxExports <- 1,
    recording <- recRecording, id <- recId, pending <- recPending, keys <- recKeys,
    count <- recCount, chain <- recChain, stored <- recStored, flushError <- recFlushError,
    stopping <- recStopping, export <- recExport, exports <- recExports, disposed <- recDisposed
App == INSTANCE AppStore WITH
    Values <- {0, 1}, MaxPatches <- 3, MaxReloads <- 1,
    state <- appState, count <- appCount, pending <- appPending, timer <- appTimer,
    last <- appLast, chain <- appChain, stored <- appStored, found <- appFound,
    hydrated <- appHydrated, patches <- appPatches, reloads <- appReloads, excused <- appExcused

-----------------------------------------------------------------------------
Parts == {"par", "los", "san", "ter", "ftp", "log", "ws", "bt", "rtc", "ser", "rep", "fw", "fc", "rpc", "rec", "app"}
Init ==
    /\ part \in Parts
    /\ Par!Init /\ Los!Init /\ San!Init /\ Ter!Init /\ Ftp!Init /\ Log!Init /\ Ws!Init
    /\ Bt!Init /\ Rtc!Init /\ Ser!Init /\ Rep!Init /\ Fw!Init /\ Fc!Init /\ Rpc!Init
    /\ Rec!Init /\ App!Init
    /\ part = "par" \/ (parComing = Plain \o Plain /\ parSigning = "off")
    /\ part = "los" \/ losFirst = 0
    /\ part = "ftp" \/ (Len(ftpServer.file) = 3 /\ ftpServer.traits.burst = "flag")
    /\ part = "log" \/ logLogs[1][1] = 0
    /\ part = "fw" \/ fwTargets = {}

Next ==
    \/ part = "par" /\ Par!Next
       /\ UNCHANGED <<part, losVars, sanVars, terVars, ftpVars, logVars, wsVars, btVars,
          rtcVars, serVars, repVars, fwVars, fcVars, rpcVars, recVars, appVars>>
    \/ part = "los" /\ Los!Next
       /\ UNCHANGED <<part, parVars, sanVars, terVars, ftpVars, logVars, wsVars, btVars,
          rtcVars, serVars, repVars, fwVars, fcVars, rpcVars, recVars, appVars>>
    \/ part = "san" /\ San!Next
       /\ UNCHANGED <<part, parVars, losVars, terVars, ftpVars, logVars, wsVars, btVars,
          rtcVars, serVars, repVars, fwVars, fcVars, rpcVars, recVars, appVars>>
    \/ part = "ter" /\ Ter!Next
       /\ UNCHANGED <<part, parVars, losVars, sanVars, ftpVars, logVars, wsVars, btVars,
          rtcVars, serVars, repVars, fwVars, fcVars, rpcVars, recVars, appVars>>
    \/ part = "ftp" /\ Ftp!Next
       /\ UNCHANGED <<part, parVars, losVars, sanVars, terVars, logVars, wsVars, btVars,
          rtcVars, serVars, repVars, fwVars, fcVars, rpcVars, recVars, appVars>>
    \/ part = "log" /\ Log!Next
       /\ UNCHANGED <<part, parVars, losVars, sanVars, terVars, ftpVars, wsVars, btVars,
          rtcVars, serVars, repVars, fwVars, fcVars, rpcVars, recVars, appVars>>
    \/ part = "ws" /\ Ws!Next
       /\ UNCHANGED <<part, parVars, losVars, sanVars, terVars, ftpVars, logVars, btVars,
          rtcVars, serVars, repVars, fwVars, fcVars, rpcVars, recVars, appVars>>
    \/ part = "bt" /\ Bt!Next
       /\ UNCHANGED <<part, parVars, losVars, sanVars, terVars, ftpVars, logVars, wsVars,
          rtcVars, serVars, repVars, fwVars, fcVars, rpcVars, recVars, appVars>>
    \/ part = "rtc" /\ Rtc!Next
       /\ UNCHANGED <<part, parVars, losVars, sanVars, terVars, ftpVars, logVars, wsVars,
          btVars, serVars, repVars, fwVars, fcVars, rpcVars, recVars, appVars>>
    \/ part = "ser" /\ Ser!Next
       /\ UNCHANGED <<part, parVars, losVars, sanVars, terVars, ftpVars, logVars, wsVars,
          btVars, rtcVars, repVars, fwVars, fcVars, rpcVars, recVars, appVars>>
    \/ part = "rep" /\ Rep!Next
       /\ UNCHANGED <<part, parVars, losVars, sanVars, terVars, ftpVars, logVars, wsVars,
          btVars, rtcVars, serVars, fwVars, fcVars, rpcVars, recVars, appVars>>
    \/ part = "fw" /\ Fw!Next
       /\ UNCHANGED <<part, parVars, losVars, sanVars, terVars, ftpVars, logVars, wsVars,
          btVars, rtcVars, serVars, repVars, fcVars, rpcVars, recVars, appVars>>
    \/ part = "fc" /\ Fc!Next
       /\ UNCHANGED <<part, parVars, losVars, sanVars, terVars, ftpVars, logVars, wsVars,
          btVars, rtcVars, serVars, repVars, fwVars, rpcVars, recVars, appVars>>
    \/ part = "rpc" /\ Rpc!Next
       /\ UNCHANGED <<part, parVars, losVars, sanVars, terVars, ftpVars, logVars, wsVars,
          btVars, rtcVars, serVars, repVars, fwVars, fcVars, recVars, appVars>>
    \/ part = "rec" /\ Rec!Next
       /\ UNCHANGED <<part, parVars, losVars, sanVars, terVars, ftpVars, logVars, wsVars,
          btVars, rtcVars, serVars, repVars, fwVars, fcVars, rpcVars, appVars>>
    \/ part = "app" /\ App!Next
       /\ UNCHANGED <<part, parVars, losVars, sanVars, terVars, ftpVars, logVars, wsVars,
          btVars, rtcVars, serVars, repVars, fwVars, fcVars, rpcVars, recVars>>
vars == <<part, parVars, losVars, sanVars, terVars, ftpVars, logVars, wsVars, btVars, rtcVars,
    serVars, repVars, fwVars, fcVars, rpcVars, recVars, appVars>>

\* App!Fairness where the store runs: its first step is enabled from the start.
AppFairness ==
    /\ WF_appVars(part = "app" /\ App!Rehydrate) /\ WF_appVars(part = "app" /\ App!Flush)
    /\ WF_appVars(part = "app" /\ App!TimerFires)
    /\ \A k \in App!Keys : WF_appVars(part = "app" /\ App!Stores(1, k))

Spec == Init /\ [][Next]_vars
        /\ San!Fairness /\ Ter!Fairness /\ Ftp!Fairness /\ Log!Fairness /\ Ws!Fairness
        /\ Ws!Accepting /\ Ser!Fairness /\ Rep!Fairness /\ Fw!Fairness /\ Rpc!Fairness
        /\ AppFairness

-----------------------------------------------------------------------------
\* Type correctness of the modules.
TypeOK ==
    /\ Par!TypeOK /\ Los!TypeOK /\ San!TypeOK /\ Ter!TypeOK /\ Ftp!TypeOK /\ Log!TypeOK
    /\ Ws!TypeOK /\ Bt!TypeOK /\ Rtc!TypeOK /\ Ser!TypeOK /\ Rep!TypeOK /\ Fw!TypeOK
    /\ Fc!TypeOK /\ Rpc!TypeOK /\ Rec!TypeOK /\ App!TypeOK

\* See Transport: every transport keeps what the contract promises its owner.
LinkState == CASE part = "ws" -> wsState [] part = "bt" -> btState [] part = "rtc" -> rtcState
               [] part = "ser" -> serState [] OTHER -> "closed"
LinkCall == CASE part = "ws" -> wsCall [] part = "bt" -> btCall [] part = "rtc" -> rtcCall
              [] part = "ser" -> serCall [] OTHER -> "none"
LinkHeld == CASE part = "ws" -> Ws!Held [] part = "bt" -> Bt!Held [] part = "rtc" -> Rtc!Held
              [] part = "ser" -> Ser!Held [] OTHER -> FALSE
Contract == INSTANCE Transport WITH state <- LinkState, call <- LinkCall, held <- LinkHeld
ImplementsTransport == Contract!Spec

\* See the transports: bytes go where they are taken, a lost bridge is tried again,
\* devices are let go, a replay that plays has one timer.
LinksAreHonest ==
    /\ Ws!SendIsSafe /\ Rtc!SendIsSafe /\ Ws!StillTrying
    /\ Bt!NothingLeftConnected /\ Bt!OpenHasDevice /\ Ser!NoPortLeftOpen
    /\ Rep!OneTimer /\ Rep!HeardInOrder
\* A bridge that was lost comes back, a port that is closed is freed, a replay ends.
LinksRecover == Ws!ComesBack /\ Ser!CloseFrees /\ Rep!PlaysOut

\* See Forwarder and ForwardControl: locks, restarts, targets that are served, chunks
\* after a stop, and one forward at a time.
ForwardingServes ==
    /\ [](Fw!RunningServes /\ Fc!OneAtATime)
    /\ Fw!RestartFindsLocksFree /\ Fw!NothingAfterStop /\ Fw!RestartHappens

\* See Rpc, Sandbox, Terrain, FtpClient and LogClient: whole streams, cancellation, an
\* extension that hangs, heights for the vehicle, and an answer to every call.
CallersAreServed ==
    /\ [](Rpc!StreamIsWhole /\ Rpc!CancelReaches /\ San!EndedOnce /\ Ter!HeightsAreTrue)
    /\ Ter!SilentAfterDispose
    /\ Rpc!EveryCallEnds /\ San!ActivationEnds /\ Ter!RequestsEnd
    /\ Ftp!EveryCallEnds /\ Log!EveryCallEnds

\* See Parser, LossTracker and Recorder: what arrived is parsed and counted, no recorded
\* frame is dropped, exports are whole, failures are told.
FramesAreKept ==
    /\ Par!ParsesWhatArrived /\ Los!Counted
    /\ Rec!NothingDropped /\ Rec!ExportIsWhole /\ Rec!StopTells

\* See AppStore: writes in their order, the baseline, what is stored in the end.
SettingsAreKept == App!WritesInOrder /\ []App!BaselineIsStored /\ App!SettingsAreStored

-----------------------------------------------------------------------------
\* The sockets with handlers.
LEMMA WebSocketLive ==
    ASSUME Ws!Inv
    PROVE  /\ wsCurrent = 0 => \A s \in Ws!Sockets : wsSockets[s] = Ws!None
           /\ wsCurrent # 0 => /\ wsCurrent \in Ws!Sockets
                               /\ \A s \in Ws!Sockets : wsSockets[s] # Ws!None <=> s = wsCurrent
<1>1. CASE wsCurrent = 0
  BY <1>1 DEF Ws!Inv, Ws!Live
<1>2. CASE wsCurrent # 0
  <2>1. wsCurrent \in Ws!Sockets /\ Ws!Live = {wsCurrent}
    BY <1>2 DEF Ws!Inv, Ws!TypeOK
  <2> QED
    BY <1>2, <2>1 DEF Ws!Live
<1> QED
  BY <1>1, <1>2

\* The state of the link to a bridge tells whether a socket or a timer works for it.
LEMMA WebSocketAtRest ==
    ASSUME Ws!Inv
    PROVE  /\ wsState = "closed" => ~wsTimer /\ wsCurrent = 0
           /\ Ws!Held <=> wsState # "closed"
<1>1. Ws!Live # {} <=> wsCurrent # 0
  BY DEF Ws!Inv
<1>2. ASSUME wsCurrent # 0
      PROVE  wsState # "closed"
  <2>1. wsSockets[wsCurrent].phase \in {"connecting", "open", "failing"}
    BY <1>2 DEF Ws!Inv, Ws!TypeOK
  <2> QED
    BY <1>2, <2>1 DEF Ws!Inv
<1>3. wsTimer => wsState # "closed"
  BY DEF Ws!Inv
<1>4. wsCurrent = 0 /\ ~wsTimer => wsState = "closed"
  BY DEF Ws!Inv
<1> QED
  BY <1>1, <1>2, <1>3, <1>4 DEF Ws!Held

\* A transport to a bridge: its invariant is kept by every step.
LEMMA WebSocketKeeps == ASSUME Ws!Inv, Ws!Next PROVE Ws!Inv'
<1> DEFINE Records == [phase : {"none", "connecting", "open", "failing"}, initial : BOOLEAN,
                       opened : BOOLEAN]
<1> USE DEF Ws!TypeOK, Ws!None
<1>1. ASSUME NEW s \in Ws!Sockets, NEW initial \in BOOLEAN, wsCurrent = 0,
             wsSockets' = [wsSockets EXCEPT ![s] = [phase |-> "connecting", initial |-> initial,
                                                    opened |-> FALSE]],
             wsCurrent' = s, wsTimer' = FALSE, wsEnded' = FALSE, wsByUser' = FALSE,
             wsAttempt' \in 0 .. Saturation,
             wsState' = IF initial THEN "opening" ELSE "reconnecting",
             wsCall' = IF initial THEN "pending" ELSE wsCall, wsCall # "pending"
      PROVE  Ws!Inv'
  <2>1. s # 0 /\ s \in {1, 2}
    BY DEF Ws!Sockets
  <2>2. wsSockets' \in [Ws!Sockets -> Records]
        /\ wsSockets'[s] = [phase |-> "connecting", initial |-> initial, opened |-> FALSE]
    BY <1>1 DEF Ws!Inv
  <2>3. Ws!Live' = {s}
    BY <1>1, WebSocketLive DEF Ws!Live, Ws!Inv
  <2> QED
    BY <1>1, <2>1, <2>2, <2>3 DEF Ws!Inv
<1>2. CASE Ws!Open
  <2>1. wsCurrent = 0 /\ wsTimer = FALSE /\ wsByUser' = FALSE /\ wsEnded = FALSE
    BY <1>2, WebSocketAtRest DEF Ws!Open, Ws!Inv
  <2>2. CASE Ws!NewSocket(TRUE) /\ wsState' = "opening" /\ wsCall' = "pending"
    <3>1. wsTimer' = FALSE /\ wsEnded' = FALSE /\ wsAttempt' \in 0 .. Saturation
          /\ wsCall # "pending"
      BY <1>2, <2>1, LinksAssumption DEF Ws!Open, Ws!Inv
    <3>2. PICK s \in Ws!Sockets :
              /\ wsCurrent' = s
              /\ wsSockets' = [wsSockets EXCEPT ![s] =
                                 [phase |-> "connecting", initial |-> TRUE, opened |-> FALSE]]
      BY <2>2 DEF Ws!NewSocket
    <3> QED
      BY <1>1, <2>1, <2>2, <3>1, <3>2
  <2>3. CASE wsState' = "closed" /\ wsCall' = "rejected" /\ UNCHANGED <<wsSockets, wsCurrent>>
    <3>1. wsTimer' = FALSE /\ wsByUser' = FALSE /\ wsEnded' = FALSE /\ wsAttempt' = 0
      BY <1>2, <2>1 DEF Ws!Open
    <3>2. Ws!TypeOK'
      <4>1. wsAttempt' \in 0 .. Saturation
        BY <3>1, LinksAssumption
      <4>2. Ws!TypeOK /\ UNCHANGED <<wsSockets, wsCurrent>>
        BY <2>3 DEF Ws!Inv
      <4> QED
        BY <2>3, <3>1, <4>1, <4>2
    <3>3. Ws!Live' = {} /\ wsCurrent' = 0
      BY <2>1, <2>3 DEF Ws!Inv, Ws!Live
    <3> QED
      BY <2>3, <3>1, <3>2, <3>3 DEF Ws!Inv
  <2> QED
    BY <1>2, <2>2, <2>3 DEF Ws!Open
<1>3. CASE Ws!Fire
  <2>1. wsCurrent = 0 /\ wsState = "reconnecting" /\ wsByUser = FALSE /\ wsEnded = FALSE /\ wsTimer
        /\ wsCall # "pending"
    BY <1>3 DEF Ws!Fire, Ws!Inv
  <2>2. CASE Ws!NewSocket(FALSE) /\ wsTimer' = FALSE
             /\ UNCHANGED <<wsState, wsAttempt, wsByUser, wsEnded, wsCall>>
    <3>1. wsAttempt' \in 0 .. Saturation
      BY <2>2 DEF Ws!Inv
    <3>2. PICK s \in Ws!Sockets :
              /\ wsCurrent' = s
              /\ wsSockets' = [wsSockets EXCEPT ![s] =
                                 [phase |-> "connecting", initial |-> FALSE, opened |-> FALSE]]
      BY <2>2 DEF Ws!NewSocket
    <3> QED
      BY <1>1, <2>1, <2>2, <3>1, <3>2
  <2>3. CASE Ws!ScheduleReconnect /\ UNCHANGED <<wsSockets, wsCurrent>>
    BY <2>1, <2>3, LinksAssumption DEF Ws!ScheduleReconnect, Ws!Inv, Ws!Live
  <2> QED
    BY <1>3, <2>1, <2>2, <2>3 DEF Ws!Fire
<1>4. CASE Ws!Close
  <2>1. wsSockets' \in [Ws!Sockets -> Records] /\ Ws!Live' = {} /\ wsCurrent' = 0
    BY <1>4, WebSocketLive DEF Ws!Close, Ws!Live, Ws!Inv
  <2> QED
    BY <1>4, <2>1 DEF Ws!Close, Ws!Settle, Ws!CancelTimer, Ws!Inv
<1>5. ASSUME NEW s \in Ws!Sockets, Ws!OnOpen(s)
      PROVE  Ws!Inv'
  <2>1. wsCurrent = s /\ s # 0
    BY <1>5, WebSocketLive DEF Ws!OnOpen, Ws!Sockets
  <2>2. wsSockets' \in [Ws!Sockets -> Records] /\ Ws!Live' = {s}
        /\ wsSockets'[s] = [wsSockets[s] EXCEPT !.phase = "open", !.opened = TRUE]
    BY <1>5, <2>1, WebSocketLive DEF Ws!OnOpen, Ws!Live, Ws!Inv
  <2> QED
    BY <1>5, <2>1, <2>2, LinksAssumption DEF Ws!OnOpen, Ws!Settle, Ws!Inv
<1>6. ASSUME NEW s \in Ws!Sockets, Ws!OnError(s)
      PROVE  Ws!Inv'
  <2>1. wsCurrent = s /\ s # 0
    BY <1>6, WebSocketLive DEF Ws!OnError, Ws!Sockets
  <2>2. wsSockets' \in [Ws!Sockets -> Records] /\ Ws!Live' = {s}
        /\ wsSockets'[s] = [wsSockets[s] EXCEPT !.phase = "failing"]
    BY <1>6, <2>1, WebSocketLive DEF Ws!OnError, Ws!Live, Ws!Inv
  <2> QED
    BY <1>6, <2>1, <2>2 DEF Ws!OnError, Ws!Inv
<1>7. ASSUME NEW s \in Ws!Sockets, Ws!OnClose(s)
      PROVE  Ws!Inv'
  <2>1. wsCurrent = s /\ s # 0 /\ wsCurrent' = 0
    BY <1>7, WebSocketLive DEF Ws!OnClose, Ws!Live, Ws!Sockets
  <2>2. wsSockets' \in [Ws!Sockets -> Records] /\ Ws!Live' = {}
    BY <1>7, <2>1, WebSocketLive DEF Ws!OnClose, Ws!Live, Ws!Inv
  <2>3. wsByUser = FALSE /\ wsEnded = FALSE /\ wsTimer = FALSE
    BY <2>1 DEF Ws!Inv
  <2>4. CASE wsSockets[s].initial /\ ~wsSockets[s].opened
    BY <1>7, <2>1, <2>2, <2>3, <2>4 DEF Ws!OnClose, Ws!Settle, Ws!Inv
  <2>5. CASE ~(wsSockets[s].initial /\ ~wsSockets[s].opened)
    <3>1. Ws!ScheduleReconnect
      BY <1>7, <2>1, <2>3, <2>5 DEF Ws!OnClose
    <3>2. wsAttempt' \in 0 .. Saturation
      BY <3>1, LinksAssumption DEF Ws!ScheduleReconnect, Ws!Inv
    <3>3. wsTimer' = TRUE /\ wsByUser' = FALSE /\ wsEnded' = FALSE /\ wsState' = "reconnecting"
          /\ wsCall' = wsCall /\ wsCall # "pending"
      BY <2>1, <2>3, <2>5, <3>1 DEF Ws!ScheduleReconnect, Ws!Inv
    <3> QED
      BY <2>1, <2>2, <3>2, <3>3 DEF Ws!Inv
  <2> QED
    BY <2>4, <2>5
<1> QED
  BY <1>2, <1>3, <1>4, <1>5, <1>6, <1>7 DEF Ws!Next

\* The same, as a formula that is true of the next state too.
LEMMA WebSocketHeld == Ws!Inv => (Ws!Held <=> wsState # "closed")
BY WebSocketAtRest

\* Every step of it is a step of the contract, or none.
LEMMA WebSocketImplements ==
    ASSUME part = "ws", part' = "ws", Ws!Inv, Ws!Inv', Ws!Next
    PROVE  [Contract!Next]_(Contract!vars)
<1>1. LinkState = wsState /\ LinkState' = wsState' /\ LinkCall = wsCall /\ LinkCall' = wsCall'
  BY DEF LinkState, LinkCall
<1>2. LinkHeld = (wsState # "closed") /\ LinkHeld' = (wsState' # "closed")
  <2>1. Ws!Held <=> wsState # "closed"
    BY WebSocketAtRest
  <2>2. (Ws!Held <=> wsState # "closed")'
    BY WebSocketHeld, PTL
  <2> QED
    BY <2>1, <2>2 DEF LinkHeld, Ws!Held
<1>3. Ws!TypeOK /\ Ws!TypeOK'
  BY DEF Ws!Inv
<1> USE DEF Ws!TypeOK
<1>4. CASE Ws!Open
  <2>1. wsState = "closed" /\ wsCall # "pending"
    BY <1>4, WebSocketAtRest DEF Ws!Open, Ws!Inv
  <2>2. \/ wsState' = "opening" /\ wsCall' = "pending"
        \/ wsState' = "closed" /\ wsCall' = "rejected"
    BY <1>4 DEF Ws!Open
  <2> QED
    BY <1>1, <1>2, <2>1, <2>2 DEF Contract!Next, Contract!Open, Contract!Fails
<1>5. CASE Ws!Fire
  <2>1. wsState = "reconnecting"
    BY <1>5 DEF Ws!Fire, Ws!Inv
  <2>2. wsState' = wsState /\ wsCall' = wsCall
    BY <1>5, <2>1 DEF Ws!Fire, Ws!ScheduleReconnect
  <2> QED
    BY <1>1, <1>2, <2>2 DEF Contract!vars
<1>6. CASE Ws!Close
  BY <1>1, <1>2, <1>6 DEF Ws!Close, Ws!Settle, Contract!Next, Contract!Close
<1>7. ASSUME NEW s \in Ws!Sockets, Ws!OnOpen(s)
      PROVE  Contract!Opened
  <2>1. wsState # "closed"
    BY <1>7, WebSocketLive, WebSocketAtRest DEF Ws!OnOpen, Ws!None, Ws!Sockets
  <2> QED
    BY <1>1, <1>2, <1>7, <2>1 DEF Ws!OnOpen, Ws!Settle, Contract!Opened
<1>8. ASSUME NEW s \in Ws!Sockets, Ws!OnError(s)
      PROVE  Contract!Trouble \/ UNCHANGED Contract!vars
  BY <1>1, <1>2, <1>8 DEF Ws!OnError, Contract!Trouble, Contract!vars
<1>9. ASSUME NEW s \in Ws!Sockets, Ws!OnClose(s)
      PROVE  Contract!Trouble \/ Contract!Fails
  <2>1. wsState # "closed" /\ s = wsCurrent /\ s # 0
    BY <1>9, WebSocketLive, WebSocketAtRest DEF Ws!OnClose, Ws!Live, Ws!None, Ws!Sockets
  <2>2. ~wsByUser
    BY <2>1 DEF Ws!Inv
  <2>3. CASE wsSockets[s].initial /\ ~wsSockets[s].opened
    <3>1. wsCall = "pending" /\ wsCall' = "rejected" /\ wsState' = "closed"
      BY <1>9, <2>1, <2>2, <2>3 DEF Ws!OnClose, Ws!Settle, Ws!Inv
    <3> QED
      BY <1>1, <1>2, <3>1 DEF Contract!Fails
  <2>4. CASE ~(wsSockets[s].initial /\ ~wsSockets[s].opened)
    <3>1. wsCall' = wsCall /\ wsState' = "reconnecting"
      BY <1>9, <2>2, <2>4 DEF Ws!OnClose, Ws!ScheduleReconnect
    <3> QED
      BY <1>1, <1>2, <2>1, <3>1 DEF Contract!Trouble
  <2> QED
    BY <2>3, <2>4
<1> QED
  BY <1>4, <1>5, <1>6, <1>7, <1>8, <1>9 DEF Ws!Next, Contract!Next

\* Its invariant says what is shown of it.
LEMMA WebSocketIsHonest == ASSUME Ws!Inv PROVE Ws!SendIsSafe /\ Ws!StillTrying
<1>1. Ws!SendIsSafe
  BY DEF Ws!Inv, Ws!TypeOK, Ws!SendIsSafe
<1>2. \A r, s \in Ws!Live : r = s
  BY DEF Ws!Inv
<1>3. wsTimer => Ws!Live = {}
  BY DEF Ws!Inv
<1>4. wsState \in {"reconnecting", "error", "opening"} => Ws!Held
  BY WebSocketAtRest
<1> QED
  BY <1>1, <1>2, <1>3, <1>4 DEF Ws!StillTrying

-----------------------------------------------------------------------------
\* Close() calls that await something.
LEMMA ClosingCounts ==
    ASSUME Ser!TypeOK
    PROVE  /\ serClosing["pipes"] \in 0 .. PortCloses /\ serClosing["port"] \in 0 .. PortCloses
           /\ serClosing = Ser!Nobody <=> serClosing["pipes"] = 0 /\ serClosing["port"] = 0
           /\ serClosing["pipes"] > 0 \/ serClosing["port"] > 0 => serClosing # Ser!Nobody
BY DEF Ser!TypeOK, Ser!Nobody

\* A serial port: its invariant is kept by every step.
LEMMA SerialKeeps == ASSUME Ser!Inv, Ser!Next PROVE Ser!Inv'
<1> USE DEF Ser!TypeOK, Ser!NoPortLeftOpen
<1>1. CASE Ser!Open
  <2>1. serPort = 0 /\ serStep = "idle" /\ serClosing = Ser!Nobody /\ serPipes = "none"
        /\ serDevice = {}
    BY <1>1 DEF Ser!Open, Ser!Inv
  <2>2. serOpens' \in 0 .. PortOpens /\ serOpens' > 0
    BY <1>1, LinksAssumption DEF Ser!Open, Ser!Inv
  <2>3. Ser!TypeOK'
    BY <1>1, <2>2 DEF Ser!Open, Ser!Inv
  <2> QED
    BY <1>1, <2>1, <2>2, <2>3 DEF Ser!Open, Ser!Inv
<1>2. CASE Ser!PortChosen
  BY <1>2 DEF Ser!PortChosen, Ser!Fail, Ser!Inv
<1>3. CASE Ser!PortOpened
  <2>1. serPort = 0 /\ serStep = "open" /\ serClosing = Ser!Nobody /\ serPipes = "none"
        /\ serDevice = {} /\ serOpens \in 1 .. PortOpens /\ serOpens # 0
    BY <1>3, LinksAssumption DEF Ser!PortOpened, Ser!Inv
  <2>2. serDevice' = {serOpens} /\ serDevice' \subseteq 1 .. PortOpens
        /\ UNCHANGED <<serStale, serClosing, serOpens>>
    BY <1>3, <2>1 DEF Ser!PortOpened
  <2>3. CASE serStep' = "undo" /\ UNCHANGED <<serState, serPort, serPipes, serCall>>
    BY <2>1, <2>2, <2>3 DEF Ser!Inv
  <2>4. CASE ~serStale /\ serPipes' = "running" /\ serPort' = serOpens /\ serStep' = "idle"
             /\ serState' = "open" /\ serCall' = "resolved"
    BY <2>1, <2>2, <2>4 DEF Ser!Inv
  <2> QED
    BY <1>3, <2>3, <2>4 DEF Ser!PortOpened, Ser!WasClosed
<1>4. CASE Ser!Undone
  BY <1>4 DEF Ser!Undone, Ser!Fail, Ser!Inv
<1>5. CASE Ser!Refuse
  BY <1>5 DEF Ser!Refuse, Ser!Fail, Ser!Inv
<1>6. CASE Ser!Close
  <2>1. CASE serPort = 0 /\ serState' = "closed" /\ UNCHANGED <<serPipes, serClosing>>
    BY <1>6, <2>1 DEF Ser!Close, Ser!Inv
  <2>2. CASE /\ serPort # 0 /\ serClosing["pipes"] + serClosing["port"] < PortCloses
             /\ serPipes' = Ser!AbortPipes /\ UNCHANGED serState
             /\ serClosing' = [serClosing EXCEPT !["pipes"] = @ + 1]
    <3>1. /\ serClosing' \in [{"pipes", "port"} -> 0 .. PortCloses]
          /\ serClosing'["pipes"] + serClosing'["port"] <= PortCloses
      BY <2>2, ClosingCounts, LinksAssumption DEF Ser!Inv
    <3>2. serPipes' \in {"running", "ending", "ended"} /\ serPipes # "none" /\ serStep = "idle"
      BY <2>2 DEF Ser!AbortPipes, Ser!Inv
    <3> QED
      BY <1>6, <2>2, <3>1, <3>2 DEF Ser!Close, Ser!Inv
  <2> QED
    BY <1>6, <2>1, <2>2 DEF Ser!Close
<1>7. CASE Ser!PipesSettled
  <2>1. /\ serClosing' \in [{"pipes", "port"} -> 0 .. PortCloses]
        /\ serClosing'["pipes"] + serClosing'["port"] <= PortCloses
        /\ serClosing # Ser!Nobody
    BY <1>7, ClosingCounts, LinksAssumption DEF Ser!PipesSettled, Ser!Inv
  <2>2. serStep = "idle"
        /\ UNCHANGED <<serState, serPort, serStep, serStale, serDevice, serPipes, serCall, serOpens>>
    BY <1>7, <2>1 DEF Ser!PipesSettled, Ser!Inv
  <2>3. Ser!TypeOK'
    <3>1. Ser!TypeOK
      BY DEF Ser!Inv
    <3> QED
      BY <2>1, <2>2, <3>1
  <2> QED
    BY <2>1, <2>2, <2>3 DEF Ser!Inv
<1>8. CASE Ser!PortClosed
  <2>1. /\ serClosing' \in [{"pipes", "port"} -> 0 .. PortCloses]
        /\ serClosing'["pipes"] + serClosing'["port"] <= PortCloses
        /\ serClosing # Ser!Nobody
    BY <1>8, ClosingCounts, LinksAssumption DEF Ser!PortClosed, Ser!Inv
  <2>2. serStep = "idle" /\ serDevice' = {} /\ serPort' = 0 /\ serPipes' = "none"
        /\ serState' = "closed" /\ UNCHANGED <<serStep, serStale, serCall, serOpens>>
    BY <1>8, <2>1 DEF Ser!PortClosed, Ser!Inv
  <2>3. Ser!TypeOK'
    <3>1. Ser!TypeOK
      BY DEF Ser!Inv
    <3> QED
      BY <2>1, <2>2, <3>1, LinksAssumption
  <2>4. Ser!NoPortLeftOpen' /\ (serCall' # "pending") /\ serCall' = serCall /\ serStep' = "idle"
    BY <2>2 DEF Ser!Inv
  <2> QED
    BY <2>1, <2>2, <2>3, <2>4 DEF Ser!Inv
<1>9. CASE Ser!PipeEnds
  BY <1>9 DEF Ser!PipeEnds, Ser!Inv
<1>10. CASE Ser!PipeError
  BY <1>10 DEF Ser!PipeError, Ser!Inv
<1>11. CASE Ser!Unplug
  <2>1. CASE serPort # 0 /\ serClosing = Ser!Nobody
    BY <1>11, <2>1, LinksAssumption DEF Ser!Unplug, Ser!Inv
  <2>2. CASE ~(serPort # 0 /\ serClosing = Ser!Nobody)
    <3>1. serDevice' = {} /\ UNCHANGED <<serPort, serPipes, serState, serStep, serStale, serClosing,
                                         serCall, serOpens>>
      BY <1>11, <2>2 DEF Ser!Unplug
    <3> QED
      BY <3>1 DEF Ser!Inv
  <2> QED
    BY <2>1, <2>2
<1> QED
  BY <1>1, <1>2, <1>3, <1>4, <1>5, <1>6, <1>7, <1>8, <1>9, <1>10, <1>11 DEF Ser!Next

\* Every step of it is a step of the contract, or none.
LEMMA SerialImplements ==
    ASSUME part = "ser", part' = "ser", Ser!Inv, Ser!Inv', Ser!Next
    PROVE  [Contract!Next]_(Contract!vars)
<1>1. LinkState = serState /\ LinkState' = serState' /\ LinkCall = serCall /\ LinkCall' = serCall'
  BY DEF LinkState, LinkCall
<1>2. LinkHeld = (serPort # 0 \/ serStep = "undo") /\ LinkHeld' = (serPort' # 0 \/ serStep' = "undo")
  BY DEF LinkHeld, Ser!Held
<1>3. /\ serState \in {"closed", "opening", "open", "error"}
      /\ serPort # 0 => serStep = "idle"
      /\ serStep # "idle" <=> serCall = "pending"
      /\ serState \in {"open", "opening"} => serPort # 0 \/ serStep # "idle"
      /\ serStep # "idle" => serState = IF serStale THEN "closed" ELSE "opening"
      /\ serClosing["port"] > 0 => serStep = "idle"
  BY ClosingCounts DEF Ser!Inv, Ser!TypeOK
<1>4. CASE Ser!Open
  BY <1>1, <1>2, <1>3, <1>4 DEF Ser!Open, Contract!Next, Contract!Open
<1>5. CASE Ser!PortChosen
  BY <1>1, <1>2, <1>3, <1>5 DEF Ser!PortChosen, Ser!Fail, Contract!Next, Contract!Fails, Contract!vars
<1>6. CASE Ser!PortOpened
  <2>1. serState # "closed" \/ serStale
    BY <1>3, <1>6 DEF Ser!PortOpened
  <2>2. CASE serStep' = "undo" /\ UNCHANGED <<serState, serPort, serPipes, serCall>>
    BY <1>1, <1>2, <1>3, <1>6, <2>2 DEF Ser!PortOpened, Contract!Next, Contract!Acquire
  <2>3. CASE ~serStale /\ serPort' = serOpens /\ serState' = "open" /\ serCall' = "resolved"
    BY <1>1, <1>2, <1>3, <1>6, <2>1, <2>3 DEF Ser!PortOpened, Ser!Inv, Contract!Next, Contract!Opened
  <2> QED
    BY <1>6, <2>2, <2>3 DEF Ser!PortOpened, Ser!WasClosed
<1>7. CASE Ser!Undone
  BY <1>1, <1>2, <1>3, <1>7 DEF Ser!Undone, Ser!Fail, Contract!Next, Contract!Fails
<1>8. CASE Ser!Refuse
  BY <1>1, <1>2, <1>3, <1>8 DEF Ser!Refuse, Ser!Fail, Contract!Next, Contract!Fails
<1>9. CASE Ser!Close
  BY <1>1, <1>2, <1>3, <1>9 DEF Ser!Close, Contract!Next, Contract!Close, Contract!vars
<1>10. CASE Ser!PipesSettled \/ Ser!PipeEnds
  BY <1>1, <1>2, <1>10 DEF Ser!PipesSettled, Ser!PipeEnds, Contract!vars
<1>11. CASE Ser!PortClosed
  BY <1>1, <1>2, <1>3, <1>11 DEF Ser!PortClosed, Contract!Next, Contract!Close
<1>12. CASE Ser!PipeError
  BY <1>1, <1>2, <1>12 DEF Ser!PipeError, Contract!Next, Contract!Trouble, Contract!LateError
<1>13. CASE Ser!Unplug
  BY <1>1, <1>2, <1>3, <1>13
     DEF Ser!Unplug, Contract!Next, Contract!Trouble, Contract!LateError, Contract!vars
<1> QED
  BY <1>4, <1>5, <1>6, <1>7, <1>8, <1>9, <1>10, <1>11, <1>12, <1>13 DEF Ser!Next

-----------------------------------------------------------------------------
\* A peer connection: its invariant is kept by every step.
LEMMA WebRtcKeeps == ASSUME Rtc!Inv, Rtc!Next PROVE Rtc!Inv'
<1> USE DEF Rtc!TypeOK, Rtc!SendIsSafe
<1>1. CASE Rtc!Open
  <2>1. rtcOpens' \in 0 .. PeerOpens /\ rtcByUser' = FALSE /\ rtcEnded' = FALSE
    BY <1>1, LinksAssumption DEF Rtc!Open, Rtc!Inv
  <2>2. rtcStep' \in 0 .. 7 /\ rtcStep' > 0
    BY <1>1 DEF Rtc!Open
  <2>3. Rtc!TypeOK'
    BY <1>1, <2>1, <2>2 DEF Rtc!Open
  <2> QED
    BY <1>1, <2>1, <2>2, <2>3 DEF Rtc!Open, Rtc!Inv
<1>2. ASSUME Rtc!Fail
      PROVE  Rtc!Inv'
  BY <1>2 DEF Rtc!Fail, Rtc!Teardown, Rtc!RejectChannelOpen, Rtc!DropPeer, Rtc!Inv
<1>3. CASE Rtc!Answer
  BY <1>2, <1>3 DEF Rtc!Answer, Rtc!Inv
<1>4. CASE Rtc!Refuse
  BY <1>2, <1>4 DEF Rtc!Refuse
<1>5. CASE Rtc!Close
  BY <1>5 DEF Rtc!Close, Rtc!Teardown, Rtc!RejectChannelOpen, Rtc!DropPeer, Rtc!Inv
<1>6. CASE Rtc!ChannelOpen
  BY <1>6 DEF Rtc!ChannelOpen, Rtc!Inv
<1>7. CASE Rtc!ChannelError
  BY <1>7 DEF Rtc!ChannelError, Rtc!RejectChannelOpen, Rtc!Inv
<1>8. CASE Rtc!ChannelClose
  BY <1>8 DEF Rtc!ChannelClose, Rtc!RejectChannelOpen, Rtc!Inv
<1>9. ASSUME NEW next \in {"connecting", "connected", "disconnected", "failed"},
             Rtc!PeerChange(next)
      PROVE  Rtc!Inv'
  BY <1>9 DEF Rtc!PeerChange, Rtc!ShowIfChannelOpen, Rtc!Inv
<1> QED
  BY <1>1, <1>3, <1>4, <1>5, <1>6, <1>7, <1>8, <1>9 DEF Rtc!Next

\* Every step of it is a step of the contract, or none.
LEMMA WebRtcImplements ==
    ASSUME part = "rtc", part' = "rtc", Rtc!Inv, Rtc!Inv', Rtc!Next
    PROVE  [Contract!Next]_(Contract!vars)
<1>1. LinkState = rtcState /\ LinkState' = rtcState' /\ LinkCall = rtcCall /\ LinkCall' = rtcCall'
  BY DEF LinkState, LinkCall
<1>2. LinkHeld = (rtcState # "closed") /\ LinkHeld' = (rtcState' # "closed")
  BY DEF LinkHeld, Rtc!Held, Rtc!Inv
<1>3. /\ rtcState \in {"closed", "opening", "open", "reconnecting", "error"}
      /\ rtcStep > 0 <=> rtcCall = "pending"
      /\ rtcStep > 0 /\ ~rtcByUser => rtcState # "closed"
      /\ rtcChannel # "none" <=> rtcState # "closed"
      /\ rtcPeer # "none" <=> rtcState # "closed"
      /\ rtcChannel # "none" => ~rtcByUser
  BY DEF Rtc!Inv, Rtc!TypeOK
<1>4. CASE Rtc!Open
  BY <1>1, <1>2, <1>3, <1>4 DEF Rtc!Open, Contract!Next, Contract!Open
<1>5. ASSUME Rtc!Fail, rtcStep > 0
      PROVE  Contract!Fails
  BY <1>1, <1>2, <1>3, <1>5 DEF Rtc!Fail, Contract!Fails
<1>6. CASE Rtc!Answer
  BY <1>1, <1>2, <1>3, <1>5, <1>6 DEF Rtc!Answer, Contract!Next, Contract!Resolved, Contract!vars
<1>7. CASE Rtc!Refuse
  BY <1>5, <1>7 DEF Rtc!Refuse, Contract!Next
<1>8. CASE Rtc!Close
  BY <1>1, <1>2, <1>8 DEF Rtc!Close, Contract!Next, Contract!Close
<1>9. CASE Rtc!ChannelOpen
  BY <1>1, <1>2, <1>3, <1>9 DEF Rtc!ChannelOpen, Contract!Next, Contract!Opened, Contract!vars
<1>10. CASE Rtc!ChannelError
  BY <1>1, <1>2, <1>3, <1>10 DEF Rtc!ChannelError, Contract!Next, Contract!Trouble
<1>11. CASE Rtc!ChannelClose
  BY <1>1, <1>2, <1>3, <1>11 DEF Rtc!ChannelClose, Contract!Next, Contract!Trouble, Contract!vars
<1>12. ASSUME NEW next \in {"connecting", "connected", "disconnected", "failed"},
              Rtc!PeerChange(next)
       PROVE  [Contract!Next]_(Contract!vars)
  <2>1. rtcCall' = rtcCall /\ rtcState # "closed"
        /\ rtcState' \in {rtcState, "open", "reconnecting", "error"}
    BY <1>3, <1>12 DEF Rtc!PeerChange, Rtc!ShowIfChannelOpen
  <2> QED
    BY <1>1, <1>2, <2>1 DEF Contract!Next, Contract!Opened, Contract!Trouble, Contract!vars
<1> QED
  BY <1>4, <1>6, <1>7, <1>8, <1>9, <1>10, <1>11, <1>12 DEF Rtc!Next

-----------------------------------------------------------------------------
\* A Bluetooth device: the calls of open() under way before and after a step.
LEMMA BluetoothKeeps == ASSUME Bt!Inv, Bt!Next PROVE Bt!Inv'
<1> USE DEF Bt!TypeOK, Bt!NothingLeftConnected, Bt!OpenHasDevice, Bt!Opens
<1>1. ASSUME NEW o \in Bt!Opens, Bt!Open(o)
      PROVE  Bt!Inv'
  <2>1. Bt!Pending = {} /\ btConn = 0 /\ btGatt = {} /\ btNotifying = {}
        /\ \A p \in Bt!Opens : btClosing[p] = 0
    BY <1>1 DEF Bt!Open, Bt!Busy, Bt!Inv
  <2>2. btStep' \in [Bt!Opens -> 0 .. 7] /\ Bt!Pending' = {o}
    BY <1>1, <2>1 DEF Bt!Open, Bt!Pending, Bt!Inv
  <2>3. \A p, q \in Bt!Opens : p < q /\ btStep'[q] > 0 => btStep'[p] = 7
    BY <1>1, <2>1 DEF Bt!Open, Bt!Pending, Bt!Inv
  <2>4. \A p \in btStale' : btStep'[p] > 0
    BY <1>1 DEF Bt!Open, Bt!Inv
  <2> QED
    BY <1>1, <2>1, <2>2, <2>3, <2>4 DEF Bt!Open, Bt!Inv
<1>2. ASSUME NEW o \in Bt!Pending, NEW shown \in {"closed", "error"}, Bt!Fail(o, shown)
      PROVE  Bt!Inv'
  <2>1. Bt!Pending = {o} /\ o \in Bt!Opens /\ btConn = 0 /\ btNotifying = {} /\ btGatt \subseteq {o}
        /\ \A p \in Bt!Opens : btClosing[p] = 0
    BY <1>2 DEF Bt!Pending, Bt!Inv
  <2>2. btStep' \in [Bt!Opens -> 0 .. 7] /\ Bt!Pending' = {}
    BY <1>2, <2>1 DEF Bt!Fail, Bt!Pending, Bt!Inv
  <2>3. \A p, q \in Bt!Opens : p < q /\ btStep'[q] > 0 => btStep'[p] = 7
    BY <1>2, <2>1 DEF Bt!Fail, Bt!Pending, Bt!Inv
  <2>4. \A p \in btStale' : btStep'[p] > 0
    BY <1>2 DEF Bt!Fail, Bt!Inv
  <2>5. btCall' = "rejected"
    BY <1>2, <2>1 DEF Bt!Fail, Bt!Pending, Bt!Inv
  <2> QED
    BY <1>2, <2>1, <2>2, <2>3, <2>4, <2>5 DEF Bt!Fail, Bt!Disconnect, Bt!Inv
<1>3. ASSUME NEW o \in Bt!Opens, Bt!Answer(o)
      PROVE  Bt!Inv'
  <2>1. CASE o \in btStale
    BY <1>2, <1>3, <2>1 DEF Bt!Answer
  <2>2. CASE o \notin btStale
    <3>1. Bt!Pending = {o} /\ btConn = 0 /\ btNotifying = {} /\ btGatt \subseteq {o}
          /\ \A p \in Bt!Opens : btClosing[p] = 0
      BY <1>3 DEF Bt!Answer, Bt!Pending, Bt!Inv
    <3>2. btStep' = [btStep EXCEPT ![o] = @ + 1] /\ btStep[o] \in 1 .. 6 /\ btGatt' \subseteq {o}
          /\ UNCHANGED <<btStale, btClosing, btCloses, btWriting>>
      BY <1>3, <2>2, <3>1 DEF Bt!Answer, Bt!Pending
    <3>3. btStep' \in [Bt!Opens -> 0 .. 7] /\ btStep'[o] = btStep[o] + 1
          /\ \A p \in Bt!Opens \ {o} : btStep'[p] = btStep[p]
      BY <3>2 DEF Bt!Inv
    <3>4. \A p, q \in Bt!Opens : p < q /\ btStep'[q] > 0 => btStep'[p] = 7
      BY <3>1, <3>2, <3>3 DEF Bt!Pending, Bt!Inv
    <3>5. \A p \in btStale' : btStep'[p] > 0
      BY <3>2, <3>3 DEF Bt!Inv
    <3>6. CASE btStep[o] < 6
      <4>1. Bt!Pending' = {o} /\ UNCHANGED <<btState, btConn, btNotifying, btCall>>
        BY <1>3, <2>2, <3>1, <3>2, <3>3, <3>6 DEF Bt!Answer, Bt!Pending
      <4> QED
        BY <3>1, <3>2, <3>3, <3>4, <3>5, <4>1 DEF Bt!Inv
    <3>7. CASE btStep[o] = 6
      <4>1. Bt!Pending' = {} /\ btState' = "open" /\ btConn' = o /\ btNotifying' = {o}
            /\ btCall' = "resolved"
        BY <1>3, <2>2, <3>1, <3>2, <3>3, <3>7 DEF Bt!Answer, Bt!Pending
      <4> QED
        BY <3>1, <3>2, <3>3, <3>4, <3>5, <4>1 DEF Bt!Inv
    <3> QED
      BY <3>2, <3>6, <3>7
  <2> QED
    BY <2>1, <2>2
<1>4. ASSUME NEW o \in Bt!Opens, Bt!Refuse(o)
      PROVE  Bt!Inv'
  BY <1>2, <1>4 DEF Bt!Refuse
<1>5. CASE UNCHANGED btStep
  <2>1. Bt!Pending' = Bt!Pending
    BY <1>5 DEF Bt!Pending
  <2>2. ASSUME Bt!Close
        PROVE  Bt!Inv'
    <3>1. Bt!Pending \subseteq Bt!Opens /\ \A o \in Bt!Pending : btStep[o] > 0
      BY DEF Bt!Pending
    <3>2. CASE btConn = 0 /\ btState' = "closed" /\ UNCHANGED <<btNotifying, btClosing>>
      BY <1>5, <2>1, <2>2, <3>1, <3>2, LinksAssumption DEF Bt!Close, Bt!Inv
    <3>3. CASE /\ btConn # 0 /\ btNotifying' = btNotifying \ {btConn} /\ UNCHANGED btState
               /\ btClosing' = [btClosing EXCEPT ![btConn] = @ + 1]
      <4>1. btConn \in Bt!Opens /\ Bt!Pending = {} /\ btNotifying' = {} /\ btCloses' = btCloses + 1
            /\ btCloses' \in 0 .. BluetoothCloses /\ btStale' = btStale
            /\ UNCHANGED <<btConn, btStep, btGatt, btWriting, btCall>>
        BY <2>2, <3>3, LinksAssumption DEF Bt!Close, Bt!Inv
      <4>2. /\ btClosing' \in [Bt!Opens -> 0 .. BluetoothCloses]
            /\ \A o \in Bt!Opens : btClosing'[o] <= btCloses'
            /\ \A o \in Bt!Opens : btClosing'[o] > 0 => o = btConn \/ btClosing[o] > 0
        BY <3>3, <4>1, LinksAssumption DEF Bt!Inv
      <4> QED
        BY <2>1, <3>3, <4>1, <4>2 DEF Bt!Inv
    <3> QED
      BY <2>2, <3>2, <3>3 DEF Bt!Close
  <2>3. ASSUME NEW o \in Bt!Opens, Bt!CloseDone(o)
        PROVE  Bt!Inv'
    <3>1. btGatt' = {} /\ btConn' = 0 /\ btState' = "closed" /\ btNotifying = {} /\ Bt!Pending = {}
          /\ UNCHANGED <<btStep, btStale, btNotifying, btCloses, btWriting, btCall>>
      BY <2>3 DEF Bt!CloseDone, Bt!Inv
    <3>2. /\ btClosing' \in [Bt!Opens -> 0 .. BluetoothCloses]
          /\ \A p \in Bt!Opens : btClosing'[p] <= btCloses
      BY <2>3, LinksAssumption DEF Bt!CloseDone, Bt!Inv
    <3>3. 0 \in 0 .. BluetoothOpens
      BY LinksAssumption
    <3> QED
      BY <2>1, <3>1, <3>2, <3>3 DEF Bt!Inv
  <2>4. ASSUME NEW o \in Bt!Opens, Bt!GattDisconnect(o)
        PROVE  Bt!Inv'
    <3>1. CASE btConn = o /\ o \in btNotifying
      <4>1. btGatt' = {} /\ btConn' = 0 /\ btState' = "error" /\ btNotifying' = {} /\ Bt!Pending = {}
            /\ UNCHANGED <<btStep, btStale, btClosing, btCloses, btWriting, btCall>>
        BY <2>4, <3>1 DEF Bt!GattDisconnect, Bt!Inv
      <4>2. 0 \in 0 .. BluetoothOpens
        BY LinksAssumption
      <4> QED
        BY <2>1, <4>1, <4>2 DEF Bt!Inv
    <3>2. CASE ~(btConn = o /\ o \in btNotifying)
      BY <2>1, <2>4, <3>2 DEF Bt!GattDisconnect, Bt!Inv
    <3> QED
      BY <3>1, <3>2
  <2>5. ASSUME Bt!Write
        PROVE  Bt!Inv'
    BY <1>5, <2>1, <2>5 DEF Bt!Write, Bt!Inv
  <2>6. ASSUME NEW o \in Bt!Opens, Bt!WriteFails(o)
        PROVE  Bt!Inv'
    BY <1>5, <2>1, <2>6 DEF Bt!WriteFails, Bt!Inv
  <2> QED
    BY <1>1, <1>3, <1>4, <2>2, <2>3, <2>4, <2>5, <2>6 DEF Bt!Next
<1> QED
  BY <1>1, <1>3, <1>4, <1>5 DEF Bt!Next, Bt!Close, Bt!CloseDone, Bt!GattDisconnect, Bt!Write,
                                Bt!WriteFails

\* Every step of it is a step of the contract, or none.
LEMMA BluetoothImplements ==
    ASSUME part = "bt", part' = "bt", Bt!Inv, Bt!Inv', Bt!Next
    PROVE  [Contract!Next]_(Contract!vars)
<1>1. LinkState = btState /\ LinkState' = btState' /\ LinkCall = btCall /\ LinkCall' = btCall'
  BY DEF LinkState, LinkCall
<1>2. LinkHeld = Bt!Held /\ LinkHeld' = Bt!Held'
  BY DEF LinkHeld, Bt!Held
<1>3. /\ btState \in {"closed", "opening", "open", "error"}
      /\ btCall = "pending" <=> Bt!Pending # {}
      /\ btCall' = "pending" <=> Bt!Pending' # {}
      /\ btState = "open" => btConn # 0
      /\ btConn # 0 => Bt!Pending = {}
      /\ Bt!Pending \subseteq btStale \/ btState # "closed"
  BY DEF Bt!Inv, Bt!TypeOK, Bt!OpenHasDevice
<1>4. ASSUME NEW o \in Bt!Opens, Bt!Open(o)
      PROVE  Contract!Open
  <2>1. Bt!Pending = {} /\ ~Bt!Held
    BY <1>4 DEF Bt!Open, Bt!Busy, Bt!Held
  <2> QED
    BY <1>1, <1>2, <1>3, <1>4, <2>1 DEF Bt!Open, Bt!Held, Contract!Open
<1>5. ASSUME NEW o \in Bt!Pending, NEW shown \in {"closed", "error"}, Bt!Fail(o, shown)
      PROVE  Contract!Fails
  <2>1. Bt!Pending = {o} /\ o \in Bt!Opens
    <3>1. ASSUME NEW p \in Bt!Pending
          PROVE  p = o
      <4>1. ~(o < p) /\ ~(p < o) /\ o \in Bt!Opens /\ p \in Bt!Opens
        BY DEF Bt!Pending, Bt!Inv
      <4>2. o \in Int /\ p \in Int
        BY <4>1 DEF Bt!Opens
      <4> QED
        BY <4>1, <4>2
    <3>2. o \in Bt!Opens
      BY DEF Bt!Pending
    <3> QED
      BY <3>1, <3>2
  <2>2. Bt!Pending' = {}
    BY <1>5, <2>1 DEF Bt!Fail, Bt!Pending, Bt!Inv, Bt!TypeOK
  <2>3. btCall' = "rejected" /\ ~Bt!Held' /\ btCall = "pending" /\ btState' = shown
    BY <1>3, <1>5, <2>1, <2>2 DEF Bt!Fail, Bt!Held
  <2> QED
    BY <1>1, <1>2, <2>3 DEF Contract!Fails
<1>6. ASSUME NEW o \in Bt!Opens, Bt!Answer(o)
      PROVE  [Contract!Next]_(Contract!vars)
  <2>1. o \in Bt!Pending /\ btCall = "pending"
    BY <1>3, <1>6 DEF Bt!Answer
  <2>2. CASE o \in btStale
    BY <1>5, <1>6, <2>1, <2>2 DEF Bt!Answer, Contract!Next
  <2>3. CASE o \notin btStale /\ btStep[o] < 6
    <3>1. UNCHANGED <<btState, btConn, btCall>>
      BY <1>6, <2>3 DEF Bt!Answer
    <3>2. Bt!Held => Bt!Held'
      <4>1. btStep' = [btStep EXCEPT ![o] = @ + 1] /\ btStep[o] \in 1 .. 5
        BY <1>6, <2>3 DEF Bt!Answer, Bt!Pending
      <4>2. \A p \in Bt!Pending : p \in Bt!Pending' /\ btStep'[p] >= btStep[p]
        BY <4>1 DEF Bt!Pending, Bt!Inv, Bt!TypeOK
      <4>3. \A p \in Bt!Pending : btStep[p] \in Nat /\ btStep'[p] \in Nat
        BY DEF Bt!Pending, Bt!Inv, Bt!TypeOK
      <4> QED
        BY <3>1, <4>2, <4>3 DEF Bt!Held
    <3>3. Bt!Held \in BOOLEAN /\ Bt!Held' \in BOOLEAN
      BY DEF Bt!Held
    <3> QED
      BY <1>1, <1>2, <2>1, <3>1, <3>2, <3>3 DEF Contract!Next, Contract!Acquire, Contract!vars
  <2>4. CASE o \notin btStale /\ ~(btStep[o] < 6)
    <3>1. btState' = "open" /\ btCall' = "resolved" /\ btConn' = o /\ o # 0
      BY <1>6, <2>4 DEF Bt!Answer, Bt!Opens
    <3>2. Bt!Held' /\ btState # "closed"
      BY <1>3, <2>1, <2>4, <3>1 DEF Bt!Held
    <3> QED
      BY <1>1, <1>2, <2>1, <3>1, <3>2 DEF Contract!Next, Contract!Opened
  <2> QED
    BY <2>2, <2>3, <2>4
<1>7. ASSUME NEW o \in Bt!Opens, Bt!Refuse(o)
      PROVE  Contract!Fails
  BY <1>5, <1>7 DEF Bt!Refuse
<1>8. ASSUME UNCHANGED <<btStep, btCall, btConn>>
      PROVE  Bt!Pending' = Bt!Pending /\ LinkHeld' = LinkHeld
  BY <1>2, <1>8 DEF Bt!Pending, Bt!Held
<1>9. CASE Bt!Close
  BY <1>1, <1>2, <1>3, <1>8, <1>9 DEF Bt!Close, Bt!Held, Contract!Next, Contract!Close, Contract!vars
<1>10. CASE Bt!Write
  BY <1>1, <1>8, <1>10 DEF Bt!Write, Contract!vars
<1>11. ASSUME NEW o \in Bt!Opens, Bt!CloseDone(o)
       PROVE  Contract!Close
  <2>1. Bt!Pending = {} /\ Bt!Pending' = {} /\ btConn' = 0
    BY <1>11 DEF Bt!CloseDone, Bt!Pending, Bt!Inv
  <2> QED
    BY <1>1, <1>2, <1>11, <2>1 DEF Bt!CloseDone, Bt!Held, Contract!Close
<1>12. ASSUME NEW o \in Bt!Opens, Bt!GattDisconnect(o)
       PROVE  [Contract!Next]_(Contract!vars)
  <2>1. CASE btConn = o /\ o \in btNotifying
    <3>1. Bt!Pending = {} /\ Bt!Pending' = {} /\ btConn' = 0 /\ btState' = "error" /\ btCall' = btCall
      BY <1>3, <1>12, <2>1 DEF Bt!GattDisconnect, Bt!Pending, Bt!Opens
    <3> QED
      BY <1>1, <1>2, <3>1 DEF Bt!Held, Contract!Next, Contract!Trouble, Contract!LateError
  <2>2. CASE ~(btConn = o /\ o \in btNotifying)
    BY <1>1, <1>8, <1>12, <2>2 DEF Bt!GattDisconnect, Contract!vars
  <2> QED
    BY <2>1, <2>2
<1>13. ASSUME NEW o \in Bt!Opens, Bt!WriteFails(o)
       PROVE  Contract!Trouble \/ Contract!LateError
  BY <1>1, <1>8, <1>13 DEF Bt!WriteFails, Contract!Trouble, Contract!LateError
<1> QED
  BY <1>4, <1>6, <1>7, <1>9, <1>10, <1>11, <1>12, <1>13 DEF Bt!Next, Contract!Next

-----------------------------------------------------------------------------
\* What scheduleNext of a replay leaves behind where no timer was left.
LEMMA ReplayScheduled ==
    ASSUME Rep!Inv, repEnded = FALSE, repPaused' \in BOOLEAN,
           NEW log \in Seq(Nat \ {0}), NEW i \in 0 .. Len(log), NEW t \in Nat,
           repFrames' = log, Rep!ScheduleNext(i, t, 0)
    PROVE  /\ repTimers' \in 0 .. 1 /\ repDue' \in Nat
           /\ repClosed' \in BOOLEAN /\ repEnded' \in BOOLEAN
           /\ repTimers' = IF repClosed' \/ repPaused' THEN 0 ELSE 1
           /\ repTimers' = 1 =>
                /\ i < Len(log)
                /\ repDue' = IF t = 0 \/ log[i + 1] < t THEN 0 ELSE log[i + 1] - t
           /\ repEnded' => repClosed'
<1>1. repClosed \in BOOLEAN /\ repEnded \in BOOLEAN /\ repDue \in Nat
  BY DEF Rep!Inv, Rep!Timed
<1>2. Len(log) \in Nat /\ i \in Nat
  OBVIOUS
<1>3. CASE repPaused'
  BY <1>1, <1>3 DEF Rep!ScheduleNext
<1>4. CASE ~repPaused' /\ i >= Len(log)
  BY <1>1, <1>4 DEF Rep!ScheduleNext, Rep!EndOfStream
<1>5. CASE ~repPaused' /\ i < Len(log)
  <2>1. i + 1 \in 1 .. Len(log)
    BY <1>2, <1>5
  <2>2. log[i + 1] \in Nat
    BY <2>1
  <2>3. repTimers' = 1 /\ repDue' = Rep!Gap(t, i) /\ repEnded' = FALSE /\ repClosed' = FALSE
    BY <1>2, <1>5 DEF Rep!ScheduleNext
  <2>4. repDue' = IF t = 0 \/ log[i + 1] < t THEN 0 ELSE log[i + 1] - t
    BY <2>3 DEF Rep!Gap
  <2>5. repDue' \in Nat
    BY <2>2, <2>4
  <2>6. /\ repTimers' = IF repClosed' \/ repPaused' THEN 0 ELSE 1
        /\ repClosed' \in BOOLEAN /\ repEnded' \in BOOLEAN /\ ~repEnded'
    BY <1>5, <2>3
  <2>7. repTimers' \in 0 .. 1
    BY <2>3
  <2> QED
    BY <1>5, <2>4, <2>5, <2>6, <2>7
<1> QED
  BY <1>2, <1>3, <1>4, <1>5

\* A set of numbers that is not empty has a least one.
LEMMA LeastNatural ==
    ASSUME NEW S \in SUBSET Nat, S # {}
    PROVE  \E m \in S : \A n \in S : m <= n
<1> DEFINE R == {p \in Nat \X Nat : p[1] < p[2]}
<1>1. IsWellFoundedOn(R, Nat)
  BY NatLessThanWellFounded DEF OpToRel
<1> HIDE DEF R
<1>2. PICK m \in S : \A n \in S : <<n, m>> \notin R
  BY <1>1, WFMin
<1>3. \A n \in S : ~ (n < m)
  BY <1>2 DEF R
<1> QED
  BY <1>3

\* Scheduling the next frame sets the timer that the place in the log calls for.
LEMMA ReplayGoesOn ==
    ASSUME Rep!Inv, repEnded = FALSE, repPaused' \in BOOLEAN, Rep!Follows',
           Rep!ScheduleNext(repIndex', repLast', 0)
    PROVE  Rep!Inv'
<1>1. repFrames' \in Seq(Nat \ {0}) /\ repIndex' \in 0 .. Len(repFrames') /\ repLast' \in Nat
  BY DEF Rep!Follows
<1> DEFINE log == repFrames'
           i == repIndex'
           t == repLast'
<1>2. /\ repTimers' \in 0 .. 1 /\ repDue' \in Nat
      /\ repClosed' \in BOOLEAN /\ repEnded' \in BOOLEAN
      /\ repTimers' = IF repClosed' \/ repPaused' THEN 0 ELSE 1
      /\ repTimers' = 1 =>
           /\ i < Len(log)
           /\ repDue' = IF t = 0 \/ log[i + 1] < t THEN 0 ELSE log[i + 1] - t
      /\ repEnded' => repClosed'
  <2> HIDE DEF log, i, t
  <2> QED
    BY <1>1, ReplayScheduled DEF log, i, t
<1> QED
  BY <1>2 DEF Rep!Inv, Rep!Timed

\* A frame that is emitted is the next one of the log.
LEMMA ReplayEmits ==
    ASSUME Rep!Follows, Rep!Emit, repIndex < Len(repFrames), UNCHANGED <<repFrames, repSeeks>>
    PROVE  /\ Rep!Follows'
           /\ repIndex' = repIndex + 1 /\ repLast' = repFrames[repIndex + 1]
<1>1. /\ repFrames \in Seq(Nat \ {0}) /\ Len(repFrames) \in Nat /\ repIndex \in Nat
      /\ repHeard \in Seq(1 .. Len(repFrames)) /\ Len(repHeard) \in Nat
      /\ Len(repHeard) <= repIndex
      /\ \A i \in 1 .. Len(repHeard) : repHeard[i] = repIndex - Len(repHeard) + i
  BY DEF Rep!Follows
<1>2. repIndex' = repIndex + 1 /\ repIndex + 1 \in 1 .. Len(repFrames)
  BY <1>1 DEF Rep!Emit
<1>3. repLast' = repFrames[repIndex + 1] /\ repLast' \in Nat
  BY <1>1, <1>2 DEF Rep!Emit
<1>4. repHeard' = Append(repHeard, repIndex + 1)
  BY DEF Rep!Emit, Rep!Enqueue
<1>5. /\ repHeard' \in Seq(1 .. Len(repFrames)) /\ Len(repHeard') = Len(repHeard) + 1
      /\ repHeard' # <<>>
      /\ \A i \in 1 .. Len(repHeard) : repHeard'[i] = repHeard[i]
      /\ repHeard'[Len(repHeard) + 1] = repIndex + 1
  <2>1. \A s \in Seq(1 .. Len(repFrames)), e \in 1 .. Len(repFrames) :
          /\ Append(s, e) \in Seq(1 .. Len(repFrames)) /\ Len(Append(s, e)) = Len(s) + 1
          /\ \A i \in 1 .. Len(s) : Append(s, e)[i] = s[i]
          /\ Append(s, e)[Len(s) + 1] = e
    OBVIOUS
  <2>2. /\ repHeard' \in Seq(1 .. Len(repFrames)) /\ Len(repHeard') = Len(repHeard) + 1
        /\ \A i \in 1 .. Len(repHeard) : repHeard'[i] = repHeard[i]
        /\ repHeard'[Len(repHeard) + 1] = repIndex + 1
    BY <1>1, <1>2, <1>4, <2>1
  <2>3. repHeard' # <<>>
    BY <1>1, <2>2
  <2> QED
    BY <2>2, <2>3
<1>6. ASSUME NEW i \in 1 .. Len(repHeard')
      PROVE  repHeard'[i] = repIndex' - Len(repHeard') + i
  <2>1. CASE i \in 1 .. Len(repHeard)
    <3>1. repHeard'[i] = repIndex - Len(repHeard) + i
      BY <1>1, <1>5, <2>1
    <3> QED
      BY <1>1, <1>2, <1>5, <2>1, <3>1
  <2>2. CASE i = Len(repHeard) + 1
    BY <1>1, <1>2, <1>5, <2>2
  <2> QED
    BY <1>1, <1>5, <2>1, <2>2
<1>7. Len(repHeard') <= repIndex' /\ repIndex' \in 0 .. Len(repFrames')
      /\ repLast' = IF repHeard' = <<>> THEN 0 ELSE repFrames'[repIndex']
  BY <1>1, <1>2, <1>3, <1>5
<1> QED
  BY <1>2, <1>3, <1>5, <1>6, <1>7 DEF Rep!Follows

\* Where seek() takes a replay: a place of the log, or its end.
LEMMA ReplaySeeks ==
    ASSUME repFrames \in Seq(Nat \ {0}), NEW time \in Nat
    PROVE  Rep!SeekIndex(time) \in 0 .. Len(repFrames)
<1>1. CASE \A i \in 1 .. Len(repFrames) : repFrames[i] < time
  BY <1>1 DEF Rep!SeekIndex
<1>2. CASE ~ \A i \in 1 .. Len(repFrames) : repFrames[i] < time
  <2> DEFINE Late == {i \in 1 .. Len(repFrames) : repFrames[i] >= time}
             First(i) == repFrames[i] >= time /\ \A j \in 1 .. (i - 1) : repFrames[j] < time
  <2>1. Len(repFrames) \in Nat /\ \A i \in 1 .. Len(repFrames) : repFrames[i] \in Nat
    OBVIOUS
  <2>2. PICK k \in 1 .. Len(repFrames) : ~ (repFrames[k] < time)
    BY <1>2
  <2>3. repFrames[k] >= time
    BY <2>1, <2>2
  <2>4. Late \in SUBSET Nat /\ Late # {}
    BY <2>1, <2>3
  <2>5. PICK m \in Late : \A n \in Late : m <= n
    BY <2>4, LeastNatural
  <2>6. m \in 1 .. Len(repFrames) /\ First(m)
    BY <2>1, <2>5
  <2> DEFINE place == CHOOSE i \in 1 .. Len(repFrames) : First(i)
  <2>7. place \in 1 .. Len(repFrames)
    BY <2>6
  <2>8. Rep!SeekIndex(time) = place - 1
    BY <1>2 DEF Rep!SeekIndex
  <2> HIDE DEF First, place
  <2> QED
    BY <2>1, <2>7, <2>8
<1> QED
  BY <1>1, <1>2

\* A replay: its invariant is kept by every step.
LEMMA ReplayKeeps == ASSUME Rep!Inv, Rep!Next PROVE Rep!Inv'
<1>1. /\ Rep!Follows /\ repFrames \in Seq(Nat \ {0}) /\ Len(repFrames) \in Nat
      /\ repIndex \in 0 .. Len(repFrames) /\ repSeeks \in 0 .. MaxSeeks
      /\ repDue \in Nat /\ repPaused \in BOOLEAN /\ repClosed \in BOOLEAN /\ repEnded \in BOOLEAN
  BY DEF Rep!Inv, Rep!Follows, Rep!Timed
<1>2. UNCHANGED <<repFrames, repIndex, repLast, repHeard, repSeeks>> => Rep!Follows'
  BY <1>1 DEF Rep!Follows
<1>3. /\ repTimers \in {0, 1} /\ Rep!Cleared = 0
      /\ repClosed \/ repPaused => repTimers = 0
      /\ ~repClosed => repEnded = FALSE
      /\ repTimers = 1 => ~repClosed /\ ~repPaused /\ repEnded = FALSE /\ repIndex < Len(repFrames)
  BY DEF Rep!Inv, Rep!Timed, Rep!Cleared
<1>4. ASSUME NEW log \in Tlogs, Rep!Open(log)
      PROVE  Rep!Inv'
  <2>1. log \in Seq(Nat \ {0}) /\ repFrames' = log /\ Len(log) \in Nat
    BY <1>4, LinksAssumption DEF Rep!Open
  <2>2. /\ repIndex' = 0 /\ repLast' = 0 /\ repHeard' = <<>> /\ repPaused' = FALSE
        /\ repSeeks' = repSeeks /\ repEnded = FALSE /\ Rep!ScheduleNext(0, 0, 0)
    BY <1>1, <1>3, <1>4 DEF Rep!Open
  <2>3. <<>> \in Seq(1 .. Len(log)) /\ Len(<<>>) = 0
    OBVIOUS
  <2>4. Rep!Follows'
    BY <1>1, <2>1, <2>2, <2>3 DEF Rep!Follows
  <2>5. Rep!ScheduleNext(repIndex', repLast', 0)
    BY <2>2
  <2> QED
    BY <2>2, <2>4, <2>5, ReplayGoesOn
\* The stream ends, or the replay is paused: no timer is left.
<1>5. ASSUME Rep!Follows', repTimers' = 0, repPaused' \in BOOLEAN, repDue' = repDue,
             repEnded' \in BOOLEAN, repClosed' \in BOOLEAN, repClosed' \/ repPaused',
             repEnded' => repClosed'
      PROVE  Rep!Inv'
  BY <1>1, <1>5 DEF Rep!Inv, Rep!Timed
<1>6. CASE Rep!Close
  BY <1>1, <1>2, <1>3, <1>5, <1>6 DEF Rep!Close, Rep!EndOfStream
<1>7. CASE Rep!Pause
  BY <1>1, <1>2, <1>3, <1>5, <1>7 DEF Rep!Pause
<1>8. CASE Rep!SetSpeed \/ Rep!Resume
  <2>1. /\ repEnded = FALSE /\ repPaused' \in BOOLEAN
        /\ UNCHANGED <<repFrames, repIndex, repLast, repHeard, repSeeks>>
    BY <1>1, <1>3, <1>8 DEF Rep!SetSpeed, Rep!Resume
  <2>2. Rep!ScheduleNext(repIndex', repLast', 0)
    BY <1>3, <1>8, <2>1 DEF Rep!SetSpeed, Rep!Resume
  <2> QED
    BY <1>2, <2>1, <2>2, ReplayGoesOn
<1>9. CASE Rep!Step
  <2>1. ~repClosed /\ repEnded = FALSE /\ repPaused' = TRUE /\ UNCHANGED <<repFrames, repSeeks>>
    BY <1>3, <1>9 DEF Rep!Step
  <2>2. Rep!StepTimer = 0
    BY <1>3 DEF Rep!StepTimer
  <2>3. /\ repTimers' = 0 /\ repDue' = repDue
        /\ \/ repClosed' = repClosed /\ repEnded' = repEnded
           \/ repClosed' = TRUE /\ repEnded' = TRUE
    BY <1>9, <2>2 DEF Rep!Step, Rep!EndOfStream
  <2>4. Rep!Follows'
    <3>1. CASE UNCHANGED <<repIndex, repLast, repHeard>>
      BY <1>2, <2>1, <3>1
    <3>2. CASE repIndex < Len(repFrames) /\ Rep!Emit
      BY <1>1, <2>1, <3>2, ReplayEmits
    <3> QED
      BY <1>9, <3>1, <3>2 DEF Rep!Step
  <2>5. repPaused' \in BOOLEAN /\ repEnded' \in BOOLEAN /\ repClosed' \in BOOLEAN
        /\ (repEnded' => repClosed') /\ (repClosed' \/ repPaused')
    BY <1>1, <2>1, <2>3
  <2> QED
    BY <1>5, <2>3, <2>4, <2>5
<1>10. CASE Rep!Fire
  <2>1. repTimers = 1 /\ ~repClosed /\ ~repPaused /\ repEnded = FALSE /\ repIndex < Len(repFrames)
    BY <1>1, <1>3, <1>10 DEF Rep!Fire
  <2>2. Rep!Emit /\ UNCHANGED <<repFrames, repPaused, repSeeks>>
        /\ Rep!ScheduleNext(repIndex + 1, repFrames[repIndex + 1], 0)
    BY <1>10, <2>1 DEF Rep!Fire
  <2>3. Rep!Follows' /\ repIndex' = repIndex + 1 /\ repLast' = repFrames[repIndex + 1]
    BY <1>1, <2>1, <2>2, ReplayEmits
  <2>4. Rep!ScheduleNext(repIndex', repLast', 0)
    BY <2>2, <2>3
  <2> QED
    BY <1>1, <2>1, <2>2, <2>3, <2>4, ReplayGoesOn
<1>11. ASSUME NEW time \in {repFrames[i] : i \in 1 .. Len(repFrames)}, Rep!Seek(time)
       PROVE  Rep!Inv'
  <2>1. Rep!SeekIndex(time) \in 0 .. Len(repFrames)
    <3>1. time \in Nat
      BY <1>1
    <3> QED
      BY <1>1, <3>1, ReplaySeeks
  <2>2. /\ repEnded = FALSE /\ repPaused' = repPaused /\ repFrames' = repFrames
        /\ repIndex' = Rep!SeekIndex(time) /\ repLast' = 0 /\ repHeard' = <<>>
        /\ Rep!ScheduleNext(Rep!SeekIndex(time), 0, 0)
    BY <1>3, <1>11 DEF Rep!Seek
  <2>3. repSeeks' \in 0 .. MaxSeeks
    BY <1>1, <1>11, LinksAssumption DEF Rep!Seek
  <2>4. <<>> \in Seq(1 .. Len(repFrames)) /\ Len(<<>>) = 0
    OBVIOUS
  <2>5. Rep!Follows'
    BY <1>1, <2>1, <2>2, <2>3, <2>4 DEF Rep!Follows
  <2>6. Rep!ScheduleNext(repIndex', repLast', 0)
    BY <2>2
  <2> QED
    BY <1>1, <2>2, <2>5, <2>6, ReplayGoesOn
<1> QED
  BY <1>4, <1>6, <1>7, <1>8, <1>9, <1>10, <1>11 DEF Rep!Next

\* Its gap is the one the log recorded: no frame has the time that stands for none.
LEMMA ReplayIsHonest == ASSUME Rep!Inv PROVE Rep!OneTimer /\ Rep!HeardInOrder
<1>1. /\ repFrames \in Seq(Nat \ {0}) /\ repHeard \in Seq(1 .. Len(repFrames))
      /\ repIndex \in 0 .. Len(repFrames) /\ Len(repHeard) <= repIndex
  BY DEF Rep!Inv, Rep!Follows
<1>2. ASSUME repHeard # <<>>
      PROVE  repLast # 0 /\ repLast = repFrames[repIndex]
  <2>1. Len(repHeard) \in Nat \ {0}
    BY <1>1, <1>2
  <2>2. repIndex \in 1 .. Len(repFrames)
    BY <1>1, <2>1
  <2>3. repFrames[repIndex] \in Nat \ {0}
    BY <1>1, <2>2
  <2> QED
    BY <1>2, <2>3 DEF Rep!Inv, Rep!Follows
<1>3. repHeard = <<>> => repLast = 0
  BY DEF Rep!Inv, Rep!Follows
<1>4. Rep!OneTimer
  BY <1>2, <1>3 DEF Rep!Inv, Rep!Timed, Rep!OneTimer
<1>5. Rep!HeardInOrder
  BY DEF Rep!Inv, Rep!Follows, Rep!Timed, Rep!HeardInOrder
<1> QED
  BY <1>4, <1>5

-----------------------------------------------------------------------------
\* The invariants of the links and of a replay, together.
LinksInv == Ws!Inv /\ Bt!Inv /\ Rtc!Inv /\ Ser!Inv /\ Rep!Inv

\* They hold where a transport is created.
LEMMA LinksBegin == Init => LinksInv
<1> SUFFICES ASSUME Init PROVE LinksInv
  OBVIOUS
<1> USE LinksAssumption
<1>1. Ws!Inv
  <2>1. Ws!Init /\ 0 \in 0 .. Saturation
    BY DEF Init
  <2>2. Ws!None \in [phase : {"none", "connecting", "open", "failing"}, initial : BOOLEAN,
                     opened : BOOLEAN]
    BY DEF Ws!None
  <2>3. Ws!TypeOK
    BY <2>1, <2>2 DEF Ws!Init, Ws!TypeOK
  <2>4. Ws!Live = {}
    BY <2>1 DEF Ws!Init, Ws!Live
  <2> QED
    BY <2>1, <2>3, <2>4 DEF Ws!Init, Ws!Inv
<1>2. Bt!Inv
  <2>1. Bt!Init /\ 0 \in 0 .. BluetoothCloses /\ 0 \in 0 .. BluetoothOpens
    BY DEF Init
  <2>2. Bt!Pending = {}
    BY <2>1 DEF Bt!Init, Bt!Pending
  <2>3. Bt!TypeOK
    BY <2>1 DEF Bt!Init, Bt!TypeOK
  <2> QED
    BY <2>1, <2>2, <2>3 DEF Bt!Init, Bt!Inv, Bt!NothingLeftConnected, Bt!OpenHasDevice
<1>3. Rtc!Inv
  <2>1. Rtc!Init /\ 0 \in 0 .. PeerOpens /\ 0 \in 0 .. 7
    BY DEF Init
  <2>2. Rtc!TypeOK
    BY <2>1 DEF Rtc!Init, Rtc!TypeOK
  <2> QED
    BY <2>1, <2>2 DEF Rtc!Init, Rtc!Inv, Rtc!SendIsSafe
<1>4. Ser!Inv
  <2>1. Ser!Init /\ 0 \in 0 .. PortCloses /\ 0 \in 0 .. PortOpens
    BY DEF Init
  <2>2. /\ serClosing \in [{"pipes", "port"} -> 0 .. PortCloses]
        /\ serClosing["pipes"] = 0 /\ serClosing["port"] = 0
    BY <2>1 DEF Ser!Init, Ser!Nobody
  <2>3. serStale \in BOOLEAN /\ serDevice \subseteq 1 .. PortOpens
    BY <2>1 DEF Ser!Init
  <2>4. Ser!TypeOK
    BY <2>1, <2>2, <2>3 DEF Ser!Init, Ser!TypeOK
  <2> QED
    BY <2>1, <2>2, <2>4 DEF Ser!Init, Ser!Inv, Ser!NoPortLeftOpen
<1>5. Rep!Inv
  <2>1. Rep!Init /\ 0 \in 0 .. MaxSeeks
    BY DEF Init
  <2>2. <<>> \in Seq(Nat \ {0}) /\ <<>> \in Seq(1 .. 0) /\ Len(<<>>) = 0
    OBVIOUS
  <2>3. Rep!Follows
    BY <2>1, <2>2 DEF Rep!Init, Rep!Follows
  <2>4. repTimers = 0 /\ repDue \in Nat /\ repTimers \in 0 .. 1 /\ repTimers # 1
    BY <2>1 DEF Rep!Init
  <2>5. Rep!Timed
    BY <2>1, <2>4, Zenon DEF Rep!Init, Rep!Timed
  <2> QED
    BY <2>3, <2>5 DEF Rep!Inv
<1> QED
  BY <1>1, <1>2, <1>3, <1>4, <1>5 DEF LinksInv

\* A link that rests keeps its invariant.
LEMMA LinksRest ==
    ASSUME LinksInv
    PROVE  /\ UNCHANGED wsVars => Ws!Inv'
           /\ UNCHANGED btVars => Bt!Inv'
           /\ UNCHANGED rtcVars => Rtc!Inv'
           /\ UNCHANGED serVars => Ser!Inv'
           /\ UNCHANGED repVars => Rep!Inv'
<1> USE DEF LinksInv
<1>1. UNCHANGED wsVars => Ws!Inv'
  BY DEF wsVars, Ws!Inv, Ws!TypeOK, Ws!Live
<1>2. UNCHANGED btVars => Bt!Inv'
  BY DEF btVars, Bt!Inv, Bt!TypeOK, Bt!Pending, Bt!NothingLeftConnected, Bt!OpenHasDevice
<1>3. UNCHANGED rtcVars => Rtc!Inv'
  BY DEF rtcVars, Rtc!Inv, Rtc!TypeOK, Rtc!SendIsSafe
<1>4. UNCHANGED serVars => Ser!Inv'
  BY DEF serVars, Ser!Inv, Ser!TypeOK, Ser!NoPortLeftOpen
<1>5. UNCHANGED repVars => Rep!Inv'
  BY DEF repVars, Rep!Inv, Rep!Follows, Rep!Timed
<1> QED
  BY <1>1, <1>2, <1>3, <1>4, <1>5

\* Every step moves one part and leaves the others where they are.
LEMMA OnePartMoves ==
    ASSUME [Next]_vars
    PROVE  /\ part' = part
           /\ (part = "ws" /\ Ws!Next) \/ UNCHANGED wsVars
           /\ (part = "bt" /\ Bt!Next) \/ UNCHANGED btVars
           /\ (part = "rtc" /\ Rtc!Next) \/ UNCHANGED rtcVars
           /\ (part = "ser" /\ Ser!Next) \/ UNCHANGED serVars
           /\ (part = "rep" /\ Rep!Next) \/ UNCHANGED repVars
BY DEF Next, vars

LEMMA LinksKeep == LinksInv /\ [Next]_vars => LinksInv'
<1> SUFFICES ASSUME LinksInv, [Next]_vars PROVE LinksInv'
  OBVIOUS
<1>1. Ws!Inv'
  BY LinksRest, OnePartMoves, WebSocketKeeps DEF LinksInv
<1>2. Bt!Inv'
  BY LinksRest, OnePartMoves, BluetoothKeeps DEF LinksInv
<1>3. Rtc!Inv'
  BY LinksRest, OnePartMoves, WebRtcKeeps DEF LinksInv
<1>4. Ser!Inv'
  BY LinksRest, OnePartMoves, SerialKeeps DEF LinksInv
<1>5. Rep!Inv'
  BY LinksRest, OnePartMoves, ReplayKeeps DEF LinksInv
<1> QED
  BY <1>1, <1>2, <1>3, <1>4, <1>5 DEF LinksInv

LEMMA LinksHold == Spec => []LinksInv
BY LinksBegin, LinksKeep, PTL DEF Spec

\* In every behaviour of the transports and of a replay, for any number of openings,
\* closings and seeks and any logs: bytes are handed to a socket or a channel that takes
\* them, a bridge that is lost is being tried again by one socket or one timer, no device
\* and no port is left open behind a link, and a replay plays its log with one timer, in
\* order and with the gaps that were recorded (src/src/transport).
THEOREM LinksKeepTheirWord == Spec => []LinksAreHonest
<1>1. LinksInv => LinksAreHonest
  <2> SUFFICES ASSUME LinksInv PROVE LinksAreHonest
    OBVIOUS
  <2>1. Ws!SendIsSafe /\ Ws!StillTrying
    BY WebSocketIsHonest DEF LinksInv
  <2>2. Rtc!SendIsSafe /\ Bt!NothingLeftConnected /\ Bt!OpenHasDevice /\ Ser!NoPortLeftOpen
    BY DEF LinksInv, Rtc!Inv, Bt!Inv, Ser!Inv
  <2>3. Rep!OneTimer /\ Rep!HeardInOrder
    BY ReplayIsHonest DEF LinksInv
  <2> QED
    BY <2>1, <2>2, <2>3 DEF LinksAreHonest
<1> QED
  BY <1>1, LinksHold, PTL

\* A transport that rests is a contract that rests.
LEMMA ContractRests ==
    ASSUME part' = part,
           part = "ws" => UNCHANGED wsVars, part = "bt" => UNCHANGED btVars,
           part = "rtc" => UNCHANGED rtcVars, part = "ser" => UNCHANGED serVars
    PROVE  UNCHANGED Contract!vars
<1>1. LinkState' = LinkState /\ LinkCall' = LinkCall
  BY DEF LinkState, LinkCall, wsVars, btVars, rtcVars, serVars
<1>2. LinkHeld' = LinkHeld
  <2>1. part = "ws" => Ws!Held' = Ws!Held
    BY DEF Ws!Held, Ws!Live, wsVars
  <2>2. part = "bt" => Bt!Held' = Bt!Held
    BY DEF Bt!Held, Bt!Pending, btVars
  <2>3. part = "rtc" => Rtc!Held' = Rtc!Held
    BY DEF Rtc!Held, rtcVars
  <2>4. part = "ser" => Ser!Held' = Ser!Held
    BY DEF Ser!Held, serVars
  <2> QED
    BY <2>1, <2>2, <2>3, <2>4 DEF LinkHeld
<1> QED
  BY <1>1, <1>2 DEF Contract!vars

\* Every transport that holds a device keeps the contract of its owner, step by step:
\* an open() that is answered, a state that tells whether something is held, and nothing
\* that comes back after a close (src/src/contracts/transport.ts).
THEOREM TransportsKeepTheirContract == Spec => ImplementsTransport
<1>1. Init => Contract!Init
  <2> SUFFICES ASSUME Init PROVE Contract!Init
    OBVIOUS
  <2>1. /\ wsState = "closed" /\ wsCall = "none" /\ btState = "closed" /\ btCall = "none"
        /\ rtcState = "closed" /\ rtcCall = "none" /\ serState = "closed" /\ serCall = "none"
    BY DEF Init, Ws!Init, Bt!Init, Rtc!Init, Ser!Init
  <2>2. ~Ws!Held /\ ~Bt!Held /\ ~Rtc!Held /\ ~Ser!Held
    <3>1. ~Ws!Held
      BY DEF Init, Ws!Init, Ws!Held, Ws!Live
    <3>2. ~Bt!Held
      BY DEF Init, Bt!Init, Bt!Held, Bt!Pending
    <3> QED
      BY <3>1, <3>2 DEF Init, Rtc!Init, Rtc!Held, Ser!Init, Ser!Held
  <2> QED
    BY <2>1, <2>2 DEF LinkState, LinkCall, LinkHeld, Contract!Init
<1>2. LinksInv /\ LinksInv' /\ [Next]_vars => [Contract!Next]_(Contract!vars)
  <2> SUFFICES ASSUME LinksInv, LinksInv', [Next]_vars
               PROVE  [Contract!Next]_(Contract!vars)
    OBVIOUS
  <2>1. CASE part = "ws" /\ Ws!Next
    BY <2>1, OnePartMoves, WebSocketImplements DEF LinksInv
  <2>2. CASE part = "bt" /\ Bt!Next
    BY <2>2, OnePartMoves, BluetoothImplements DEF LinksInv
  <2>3. CASE part = "rtc" /\ Rtc!Next
    BY <2>3, OnePartMoves, WebRtcImplements DEF LinksInv
  <2>4. CASE part = "ser" /\ Ser!Next
    BY <2>4, OnePartMoves, SerialImplements DEF LinksInv
  <2>5. CASE /\ ~(part = "ws" /\ Ws!Next) /\ ~(part = "bt" /\ Bt!Next)
             /\ ~(part = "rtc" /\ Rtc!Next) /\ ~(part = "ser" /\ Ser!Next)
    BY <2>5, OnePartMoves, ContractRests
  <2> QED
    BY <2>1, <2>2, <2>3, <2>4, <2>5
<1> QED
  BY <1>1, <1>2, LinksHold, PTL DEF Spec, ImplementsTransport, Contract!Spec

-----------------------------------------------------------------------------
\* What is true of the counters before the first frame, and after it.
NothingHeard == losReceived = 0 => losLastSeq = -1 /\ losNewest = losFirst /\ losLost = 0 /\ losDuplicates = 0 /\ losOutOfOrder = 0
LossInv == Los!TypeOK /\ Los!Counted /\ NothingHeard /\ (losReceived > 0 => losLastSeq >= 0)

LEMMA LossBegins == Los!Init => LossInv
  BY DEF Los!Init, Los!TypeOK, LossInv, Los!Counted, NothingHeard

\* A frame that arrives: the bits of its number say how far it is ahead, or that it
\* comes late, and each case keeps the account.
LEMMA FrameIsCounted ==
    ASSUME LossInv, NEW j \in Los!Near \cup {0}, Los!Arrives(losNewest + j)
    PROVE  LossInv'
<1> USE DEF Los!TypeOK
<1> DEFINE s == (losNewest + j) % 256
\* <1>b: what the eight bits tell is the distance itself when it is ahead.
<1>0. losNewest \in Nat /\ j \in -127..128 /\ losNewest + j \in Nat
  BY DEF Los!Arrives, Los!Near, LossInv
<1>a. s = (losNewest + j) % 256 /\ s \in 0..255 /\ losNewest % 256 \in 0..255
  BY <1>0
<1>b. IF j >= 0 THEN ((s - losNewest) % 256) % 256 = j ELSE ((s - losNewest) % 256) % 256 = 256 + j
  BY <1>0, SMTT(30)
<1> HIDE DEF s
<1>1. /\ losReceived' = losReceived + 1 /\ (Los!First(s) \/ Los!Duplicate(s) \/ Los!Forward(s) \/ Los!Late(s))
      /\ losFirst' = losFirst /\ losNewest' = IF losNewest + j > losNewest THEN losNewest + j ELSE losNewest
  BY DEF Los!Arrives, Los!Observe, s
<1>2. CASE Los!First(s)
  <2>1. losReceived = 0 /\ j = 0 /\ losNewest = losFirst
    BY <1>0, <1>1, <1>2 DEF Los!First, Los!Arrives, LossInv, NothingHeard
  <2> QED
    BY <1>0, <1>a, <1>1, <1>2, <2>1 DEF Los!First, LossInv, Los!Counted, NothingHeard
<1>3. CASE losLastSeq >= 0 /\ (Los!Duplicate(s) \/ Los!Forward(s) \/ Los!Late(s))
  <2>1. losReceived > 0 /\ losLastSeq = losNewest % 256 /\ losNewest >= losFirst
    BY <1>3 DEF LossInv, Los!Counted, NothingHeard
  <2>2. IF j >= 0 THEN Los!Delta(s) = j ELSE Los!Delta(s) = 256 + j
    BY <1>0, <1>a, <1>b, <2>1 DEF Los!Delta
  <2>3. CASE Los!Duplicate(s)
    <3>1. j = 0
      BY <1>0, <1>a, <1>1, <2>2, <2>3 DEF Los!Duplicate
    <3> QED
      BY <1>0, <1>a, <1>1, <2>1, <2>3, <3>1 DEF Los!Duplicate, LossInv, Los!Counted, NothingHeard
  <2>4. CASE Los!Forward(s)
    <3>1. j \in 1..128 /\ Los!Delta(s) = j
      BY <1>0, <1>a, <1>1, <2>2, <2>4 DEF Los!Forward, Los!Ahead
    <3> QED
      BY <1>0, <1>a, <1>1, <2>1, <2>4, <3>1 DEF Los!Forward, LossInv, Los!Counted, NothingHeard
  <2>5. CASE Los!Late(s)
    <3>1. j < 0
      BY <1>0, <1>a, <1>1, <2>2, <2>5 DEF Los!Late, Los!Ahead
    <3> QED
      BY <1>0, <1>a, <1>1, <2>1, <2>5, <3>1 DEF Los!Late, LossInv, Los!Counted, NothingHeard
  <2> QED
    BY <1>3, <2>3, <2>4, <2>5
<1> QED
  BY <1>1, <1>2, <1>3 DEF Los!Duplicate, Los!Forward, Los!Late


\* However many frames are lost, repeated or late, by less than half of the numbers each,
\* the counters account for every frame between the first and the newest (loss.ts).
THEOREM LossIsCounted == Los!Spec => [](Los!TypeOK /\ Los!Counted)
<1>1. Los!Init => LossInv
  BY LossBegins
<1>2. LossInv /\ [Los!Next]_(Los!vars) => LossInv'
  <2> SUFFICES ASSUME LossInv, [Los!Next]_(Los!vars) PROVE LossInv'
    OBVIOUS
  <2>1. ASSUME NEW j \in Los!Near \cup {0}, Los!Arrives(losNewest + j) PROVE LossInv'
    BY <2>1, FrameIsCounted
  <2>2. ASSUME NEW k \in FirstFrames, Los!Clear(k) PROVE LossInv'
    BY <2>2 DEF Los!Clear, LossInv, Los!TypeOK, Los!Counted, NothingHeard
  <2>3. CASE UNCHANGED Los!vars
    BY <2>3 DEF Los!vars, LossInv, Los!TypeOK, Los!Counted, NothingHeard
  <2> QED
    BY <2>1, <2>2, <2>3 DEF Los!Next
<1>3. LossInv => Los!TypeOK /\ Los!Counted
  BY DEF LossInv
<1> QED
  BY <1>1, <1>2, <1>3, PTL DEF Los!Spec
=============================================================================
