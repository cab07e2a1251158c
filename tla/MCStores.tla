------------------------------ MODULE MCStores ------------------------------
(***************************************************************************)
(* The parts of Stores and Screens for TLC. part says which of them a      *)
(* behaviour is about; the others rest where they begin. A part behaves    *)
(* here as it does alone.                                                  *)
(***************************************************************************)
EXTENDS Stores, Screens, TLC

CONSTANTS c1, c2    \* calls, loads, slots and files

VARIABLE part

secVars == <<secVault, secSecrets, secIndex, secKey, secCalls, secSeeded, secCloses, secRisked,
    secMixed>>
mapVars == <<mapSource, mapGeneration, mapAttached, mapBitmaps, mapPending, mapLoads, mapStored,
    mapSweep, mapSweeps, mapPutSince>>
extVars == <<extManaged, extMade, extEnabled, extStatus, extHandle, extGuests, extAct, extDown,
    extTarget, extCalls, extSaves, extRecord, extIndexed, extCrossed, extLate, extCollided>>
permVars == <<permStored, permCache, permReads, permChange, permCalls, permLog, permIds,
    permChanges, permOvertaken>>
motVars == <<motAcked, motArmed, motCount, motDialog, motCalls, motStatus, motWire, motAcks,
    motSpinning, motBegun, motClear>>
setVars == <<setStep, setMounted, setFlow, setRun, setOps, setGate, setGot, setWrites,
    setMounts, setDead>>
ediVars == <<ediActive, ediHeld, ediShown, ediPending, ediStagedOn, ediBusy, ediFetches,
    ediWrites, ediMounts, ediBegun, ediEdits, ediSwitches, ediChanges, ediCrossed, ediTouched, ediAstray>>
plaVars == <<plaMission, plaShown, plaConnected, plaBusy, plaTransfers, plaOnVehicle, plaStarted,
    plaLoads, plaBegun, plaEdits, plaMounts, plaToken, plaSamplings, plaProfile, plaStale>>
lgsVars == <<lgsMount, lgsMounts, lgsLoading, lgsShown, lgsPicking, lgsLoads, lgsBegun,
    lgsSession, lgsRunning, lgsStopping, lgsPending, lgsStarted, lgsRecents, lgsOverlap,
    lgsLeft>>
padVars == <<padActive, padDisposed, padConfig, padLast, padPrev, padPad, padTarget, padArmed,
    padNow, padHeld, padSince, padFrames, padSettled>>
calVars == <<calCall, calTaps, calTimers, calActive, calDisposed, calLink, calVehicle, calReports,
    calChanges>>
rcnVars == <<rcnEntries, rcnStored, rcnBlobs, rcnCalls, rcnLoading, rcnCloses, rcnRefused,
    rcnCrossed, rcnCut>>
alrVars == <<alrAspect, alrModel, alrActive, alrFresh, alrRows, alrLately, alrSelected,
    alrPrevious, alrLastFired, alrNow, alrOn, alrMuted, alrMessages, alrEvents, alrTold,
    alrHushed>>

Parts == {"sec", "map", "ext", "perm", "mot", "set", "edi", "pla", "lgs", "pad", "cal", "rcn", "alr"}
Init ==
    /\ part \in Parts
    /\ Sec!Init /\ Map!Init /\ Ext!Init /\ Perm!Init /\ Mot!Init /\ Set!Init /\ Edi!Init
    /\ Pla!Init /\ Lgs!Init /\ Pad!Init /\ Cal!Init /\ Rcn!Init /\ Alr!Init
    \* What differs in its name only begins with the first,
    /\ mapSource = 1 /\ ediActive = 1 /\ calActive = 1 /\ padTarget = 1 /\ plaOnVehicle # "r2"
    \* as does what any settings lead to, and what rests begins in one state
    /\ padConfig = [mode |-> "rc", requireArmed |-> TRUE, releaseOnStop |-> TRUE]
    /\ permStored = {} \/ (part = "perm" /\ permStored = Perm!Perms)
    /\ part = "set" \/ setStep = "accel"
    /\ part = "pla" \/ plaOnVehicle = "r1"
    /\ part = "alr" \/ alrAspect = "arm"

Next ==
    \/ part = "sec" /\ Sec!Next
       /\ UNCHANGED <<part, mapVars, extVars, permVars, motVars, setVars, ediVars, plaVars,
          lgsVars, padVars, calVars, rcnVars, alrVars>>
    \/ part = "map" /\ Map!Next
       /\ UNCHANGED <<part, secVars, extVars, permVars, motVars, setVars, ediVars, plaVars,
          lgsVars, padVars, calVars, rcnVars, alrVars>>
    \/ part = "ext" /\ Ext!Next
       /\ UNCHANGED <<part, secVars, mapVars, permVars, motVars, setVars, ediVars, plaVars,
          lgsVars, padVars, calVars, rcnVars, alrVars>>
    \/ part = "perm" /\ Perm!Next
       /\ UNCHANGED <<part, secVars, mapVars, extVars, motVars, setVars, ediVars, plaVars,
          lgsVars, padVars, calVars, rcnVars, alrVars>>
    \/ part = "mot" /\ Mot!Next
       /\ UNCHANGED <<part, secVars, mapVars, extVars, permVars, setVars, ediVars, plaVars,
          lgsVars, padVars, calVars, rcnVars, alrVars>>
    \/ part = "set" /\ Set!Next
       /\ UNCHANGED <<part, secVars, mapVars, extVars, permVars, motVars, ediVars, plaVars,
          lgsVars, padVars, calVars, rcnVars, alrVars>>
    \/ part = "edi" /\ Edi!Next
       /\ UNCHANGED <<part, secVars, mapVars, extVars, permVars, motVars, setVars, plaVars,
          lgsVars, padVars, calVars, rcnVars, alrVars>>
    \/ part = "pla" /\ Pla!Next
       /\ UNCHANGED <<part, secVars, mapVars, extVars, permVars, motVars, setVars, ediVars,
          lgsVars, padVars, calVars, rcnVars, alrVars>>
    \/ part = "lgs" /\ Lgs!Next
       /\ UNCHANGED <<part, secVars, mapVars, extVars, permVars, motVars, setVars, ediVars,
          plaVars, padVars, calVars, rcnVars, alrVars>>
    \/ part = "pad" /\ Pad!Next
       /\ UNCHANGED <<part, secVars, mapVars, extVars, permVars, motVars, setVars, ediVars,
          plaVars, lgsVars, calVars, rcnVars, alrVars>>
    \/ part = "cal" /\ Cal!Next
       /\ UNCHANGED <<part, secVars, mapVars, extVars, permVars, motVars, setVars, ediVars,
          plaVars, lgsVars, padVars, rcnVars, alrVars>>
    \/ part = "rcn" /\ Rcn!Next
       /\ UNCHANGED <<part, secVars, mapVars, extVars, permVars, motVars, setVars, ediVars,
          plaVars, lgsVars, padVars, calVars, alrVars>>
    \/ part = "alr" /\ Alr!Next
       /\ UNCHANGED <<part, secVars, mapVars, extVars, permVars, motVars, setVars, ediVars,
          plaVars, lgsVars, padVars, calVars, rcnVars>>
vars == <<part, secVars, mapVars, extVars, permVars, motVars, setVars, ediVars, plaVars,
    lgsVars, padVars, calVars, rcnVars, alrVars>>
Spec == Init /\ [][Next]_vars

-----------------------------------------------------------------------------
\* Type correctness of the part a behaviour is about; the others do not move.
TypeOK ==
    /\ part = "sec" => Sec!TypeOK
    /\ part = "map" => Map!TypeOK
    /\ part = "ext" => Ext!TypeOK
    /\ part = "perm" => Perm!TypeOK
    /\ part = "mot" => Mot!TypeOK
    /\ part = "set" => Set!TypeOK
    /\ part = "edi" => Edi!TypeOK
    /\ part = "pla" => Pla!TypeOK
    /\ part = "lgs" => Lgs!TypeOK
    /\ part = "pad" => Pad!TypeOK
    /\ part = "cal" => Cal!TypeOK
    /\ part = "rcn" => Rcn!TypeOK
    /\ part = "alr" => Alr!TypeOK

\* Two vehicles, one of them with two components that report; a basemap has its own id.
ThreeSources == {<<1, 1>>, <<1, 2>>, <<2, 1>>}
OneIdEach == <<1, 2>>

\* Calls, loads, slots and files differ in their names only.
Symmetry == Permutations({c1, c2})
=============================================================================
