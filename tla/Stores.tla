------------------------------- MODULE Stores -------------------------------
(***************************************************************************)
(* The parts of the page that keep something: the secrets, the map tiles,  *)
(* the extension host and its permissions, and the recent files; what they *)
(* promise, and the proofs, for any number of secrets, operations and      *)
(* installations. The parts share nothing: what is proved of one by itself *)
(* holds of any composition that it is in.                                 *)
(***************************************************************************)
EXTENDS Integers, FiniteSets, Sequences, WellFoundedInduction, FiniteSetTheorems,
        FunctionTheorems, SequenceTheorems, TLAPS

VARIABLES
    secVault, secSecrets, secIndex, secKey, secCalls, secSeeded, secCloses, secRisked, secMixed,
    mapSource, mapGeneration, mapAttached, mapBitmaps, mapPending, mapLoads, mapStored,
    mapSweep, mapSweeps, mapPutSince,
    extManaged, extMade, extEnabled, extStatus, extHandle, extGuests, extAct, extDown,
    extTarget, extCalls, extSaves, extRecord, extIndexed, extCrossed, extLate, extCollided,
    permStored, permCache, permReads, permChange, permCalls, permLog, permIds, permChanges,
    permOvertaken,
    rcnEntries, rcnStored, rcnBlobs, rcnCalls, rcnLoading, rcnCloses, rcnRefused, rcnCrossed,
    rcnCut

CONSTANTS
    SecretIds, SecretCalls, MaxVaults, MaxPages,             \* the secrets: see SecretStore
    MapSources, MapIds, MapTilesSeen, MapEntries, MapImages, MapLoading,
    MapChanges, MapSweepings,                                \* the map: see MapTiles
    ExtObjects, ExtSlots, ExtCalls,                          \* the extension: see ExtensionHost
    PermCalls, PermEntries, PermEdits, PermIds,              \* its permissions: see Permissions
    FileNames, FileSizes, FilesListed, FileBytes, FileCalls, FileCloses \* the recent files: see Recents
ASSUME StoresAssumption ==
    /\ MaxVaults \in Nat /\ MaxPages \in Nat /\ ExtObjects \in Nat
    /\ MapEntries \in Nat /\ MapImages \in Nat
    /\ IsFiniteSet(MapSources) /\ IsFiniteSet(MapTilesSeen) /\ MapTilesSeen # {}
    /\ FilesListed \in Nat /\ FileBytes \in Nat /\ FileSizes \subseteq Nat

Sec == INSTANCE SecretStore WITH
    Ids <- SecretIds, Calls <- SecretCalls, MaxKeys <- MaxVaults, MaxCloses <- MaxPages,
    vault <- secVault, secrets <- secSecrets, index <- secIndex, key <- secKey,
    calls <- secCalls, seeded <- secSeeded, closes <- secCloses, risked <- secRisked,
    mixed <- secMixed
Map == INSTANCE MapTiles WITH
    Sources <- MapSources, IdOf <- MapIds, Tiles <- MapTilesSeen, MaxEntries <- MapEntries,
    MaxBitmaps <- MapImages, Loads <- MapLoading, MaxChanges <- MapChanges,
    MaxSweeps <- MapSweepings,
    source <- mapSource, generation <- mapGeneration, attached <- mapAttached,
    bitmaps <- mapBitmaps, pending <- mapPending, loads <- mapLoads, stored <- mapStored,
    sweep <- mapSweep, sweeps <- mapSweeps, putSince <- mapPutSince
Ext == INSTANCE ExtensionHost WITH
    MaxObjects <- ExtObjects, Slots <- ExtSlots, MaxCalls <- ExtCalls,
    managed <- extManaged, made <- extMade, enabled <- extEnabled, status <- extStatus,
    handle <- extHandle, guests <- extGuests, act <- extAct, down <- extDown,
    target <- extTarget, calls <- extCalls, saves <- extSaves, record <- extRecord,
    indexed <- extIndexed, crossed <- extCrossed, late <- extLate, collided <- extCollided
Perm == INSTANCE Permissions WITH
    Calls <- PermCalls, MaxEntries <- PermEntries, MaxChanges <- PermEdits,
    MaxIds <- PermIds,
    stored <- permStored, cache <- permCache, reads <- permReads, change <- permChange,
    calls <- permCalls, log <- permLog, ids <- permIds, changes <- permChanges,
    overtaken <- permOvertaken
Rcn == INSTANCE Recents WITH
    Names <- FileNames, Sizes <- FileSizes, MaxEntries <- FilesListed,
    MaxCacheBytes <- FileBytes, MaxCalls <- FileCalls, MaxCloses <- FileCloses,
    entries <- rcnEntries, stored <- rcnStored, blobs <- rcnBlobs, calls <- rcnCalls,
    loading <- rcnLoading, closes <- rcnCloses, refused <- rcnRefused, crossed <- rcnCrossed,
    cut <- rcnCut

-----------------------------------------------------------------------------
\* See SecretStore: what the vault reads, the index, the key in memory.
SecretsAreKept == Sec!SecretsReadable /\ Sec!IndexComplete /\ Sec!KeyIsTheVaults

\* See MapTiles and Recents: what is drawn, what is pending, the size of the store; the
\* list of recent files and what their content takes.
CachesAreCurrent ==
    /\ Map!TilesOfTheSource /\ Map!PendingIsLoading /\ Map!StoreBounded
    /\ Rcn!ListIsStored /\ Rcn!CacheIsCounted

\* See ExtensionHost and Permissions: guests, disabled extensions, the stored record;
\* what runs was granted, and the audit log.
ExtensionsAreHeld ==
    /\ Ext!GuestsAreHeld /\ Ext!OnlyEnabledRuns /\ Ext!RecordIsManaged
    /\ Perm!RunsWereGranted /\ Perm!PendingIsUnderWay

-----------------------------------------------------------------------------
\* A stage that a call goes on to is one of its operation.
LEMMA SecretGoes ==
    ASSUME Sec!Staged, NEW c \in SecretCalls, NEW call, Sec!IsCall(call), Sec!Go(c, call)
    PROVE  /\ Sec!Staged' /\ secCalls'[c] = call
           /\ \A d \in SecretCalls : d # c => secCalls'[d] = secCalls[d]
BY DEF Sec!Staged, Sec!IsCall, Sec!Go

\* A call goes on alone: it has met the others, or its step is not one that is noted.
SecretMoves(c) ==
    /\ \A d \in SecretCalls : d # c => secCalls'[d] = secCalls[d]
    /\ \/ Sec!Meets(c, secCalls'[c])
       \/ /\ UNCHANGED <<secRisked, secMixed>>
          /\ secCalls'[c].op \in {secCalls[c].op, "idle"}
          /\ secCalls'[c].at = "seed" => Sec!Seeds(c)

LEMMA SecretBegins ==
    ASSUME Sec!Staged, NEW c \in SecretCalls, NEW call, Sec!IsCall(call), Sec!Begin(c, call)
    PROVE  Sec!Staged' /\ SecretMoves(c)
BY SecretGoes DEF Sec!Begin, SecretMoves

LEMMA SecretGoesOn ==
    ASSUME Sec!Staged, NEW c \in SecretCalls, NEW call, Sec!IsCall(call), Sec!Go(c, call),
           UNCHANGED <<secRisked, secMixed>>, call.op \in {secCalls[c].op, "idle"},
           call.at = "seed" => Sec!Seeds(c)
    PROVE  Sec!Staged' /\ SecretMoves(c)
BY SecretGoes DEF SecretMoves

\* Every step of a call is such a step.
LEMMA SecretStep ==
    ASSUME Sec!TypeOK, Sec!Staged, NEW c \in SecretCalls,
           \/ Sec!Step(c) \/ Sec!Unlock(c) \/ Sec!Wipe(c) \/ Sec!Rekey(c)
           \/ \E i \in SecretIds : Sec!Set(c, i) \/ Sec!Clear(c, i)
    PROVE  Sec!Staged' /\ SecretMoves(c)
<1> USE DEF Sec!None, Sec!IsCall, Sec!Ops, Sec!Ats
<1>a. secCalls[c] \in [op : Sec!Ops, at : Sec!Ats, id : SecretIds \cup {Sec!None}, key : Sec!Keys \cup {Sec!None},
                    ids : SUBSET SecretIds, todo : SUBSET SecretIds] /\ Sec!IsCall(secCalls[c])
  BY DEF Sec!Staged
<1>b. /\ Sec!Idle = [op |-> "idle", at |-> "-", id |-> Sec!None, key |-> Sec!None, ids |-> {}, todo |-> {}]
      /\ Sec!IsCall(Sec!Idle)
  BY DEF Sec!Idle
<1>d. /\ secKey \in Sec!Keys \cup {Sec!None} /\ secVault \in Sec!Keys \cup {Sec!None} /\ secIndex \subseteq SecretIds
      /\ secSeeded \in Nat /\ (secSeeded < MaxVaults => secSeeded + 1 \in Sec!Keys)
  BY StoresAssumption DEF Sec!TypeOK, Sec!Keys
<1> USE <1>a, <1>b, <1>d
<1>1. CASE Sec!Unlock(c)
  <2>1. Sec!IsCall([Sec!Idle EXCEPT !.op = "unlock", !.at = "read"])
    BY <1>1 DEF Sec!Unlock
  <2> QED
    BY <1>1, <2>1, SecretBegins DEF Sec!Unlock
<1>2. CASE Sec!Wipe(c)
  <2>1. Sec!IsCall([Sec!Idle EXCEPT !.op = "wipe", !.at = "list"])
    BY <1>2 DEF Sec!Wipe
  <2> QED
    BY <1>2, <2>1, SecretBegins DEF Sec!Wipe
<1>3. CASE Sec!Rekey(c)
  <2>1. Sec!IsCall([Sec!Idle EXCEPT !.op = "rekey", !.at = "list"])
    BY <1>3 DEF Sec!Rekey
  <2> QED
    BY <1>3, <2>1, SecretBegins DEF Sec!Rekey
<1>4. ASSUME NEW i \in SecretIds, Sec!Set(c, i) PROVE Sec!Staged' /\ SecretMoves(c)
  <2>1. Sec!IsCall([Sec!Idle EXCEPT !.op = "set", !.at = "store", !.id = i, !.key = secKey])
    BY <1>4 DEF Sec!Set
  <2> QED
    BY <1>4, <2>1, SecretBegins DEF Sec!Set
<1>5. ASSUME NEW i \in SecretIds, Sec!Clear(c, i) PROVE Sec!Staged' /\ SecretMoves(c)
  <2>1. Sec!IsCall([Sec!Idle EXCEPT !.op = "clear", !.at = "del", !.id = i])
    BY <1>5 DEF Sec!Clear
  <2> QED
    BY <1>5, <2>1, SecretBegins DEF Sec!Clear
<1>6. CASE Sec!UnlockRead(c)
  <2> DEFINE call == [secCalls[c] EXCEPT !.at = IF secVault = Sec!None THEN "seed" ELSE "verify", !.key = secVault]
  <2>1. Sec!IsCall(call)
    BY <1>6 DEF Sec!UnlockRead, Sec!At
  <2>2. Sec!Go(c, call) /\ Sec!Meets(c, call)
    BY <1>6 DEF Sec!UnlockRead
  <2> HIDE DEF call
  <2> QED
    BY <2>1, <2>2, SecretGoes DEF SecretMoves
<1>7. CASE Sec!SeedStore(c)
  <2> DEFINE call == [secCalls[c] EXCEPT !.at = "seeded", !.key = secSeeded + 1]
  <2>1. Sec!IsCall(call) /\ call.op \in {secCalls[c].op, "idle"} /\ (call.at = "seed" => Sec!Seeds(c))
    BY <1>7 DEF Sec!SeedStore, Sec!At, Sec!Stored, Sec!Seeds, Sec!Replaces
  <2>2. Sec!Go(c, call) /\ UNCHANGED <<secRisked, secMixed>>
    BY <1>7 DEF Sec!SeedStore, Sec!Ends
  <2> HIDE DEF call
  <2> QED
    BY <2>1, <2>2, SecretGoesOn
<1>8. CASE Sec!SeedDone(c)
  <2> DEFINE call == IF secCalls[c].op = "rekey" /\ secCalls[c].todo # {}
                    THEN [secCalls[c] EXCEPT !.at = "rewrite"] ELSE Sec!Idle
  <2>1. Sec!IsCall(call) /\ call.op \in {secCalls[c].op, "idle"} /\ (call.at = "seed" => Sec!Seeds(c))
    BY <1>8 DEF Sec!SeedDone, Sec!At, Sec!Stored, Sec!Seeds, Sec!Replaces
  <2>2. Sec!Go(c, call) /\ UNCHANGED <<secRisked, secMixed>>
    BY <1>8 DEF Sec!SeedDone, Sec!Ends
  <2> HIDE DEF call
  <2> QED
    BY <2>1, <2>2, SecretGoesOn
<1>9. CASE Sec!SetStore(c)
  <2> DEFINE call == [secCalls[c] EXCEPT !.at = "index"]
  <2>1. Sec!IsCall(call) /\ call.op \in {secCalls[c].op, "idle"} /\ (call.at = "seed" => Sec!Seeds(c))
    BY <1>9 DEF Sec!SetStore, Sec!At, Sec!Stored, Sec!Seeds, Sec!Replaces
  <2>2. Sec!Go(c, call) /\ UNCHANGED <<secRisked, secMixed>>
    BY <1>9 DEF Sec!SetStore, Sec!Ends
  <2> HIDE DEF call
  <2> QED
    BY <2>1, <2>2, SecretGoesOn
<1>10. CASE Sec!AddRead(c)
  <2> DEFINE call == IF secCalls[c].id \in secIndex THEN Sec!Stored(c)
                    ELSE [secCalls[c] EXCEPT !.at = "save", !.ids = secIndex \cup {secCalls[c].id}]
  <2>1. Sec!IsCall(call) /\ call.op \in {secCalls[c].op, "idle"} /\ (call.at = "seed" => Sec!Seeds(c))
    BY <1>10 DEF Sec!AddRead, Sec!At, Sec!Stored, Sec!Seeds, Sec!Replaces
  <2>2. Sec!Go(c, call) /\ UNCHANGED <<secRisked, secMixed>>
    BY <1>10 DEF Sec!AddRead, Sec!Ends
  <2> HIDE DEF call
  <2> QED
    BY <2>1, <2>2, SecretGoesOn
<1>11. CASE Sec!AddSave(c)
  <2> DEFINE call == Sec!Stored(c)
  <2>1. Sec!IsCall(call) /\ call.op \in {secCalls[c].op, "idle"} /\ (call.at = "seed" => Sec!Seeds(c))
    BY <1>11 DEF Sec!AddSave, Sec!At, Sec!Stored, Sec!Seeds, Sec!Replaces
  <2>2. Sec!Go(c, call) /\ UNCHANGED <<secRisked, secMixed>>
    BY <1>11 DEF Sec!AddSave, Sec!Ends
  <2> HIDE DEF call
  <2> QED
    BY <2>1, <2>2, SecretGoesOn
<1>12. CASE Sec!ClearDel(c)
  <2> DEFINE call == [secCalls[c] EXCEPT !.at = "unlist"]
  <2>1. Sec!IsCall(call) /\ call.op \in {secCalls[c].op, "idle"} /\ (call.at = "seed" => Sec!Seeds(c))
    BY <1>12 DEF Sec!ClearDel, Sec!At, Sec!Stored, Sec!Seeds, Sec!Replaces
  <2>2. Sec!Go(c, call) /\ UNCHANGED <<secRisked, secMixed>>
    BY <1>12 DEF Sec!ClearDel, Sec!Ends
  <2> HIDE DEF call
  <2> QED
    BY <2>1, <2>2, SecretGoesOn
<1>13. CASE Sec!ClearRead(c)
  <2> DEFINE call == [secCalls[c] EXCEPT !.at = "unsave", !.ids = secIndex \ {secCalls[c].id}]
  <2>1. Sec!IsCall(call) /\ call.op \in {secCalls[c].op, "idle"} /\ (call.at = "seed" => Sec!Seeds(c))
    BY <1>13 DEF Sec!ClearRead, Sec!At, Sec!Stored, Sec!Seeds, Sec!Replaces
  <2>2. Sec!Go(c, call) /\ UNCHANGED <<secRisked, secMixed>>
    BY <1>13 DEF Sec!ClearRead, Sec!Ends
  <2> HIDE DEF call
  <2> QED
    BY <2>1, <2>2, SecretGoesOn
<1>14. CASE Sec!ClearSave(c)
  <2> DEFINE call == Sec!Idle
  <2>1. Sec!IsCall(call) /\ call.op \in {secCalls[c].op, "idle"} /\ (call.at = "seed" => Sec!Seeds(c))
    BY <1>14 DEF Sec!ClearSave, Sec!At, Sec!Stored, Sec!Seeds, Sec!Replaces
  <2>2. Sec!Go(c, call) /\ UNCHANGED <<secRisked, secMixed>>
    BY <1>14 DEF Sec!ClearSave, Sec!Ends
  <2> HIDE DEF call
  <2> QED
    BY <2>1, <2>2, SecretGoesOn
<1>15. CASE Sec!WipeList(c)
  <2> DEFINE call == [secCalls[c] EXCEPT !.at = "each", !.todo = secIndex]
  <2>1. Sec!IsCall(call) /\ call.op \in {secCalls[c].op, "idle"} /\ (call.at = "seed" => Sec!Seeds(c))
    BY <1>15 DEF Sec!WipeList, Sec!At, Sec!Stored, Sec!Seeds, Sec!Replaces
  <2>2. Sec!Go(c, call) /\ UNCHANGED <<secRisked, secMixed>>
    BY <1>15 DEF Sec!WipeList, Sec!Ends
  <2> HIDE DEF call
  <2> QED
    BY <2>1, <2>2, SecretGoesOn
<1>16. CASE Sec!WipeIndex(c)
  <2> DEFINE call == [secCalls[c] EXCEPT !.at = "vault"]
  <2>1. Sec!IsCall(call) /\ call.op \in {secCalls[c].op, "idle"} /\ (call.at = "seed" => Sec!Seeds(c))
    BY <1>16 DEF Sec!WipeIndex, Sec!At, Sec!Stored, Sec!Seeds, Sec!Replaces
  <2>2. Sec!Go(c, call) /\ UNCHANGED <<secRisked, secMixed>>
    BY <1>16 DEF Sec!WipeIndex, Sec!Ends
  <2> HIDE DEF call
  <2> QED
    BY <2>1, <2>2, SecretGoesOn
<1>17. CASE Sec!WipeVault(c)
  <2> DEFINE call == Sec!Idle
  <2>1. Sec!IsCall(call) /\ call.op \in {secCalls[c].op, "idle"} /\ (call.at = "seed" => Sec!Seeds(c))
    BY <1>17 DEF Sec!WipeVault, Sec!At, Sec!Stored, Sec!Seeds, Sec!Replaces
  <2>2. Sec!Go(c, call) /\ UNCHANGED <<secRisked, secMixed>>
    BY <1>17 DEF Sec!WipeVault, Sec!Ends
  <2> HIDE DEF call
  <2> QED
    BY <2>1, <2>2, SecretGoesOn
<1>18. CASE Sec!RekeyList(c)
  <2> DEFINE call == [secCalls[c] EXCEPT !.at = "read", !.ids = secIndex]
  <2>1. Sec!IsCall(call) /\ call.op \in {secCalls[c].op, "idle"} /\ (call.at = "seed" => Sec!Seeds(c))
    BY <1>18 DEF Sec!RekeyList, Sec!At, Sec!Stored, Sec!Seeds, Sec!Replaces
  <2>2. Sec!Go(c, call) /\ UNCHANGED <<secRisked, secMixed>>
    BY <1>18 DEF Sec!RekeyList, Sec!Ends
  <2> HIDE DEF call
  <2> QED
    BY <2>1, <2>2, SecretGoesOn
<1>19. CASE Sec!RekeyTurn(c)
  <2> DEFINE call == [secCalls[c] EXCEPT !.at = "seed"]
  <2>1. Sec!IsCall(call) /\ call.op \in {secCalls[c].op, "idle"} /\ (call.at = "seed" => Sec!Seeds(c))
    BY <1>19 DEF Sec!RekeyTurn, Sec!At, Sec!Stored, Sec!Seeds, Sec!Replaces
  <2>2. Sec!Go(c, call) /\ UNCHANGED <<secRisked, secMixed>>
    BY <1>19 DEF Sec!RekeyTurn, Sec!Ends
  <2> HIDE DEF call
  <2> QED
    BY <2>1, <2>2, SecretGoesOn
<1>20. ASSUME NEW right \in BOOLEAN, Sec!Unlocked(c, right) PROVE Sec!Staged' /\ SecretMoves(c)
  <2> DEFINE call == Sec!Idle
  <2>1. Sec!IsCall(call) /\ call.op \in {secCalls[c].op, "idle"} /\ (call.at = "seed" => Sec!Seeds(c))
    BY <1>20 DEF Sec!Unlocked, Sec!At, Sec!Stored, Sec!Seeds, Sec!Replaces
  <2>2. Sec!Go(c, call) /\ UNCHANGED <<secRisked, secMixed>>
    BY <1>20 DEF Sec!Unlocked, Sec!Ends
  <2> HIDE DEF call
  <2> QED
    BY <2>1, <2>2, SecretGoesOn
<1>21. CASE Sec!WipeEach(c)
  <2>1. PICK i \in secCalls[c].todo : Sec!Go(c, [secCalls[c] EXCEPT !.todo = @ \ {i}])
    BY <1>21 DEF Sec!WipeEach
  <2>2. Sec!IsCall([secCalls[c] EXCEPT !.todo = @ \ {i}])
    BY <1>21 DEF Sec!WipeEach, Sec!At
  <2> QED
    BY <1>21, <2>1, <2>2, SecretGoesOn DEF Sec!WipeEach, Sec!At
<1>22. CASE Sec!RekeyRead(c)
  <2> DEFINE call(i) == IF secKey = Sec!None \/ secSecrets[i] \notin {Sec!None, secKey} THEN Sec!Idle
                       ELSE [secCalls[c] EXCEPT !.ids = @ \ {i},
                                             !.todo = IF secSecrets[i] = Sec!None THEN @ ELSE @ \cup {i}]
  <2>1. PICK i \in secCalls[c].ids : Sec!Go(c, call(i))
    BY <1>22 DEF Sec!RekeyRead
  <2>2. Sec!IsCall(call(i)) /\ call(i).op \in {secCalls[c].op, "idle"} /\ call(i).at # "seed"
    BY <1>22 DEF Sec!RekeyRead, Sec!At
  <2>3. UNCHANGED <<secRisked, secMixed>>
    BY <1>22 DEF Sec!RekeyRead
  <2> HIDE DEF call
  <2> QED
    BY <2>1, <2>2, <2>3, SecretGoesOn
<1>23. CASE Sec!RekeySet(c)
  <2> DEFINE call(i) == IF secKey = Sec!None THEN Sec!Idle
                       ELSE [secCalls[c] EXCEPT !.at = "store", !.id = i, !.key = secKey, !.todo = @ \ {i}]
  <2>1. PICK i \in secCalls[c].todo : Sec!Go(c, call(i))
    BY <1>23 DEF Sec!RekeySet
  <2>2. Sec!IsCall(call(i)) /\ call(i).op \in {secCalls[c].op, "idle"} /\ call(i).at # "seed"
    BY <1>23 DEF Sec!RekeySet, Sec!At
  <2>3. UNCHANGED <<secRisked, secMixed>>
    BY <1>23 DEF Sec!RekeySet
  <2> HIDE DEF call
  <2> QED
    BY <2>1, <2>2, <2>3, SecretGoesOn
<1> HIDE DEF Sec!None, Sec!IsCall, Sec!Ops, Sec!Ats
<1> QED
  BY <1>1, <1>2, <1>3, <1>4, <1>5, <1>6, <1>7, <1>8, <1>9, <1>10, <1>11, <1>12, <1>13, <1>14,
     <1>15, <1>16, <1>17, <1>18, <1>19, <1>20, <1>21, <1>22, <1>23
     DEF Sec!Step

LEMMA SecretStaged == ASSUME Sec!TypeOK, Sec!Staged, Sec!Next PROVE Sec!Staged'
<1>1. CASE Sec!Lock
  BY <1>1 DEF Sec!Lock, Sec!Staged
<1>2. CASE Sec!Close
  <2>1. Sec!IsCall(Sec!Idle) /\ Sec!Idle \in [op : Sec!Ops, at : Sec!Ats, id : SecretIds \cup {Sec!None}, key : Sec!Keys \cup {Sec!None},
                                          ids : SUBSET SecretIds, todo : SUBSET SecretIds]
    BY DEF Sec!IsCall, Sec!Idle, Sec!Ops, Sec!Ats
  <2> HIDE DEF Sec!Idle
  <2> QED
    BY <1>2, <2>1 DEF Sec!Close, Sec!Staged
<1> QED
  BY <1>1, <1>2, SecretStep DEF Sec!Next

\* What is noted stays noted.
LEMMA SecretNotes == ASSUME Sec!TypeOK, Sec!Staged, Sec!Next PROVE (secRisked => secRisked') /\ (secMixed => secMixed')
<1>1. ASSUME NEW c \in SecretCalls, SecretMoves(c) PROVE (secRisked => secRisked') /\ (secMixed => secMixed')
  <2>1. CASE Sec!Meets(c, secCalls'[c])
    BY <2>1, Zenon DEF Sec!Meets
  <2>2. CASE UNCHANGED <<secRisked, secMixed>>
    BY <2>2
  <2> QED
    BY <1>1, <2>1, <2>2 DEF SecretMoves
<1>2. CASE Sec!Lock
  BY <1>2, Zenon DEF Sec!Lock
<1>3. CASE Sec!Close
  BY <1>3, Zenon DEF Sec!Close
<1> QED
  BY <1>1, <1>2, <1>3, SecretStep DEF Sec!Next

\* While nothing is noted, a call that replaces the vault is alone, and so is a writer of
\* the index.
LEMMA SecretAlone ==
    ASSUME Sec!TypeOK, Sec!Staged, Sec!Staged', Sec!Next
    PROVE  /\ Sec!Alone /\ ~secRisked' => Sec!Alone'
           /\ Sec!OneWriter /\ ~secMixed' => Sec!OneWriter'
<1> USE DEF Sec!Seeds, Sec!UnderWay, Sec!Replaces, Sec!Indexes
<1>1. ASSUME NEW c \in SecretCalls, SecretMoves(c)
      PROVE  /\ Sec!Alone /\ ~secRisked' => Sec!Alone'
             /\ Sec!OneWriter /\ ~secMixed' => Sec!OneWriter'
  <2>1. \A d \in SecretCalls : Sec!IsCall(secCalls[d]) /\ Sec!IsCall(secCalls'[d])
    BY DEF Sec!Staged
  <2>2. \A d \in SecretCalls : d # c => secCalls'[d] = secCalls[d]
    BY <1>1 DEF SecretMoves
  <2>3. CASE Sec!Meets(c, secCalls'[c])
    <3>1. ASSUME Sec!Alone, ~secRisked', NEW d \in SecretCalls, NEW e \in SecretCalls, d # e, Sec!Seeds(d)', Sec!UnderWay(e)'
          PROVE  FALSE
      <4>1. CASE d = c
        <5>1. e \in SecretCalls \ {c} /\ secCalls[e].op # "idle"
          BY <2>2, <3>1, <4>1
        <5>2. secCalls'[c].op \in {"rekey", "wipe"} \/ secCalls'[c].at = "seed"
          BY <3>1, <4>1
        <5> QED
          BY <2>3, <3>1, <5>1, <5>2 DEF Sec!Meets
      <4>2. CASE e = c
        BY <2>1, <2>2, <2>3, <3>1, <4>2 DEF Sec!Meets, Sec!IsCall
      <4>3. CASE d # c /\ e # c
        BY <2>2, <3>1, <4>3 DEF Sec!Alone
      <4> QED
        BY <4>1, <4>2, <4>3
    <3>2. Sec!OneWriter /\ ~secMixed' => Sec!OneWriter'
      BY <2>1, <2>2, <2>3 DEF Sec!Meets, Sec!IsCall, Sec!OneWriter
    <3> QED
      BY <3>1, <3>2 DEF Sec!Alone
  <2>4. CASE UNCHANGED <<secRisked, secMixed>> /\ secCalls'[c].op \in {secCalls[c].op, "idle"}
             /\ (secCalls'[c].at = "seed" => Sec!Seeds(c))
    BY <2>1, <2>2, <2>4 DEF Sec!IsCall, Sec!Alone, Sec!OneWriter
  <2> QED
    BY <1>1, <2>3, <2>4 DEF SecretMoves
<1>2. CASE Sec!Lock
  BY <1>2 DEF Sec!Lock, Sec!Noted, Sec!Alone, Sec!OneWriter
<1>3. CASE Sec!Close
  BY <1>3 DEF Sec!Close, Sec!Idle, Sec!Alone, Sec!OneWriter
<1> HIDE DEF Sec!Seeds, Sec!UnderWay, Sec!Replaces, Sec!Indexes
<1> QED
  BY <1>1, <1>2, <1>3, SecretStep DEF Sec!Next

\* The keys that calls keep stay the vault's.
LEMMA SecretKeys ==
    ASSUME Sec!TypeOK, Sec!Staged, Sec!Staged', Sec!Alone, ~secRisked', Sec!KeysAreTheVaults, Sec!Next
    PROVE  Sec!KeysAreTheVaults'
<1> USE DEF Sec!Staged, Sec!IsCall, Sec!Ops, Sec!Ats, Sec!UnderWay, Sec!Begin, Sec!Go, Sec!Idle, Sec!Ends, Sec!At, Sec!Stored, Sec!None,
            Sec!Keys, Sec!Noted, Sec!Meets, Sec!TypeOK, Sec!Alone, Sec!Seeds, Sec!Replaces, Sec!KeysAreTheVaults, Sec!CallKey
<1>1. ASSUME NEW c \in SecretCalls, Sec!Unlock(c) PROVE Sec!KeysAreTheVaults'
  BY <1>1 DEF Sec!Unlock
<1>2. ASSUME NEW c \in SecretCalls, Sec!Wipe(c) PROVE Sec!KeysAreTheVaults'
  BY <1>2 DEF Sec!Wipe
<1>3. ASSUME NEW c \in SecretCalls, Sec!Rekey(c) PROVE Sec!KeysAreTheVaults'
  <2>1. \A d \in SecretCalls : ~Sec!At(d, "rekey", "seeded")
    BY <1>3 DEF Sec!Rekey
  <2>2. secKey = secVault
    BY <1>3, <2>1 DEF Sec!Rekey
  <2> QED
    BY <1>3, <2>2 DEF Sec!Rekey
<1>4. ASSUME NEW c \in SecretCalls, Sec!UnlockRead(c) PROVE Sec!KeysAreTheVaults'
  BY <1>4 DEF Sec!UnlockRead
<1>5. ASSUME NEW c \in SecretCalls, Sec!SeedStore(c) PROVE Sec!KeysAreTheVaults'
  BY <1>5 DEF Sec!SeedStore
<1>6. ASSUME NEW c \in SecretCalls, Sec!SeedDone(c) PROVE Sec!KeysAreTheVaults'
  BY <1>6 DEF Sec!SeedDone
<1>7. ASSUME NEW c \in SecretCalls, Sec!SetStore(c) PROVE Sec!KeysAreTheVaults'
  BY <1>7 DEF Sec!SetStore
<1>8. ASSUME NEW c \in SecretCalls, Sec!AddRead(c) PROVE Sec!KeysAreTheVaults'
  BY <1>8 DEF Sec!AddRead
<1>9. ASSUME NEW c \in SecretCalls, Sec!AddSave(c) PROVE Sec!KeysAreTheVaults'
  BY <1>9 DEF Sec!AddSave
<1>10. ASSUME NEW c \in SecretCalls, Sec!ClearDel(c) PROVE Sec!KeysAreTheVaults'
  BY <1>10 DEF Sec!ClearDel
<1>11. ASSUME NEW c \in SecretCalls, Sec!ClearRead(c) PROVE Sec!KeysAreTheVaults'
  BY <1>11 DEF Sec!ClearRead
<1>12. ASSUME NEW c \in SecretCalls, Sec!ClearSave(c) PROVE Sec!KeysAreTheVaults'
  BY <1>12 DEF Sec!ClearSave
<1>13. ASSUME NEW c \in SecretCalls, Sec!WipeList(c) PROVE Sec!KeysAreTheVaults'
  BY <1>13 DEF Sec!WipeList
<1>14. ASSUME NEW c \in SecretCalls, Sec!WipeEach(c) PROVE Sec!KeysAreTheVaults'
  BY <1>14 DEF Sec!WipeEach
<1>15. ASSUME NEW c \in SecretCalls, Sec!WipeIndex(c) PROVE Sec!KeysAreTheVaults'
  BY <1>15 DEF Sec!WipeIndex
<1>16. ASSUME NEW c \in SecretCalls, Sec!WipeVault(c) PROVE Sec!KeysAreTheVaults'
  BY <1>16 DEF Sec!WipeVault
<1>17. ASSUME NEW c \in SecretCalls, Sec!RekeyList(c) PROVE Sec!KeysAreTheVaults'
  BY <1>17 DEF Sec!RekeyList
<1>18. ASSUME NEW c \in SecretCalls, Sec!RekeyRead(c) PROVE Sec!KeysAreTheVaults'
  BY <1>18 DEF Sec!RekeyRead
<1>19. ASSUME NEW c \in SecretCalls, Sec!RekeyTurn(c) PROVE Sec!KeysAreTheVaults'
  BY <1>19 DEF Sec!RekeyTurn
<1>20. ASSUME NEW c \in SecretCalls, Sec!RekeySet(c) PROVE Sec!KeysAreTheVaults'
  BY <1>20 DEF Sec!RekeySet
<1>21. ASSUME NEW c \in SecretCalls, NEW right \in BOOLEAN, Sec!Unlocked(c, right) PROVE Sec!KeysAreTheVaults'
  BY <1>21 DEF Sec!Unlocked
<1>22. ASSUME NEW c \in SecretCalls, NEW i \in SecretIds, Sec!Set(c, i) PROVE Sec!KeysAreTheVaults'
  <2>1. \A d \in SecretCalls : ~Sec!At(d, "rekey", "seeded")
    BY <1>22 DEF Sec!Set
  <2>2. secKey = secVault
    BY <1>22, <2>1 DEF Sec!Set
  <2> QED
    BY <1>22, <2>2 DEF Sec!Set
<1>23. ASSUME NEW c \in SecretCalls, NEW i \in SecretIds, Sec!Clear(c, i) PROVE Sec!KeysAreTheVaults'
  BY <1>23 DEF Sec!Clear
<1>24. CASE Sec!Lock
  BY <1>24 DEF Sec!Lock
<1>25. CASE Sec!Close
  BY <1>25 DEF Sec!Close
<1> HIDE DEF Sec!Staged, Sec!IsCall, Sec!Ops, Sec!Ats, Sec!UnderWay, Sec!Begin, Sec!Go,
             Sec!Idle, Sec!Ends, Sec!At, Sec!Stored, Sec!None, Sec!Keys, Sec!Noted, Sec!Meets,
             Sec!TypeOK, Sec!Alone, Sec!Seeds, Sec!Replaces, Sec!KeysAreTheVaults, Sec!CallKey
<1> QED
  BY <1>1, <1>2, <1>3, <1>4, <1>5, <1>6, <1>7, <1>8, <1>9, <1>10, <1>11, <1>12, <1>13, <1>14,
     <1>15, <1>16, <1>17, <1>18, <1>19, <1>20, <1>21, <1>22, <1>23, <1>24, <1>25
     DEF Sec!Next, Sec!Step

\* The index becomes what is stored.
LEMMA SecretIndex ==
    ASSUME Sec!TypeOK, Sec!Staged, Sec!Staged', Sec!OneWriter, ~secMixed', Sec!IndexWillBe, Sec!Next
    PROVE  Sec!IndexWillBe'
<1> USE DEF Sec!Staged, Sec!IsCall, Sec!Ops, Sec!Ats, Sec!UnderWay, Sec!Begin, Sec!Go, Sec!Idle, Sec!Ends, Sec!At, Sec!Stored, Sec!None,
            Sec!Keys, Sec!Noted, Sec!Meets, Sec!TypeOK, Sec!OneWriter, Sec!Writing, Sec!Indexes, Sec!IndexWillBe, Sec!CallIndex,
            Sec!Kept
<1>1. ASSUME NEW c \in SecretCalls, Sec!Unlock(c) PROVE Sec!IndexWillBe'
  BY <1>1 DEF Sec!Unlock
<1>2. ASSUME NEW c \in SecretCalls, Sec!Wipe(c) PROVE Sec!IndexWillBe'
  <2>1. \A d \in SecretCalls : ~ (secCalls[d].op \in Sec!Indexes)
    BY <1>2 DEF Sec!Wipe
  <2>2. secIndex = Sec!Kept
    BY <2>1
  <2> QED
    BY <1>2, <2>1, <2>2 DEF Sec!Wipe
<1>3. ASSUME NEW c \in SecretCalls, Sec!Rekey(c) PROVE Sec!IndexWillBe'
  <2>1. \A d \in SecretCalls : ~ (secCalls[d].op \in Sec!Indexes)
    BY <1>3 DEF Sec!Rekey
  <2>2. secIndex = Sec!Kept
    BY <2>1
  <2> QED
    BY <1>3, <2>1, <2>2 DEF Sec!Rekey
<1>4. ASSUME NEW c \in SecretCalls, Sec!UnlockRead(c) PROVE Sec!IndexWillBe'
  BY <1>4 DEF Sec!UnlockRead
<1>5. ASSUME NEW c \in SecretCalls, Sec!SeedStore(c) PROVE Sec!IndexWillBe'
  BY <1>5 DEF Sec!SeedStore
<1>6. ASSUME NEW c \in SecretCalls, Sec!SeedDone(c) PROVE Sec!IndexWillBe'
  BY <1>6 DEF Sec!SeedDone
<1>7. ASSUME NEW c \in SecretCalls, Sec!SetStore(c) PROVE Sec!IndexWillBe'
  BY <1>7 DEF Sec!SetStore
<1>8. ASSUME NEW c \in SecretCalls, Sec!AddRead(c) PROVE Sec!IndexWillBe'
  BY <1>8 DEF Sec!AddRead
<1>9. ASSUME NEW c \in SecretCalls, Sec!AddSave(c) PROVE Sec!IndexWillBe'
  BY <1>9 DEF Sec!AddSave
<1>10. ASSUME NEW c \in SecretCalls, Sec!ClearDel(c) PROVE Sec!IndexWillBe'
  BY <1>10 DEF Sec!ClearDel
<1>11. ASSUME NEW c \in SecretCalls, Sec!ClearRead(c) PROVE Sec!IndexWillBe'
  BY <1>11 DEF Sec!ClearRead
<1>12. ASSUME NEW c \in SecretCalls, Sec!ClearSave(c) PROVE Sec!IndexWillBe'
  BY <1>12 DEF Sec!ClearSave
<1>13. ASSUME NEW c \in SecretCalls, Sec!WipeList(c) PROVE Sec!IndexWillBe'
  BY <1>13 DEF Sec!WipeList
<1>14. ASSUME NEW c \in SecretCalls, Sec!WipeEach(c) PROVE Sec!IndexWillBe'
  BY <1>14 DEF Sec!WipeEach
<1>15. ASSUME NEW c \in SecretCalls, Sec!WipeIndex(c) PROVE Sec!IndexWillBe'
  BY <1>15 DEF Sec!WipeIndex
<1>16. ASSUME NEW c \in SecretCalls, Sec!WipeVault(c) PROVE Sec!IndexWillBe'
  BY <1>16 DEF Sec!WipeVault
<1>17. ASSUME NEW c \in SecretCalls, Sec!RekeyList(c) PROVE Sec!IndexWillBe'
  BY <1>17 DEF Sec!RekeyList
<1>18. ASSUME NEW c \in SecretCalls, Sec!RekeyRead(c) PROVE Sec!IndexWillBe'
  BY <1>18 DEF Sec!RekeyRead
<1>19. ASSUME NEW c \in SecretCalls, Sec!RekeyTurn(c) PROVE Sec!IndexWillBe'
  BY <1>19 DEF Sec!RekeyTurn
<1>20. ASSUME NEW c \in SecretCalls, Sec!RekeySet(c) PROVE Sec!IndexWillBe'
  BY <1>20 DEF Sec!RekeySet
<1>21. ASSUME NEW c \in SecretCalls, NEW right \in BOOLEAN, Sec!Unlocked(c, right) PROVE Sec!IndexWillBe'
  BY <1>21 DEF Sec!Unlocked
<1>22. ASSUME NEW c \in SecretCalls, NEW i \in SecretIds, Sec!Set(c, i) PROVE Sec!IndexWillBe'
  <2>1. \A d \in SecretCalls : ~ (secCalls[d].op \in Sec!Indexes)
    BY <1>22 DEF Sec!Set
  <2>2. secIndex = Sec!Kept
    BY <2>1
  <2> QED
    BY <1>22, <2>1, <2>2 DEF Sec!Set
<1>23. ASSUME NEW c \in SecretCalls, NEW i \in SecretIds, Sec!Clear(c, i) PROVE Sec!IndexWillBe'
  <2>1. \A d \in SecretCalls : ~ (secCalls[d].op \in Sec!Indexes)
    BY <1>23 DEF Sec!Clear
  <2>2. secIndex = Sec!Kept
    BY <2>1
  <2> QED
    BY <1>23, <2>1, <2>2 DEF Sec!Clear
<1>24. CASE Sec!Lock
  BY <1>24 DEF Sec!Lock
<1>25. CASE Sec!Close
  BY <1>25 DEF Sec!Close
<1> HIDE DEF Sec!Staged, Sec!IsCall, Sec!Ops, Sec!Ats, Sec!UnderWay, Sec!Begin, Sec!Go,
             Sec!Idle, Sec!Ends, Sec!At, Sec!Stored, Sec!None, Sec!Keys, Sec!Noted, Sec!Meets,
             Sec!TypeOK, Sec!OneWriter, Sec!Writing, Sec!Indexes, Sec!IndexWillBe,
             Sec!CallIndex, Sec!Kept
<1> QED
  BY <1>1, <1>2, <1>3, <1>4, <1>5, <1>6, <1>7, <1>8, <1>9, <1>10, <1>11, <1>12, <1>13, <1>14,
     <1>15, <1>16, <1>17, <1>18, <1>19, <1>20, <1>21, <1>22, <1>23, <1>24, <1>25
     DEF Sec!Next, Sec!Step

LEMMA SecretBack == \A S : \A i \in S : (S \ {i}) \cup {i} = S
OBVIOUS

\* What is stored can be read, but for what rekey() has yet to store again.
LEMMA SecretReads ==
    ASSUME Sec!TypeOK, Sec!Staged, Sec!Staged', Sec!Alone, Sec!KeysAreTheVaults, Sec!IndexWillBe,
           ~secRisked', ~secMixed', Sec!Readable, Sec!Next
    PROVE  Sec!Readable'
<1> USE DEF Sec!Staged, Sec!IsCall, Sec!Ops, Sec!Ats, Sec!UnderWay, Sec!Begin, Sec!Go, Sec!Idle, Sec!Ends, Sec!At, Sec!Stored, Sec!None,
            Sec!Keys, Sec!Noted, Sec!Meets, Sec!TypeOK, Sec!Alone, Sec!Seeds, Sec!Replaces, Sec!Indexes, Sec!IndexWillBe,
            Sec!CallIndex, Sec!Kept, Sec!Readable, Sec!Owed, Sec!CallKey, Sec!KeysAreTheVaults
<1>1. ASSUME NEW c \in SecretCalls, Sec!Unlock(c) PROVE Sec!Readable'
  BY <1>1 DEF Sec!Unlock
<1>2. ASSUME NEW c \in SecretCalls, Sec!Wipe(c) PROVE Sec!Readable'
  BY <1>2 DEF Sec!Wipe
<1>3. ASSUME NEW c \in SecretCalls, Sec!Rekey(c) PROVE Sec!Readable'
  BY <1>3 DEF Sec!Rekey
<1>4. ASSUME NEW c \in SecretCalls, Sec!UnlockRead(c) PROVE Sec!Readable'
  BY <1>4 DEF Sec!UnlockRead
<1>5. ASSUME NEW c \in SecretCalls, Sec!SeedStore(c) PROVE Sec!Readable'
  BY <1>5 DEF Sec!SeedStore
<1>6. ASSUME NEW c \in SecretCalls, Sec!SeedDone(c) PROVE Sec!Readable'
  BY <1>6 DEF Sec!SeedDone
<1>7. ASSUME NEW c \in SecretCalls, Sec!SetStore(c) PROVE Sec!Readable'
  BY <1>7 DEF Sec!SetStore
<1>8. ASSUME NEW c \in SecretCalls, Sec!AddRead(c) PROVE Sec!Readable'
  BY <1>8 DEF Sec!AddRead
<1>9. ASSUME NEW c \in SecretCalls, Sec!AddSave(c) PROVE Sec!Readable'
  BY <1>9 DEF Sec!AddSave
<1>10. ASSUME NEW c \in SecretCalls, Sec!ClearDel(c) PROVE Sec!Readable'
  BY <1>10 DEF Sec!ClearDel
<1>11. ASSUME NEW c \in SecretCalls, Sec!ClearRead(c) PROVE Sec!Readable'
  BY <1>11 DEF Sec!ClearRead
<1>12. ASSUME NEW c \in SecretCalls, Sec!ClearSave(c) PROVE Sec!Readable'
  BY <1>12 DEF Sec!ClearSave
<1>13. ASSUME NEW c \in SecretCalls, Sec!WipeList(c) PROVE Sec!Readable'
  BY <1>13 DEF Sec!WipeList
<1>14. ASSUME NEW c \in SecretCalls, Sec!WipeEach(c) PROVE Sec!Readable'
  BY <1>14 DEF Sec!WipeEach
<1>15. ASSUME NEW c \in SecretCalls, Sec!WipeIndex(c) PROVE Sec!Readable'
  BY <1>15 DEF Sec!WipeIndex
<1>16. ASSUME NEW c \in SecretCalls, Sec!WipeVault(c) PROVE Sec!Readable'
  BY <1>16 DEF Sec!WipeVault
<1>17. ASSUME NEW c \in SecretCalls, Sec!RekeyList(c) PROVE Sec!Readable'
  BY <1>17 DEF Sec!RekeyList
<1>18. ASSUME NEW c \in SecretCalls, Sec!RekeyRead(c) PROVE Sec!Readable'
  BY <1>18 DEF Sec!RekeyRead
<1>19. ASSUME NEW c \in SecretCalls, Sec!RekeyTurn(c) PROVE Sec!Readable'
  BY <1>19 DEF Sec!RekeyTurn
<1>20. ASSUME NEW c \in SecretCalls, Sec!RekeySet(c) PROVE Sec!Readable'
  <2>1. secKey = secVault /\ secKey # Sec!None /\ \A d \in SecretCalls : d # c => Sec!Owed(d) = {}
    BY <1>20 DEF Sec!RekeySet
  <2>2. PICK i \in secCalls[c].todo :
            Sec!Go(c, IF secKey = Sec!None THEN Sec!Idle
                  ELSE [secCalls[c] EXCEPT !.at = "store", !.id = i, !.key = secKey, !.todo = @ \ {i}])
    BY <1>20 DEF Sec!RekeySet
  <2>3. Sec!Owed(c) = secCalls[c].todo
    BY <1>20 DEF Sec!RekeySet
  <2>a. secCalls'[c] = [secCalls[c] EXCEPT !.at = "store", !.id = i, !.key = secKey, !.todo = @ \ {i}]
    BY <2>1, <2>2 DEF Sec!Go, Sec!Staged
  <2>b. secCalls[c].op = "rekey"
    BY <1>20 DEF Sec!RekeySet
  <2>4. Sec!Owed(c)' = (secCalls[c].todo \ {i}) \cup {i}
    BY <2>a, <2>b
  <2>5. (secCalls[c].todo \ {i}) \cup {i} = secCalls[c].todo
    BY ONLY i \in secCalls[c].todo, SecretBack
  <2> QED
    BY <1>20, <2>1, <2>3, <2>4, <2>5 DEF Sec!RekeySet
<1>21. ASSUME NEW c \in SecretCalls, NEW right \in BOOLEAN, Sec!Unlocked(c, right) PROVE Sec!Readable'
  BY <1>21 DEF Sec!Unlocked
<1>22. ASSUME NEW c \in SecretCalls, NEW i \in SecretIds, Sec!Set(c, i) PROVE Sec!Readable'
  BY <1>22 DEF Sec!Set
<1>23. ASSUME NEW c \in SecretCalls, NEW i \in SecretIds, Sec!Clear(c, i) PROVE Sec!Readable'
  BY <1>23 DEF Sec!Clear
<1>24. CASE Sec!Lock
  BY <1>24 DEF Sec!Lock
<1>25. CASE Sec!Close
  <2>1. \A d \in SecretCalls : ~Sec!Seeds(d)
    BY <1>25 DEF Sec!Close
  <2>2. \A d \in SecretCalls : Sec!Owed(d) = {}
    BY <2>1
  <2> QED
    BY <1>25, <2>2 DEF Sec!Close
<1> HIDE DEF Sec!Staged, Sec!IsCall, Sec!Ops, Sec!Ats, Sec!UnderWay, Sec!Begin, Sec!Go,
             Sec!Idle, Sec!Ends, Sec!At, Sec!Stored, Sec!None, Sec!Keys, Sec!Noted, Sec!Meets,
             Sec!TypeOK, Sec!Alone, Sec!Seeds, Sec!Replaces, Sec!Indexes, Sec!IndexWillBe,
             Sec!CallIndex, Sec!Kept, Sec!Readable, Sec!Owed, Sec!CallKey, Sec!KeysAreTheVaults
<1> QED
  BY <1>1, <1>2, <1>3, <1>4, <1>5, <1>6, <1>7, <1>8, <1>9, <1>10, <1>11, <1>12, <1>13, <1>14,
     <1>15, <1>16, <1>17, <1>18, <1>19, <1>20, <1>21, <1>22, <1>23, <1>24, <1>25
     DEF Sec!Next, Sec!Step

LEMMA SecretTypes == ASSUME Sec!TypeOK, Sec!Staged, Sec!Staged', Sec!Next PROVE Sec!TypeOK'
<1> USE StoresAssumption DEF Sec!TypeOK, Sec!Noted, Sec!Begin, Sec!Meets
<1>a. \A c \in SecretCalls : Sec!IsCall(secCalls[c]) /\ Sec!IsCall(secCalls'[c])
  BY DEF Sec!Staged
<1>b. secVault \in Sec!Keys \cup {Sec!None} /\ secKey \in Sec!Keys \cup {Sec!None} /\ Sec!None \in Sec!Keys \cup {Sec!None}
      /\ (secSeeded < MaxVaults => secSeeded + 1 \in Sec!Keys /\ secSeeded + 1 \in 0 .. MaxVaults)
  BY DEF Sec!Keys
<1> USE <1>a, <1>b DEF Sec!IsCall
<1>1. ASSUME NEW c \in SecretCalls, Sec!Unlock(c) PROVE Sec!TypeOK'
  BY <1>1 DEF Sec!Unlock
<1>2. ASSUME NEW c \in SecretCalls, Sec!Wipe(c) PROVE Sec!TypeOK'
  BY <1>2 DEF Sec!Wipe
<1>3. ASSUME NEW c \in SecretCalls, Sec!Rekey(c) PROVE Sec!TypeOK'
  BY <1>3 DEF Sec!Rekey
<1>4. ASSUME NEW c \in SecretCalls, Sec!UnlockRead(c) PROVE Sec!TypeOK'
  BY <1>4 DEF Sec!UnlockRead
<1>5. ASSUME NEW c \in SecretCalls, Sec!SeedStore(c) PROVE Sec!TypeOK'
  BY <1>5 DEF Sec!SeedStore
<1>6. ASSUME NEW c \in SecretCalls, Sec!SeedDone(c) PROVE Sec!TypeOK'
  BY <1>6 DEF Sec!SeedDone
<1>7. ASSUME NEW c \in SecretCalls, Sec!SetStore(c) PROVE Sec!TypeOK'
  BY <1>7 DEF Sec!SetStore
<1>8. ASSUME NEW c \in SecretCalls, Sec!AddRead(c) PROVE Sec!TypeOK'
  BY <1>8 DEF Sec!AddRead
<1>9. ASSUME NEW c \in SecretCalls, Sec!AddSave(c) PROVE Sec!TypeOK'
  BY <1>9 DEF Sec!AddSave
<1>10. ASSUME NEW c \in SecretCalls, Sec!ClearDel(c) PROVE Sec!TypeOK'
  BY <1>10 DEF Sec!ClearDel
<1>11. ASSUME NEW c \in SecretCalls, Sec!ClearRead(c) PROVE Sec!TypeOK'
  BY <1>11 DEF Sec!ClearRead
<1>12. ASSUME NEW c \in SecretCalls, Sec!ClearSave(c) PROVE Sec!TypeOK'
  BY <1>12 DEF Sec!ClearSave
<1>13. ASSUME NEW c \in SecretCalls, Sec!WipeList(c) PROVE Sec!TypeOK'
  BY <1>13 DEF Sec!WipeList
<1>14. ASSUME NEW c \in SecretCalls, Sec!WipeEach(c) PROVE Sec!TypeOK'
  BY <1>14 DEF Sec!WipeEach
<1>15. ASSUME NEW c \in SecretCalls, Sec!WipeIndex(c) PROVE Sec!TypeOK'
  BY <1>15 DEF Sec!WipeIndex
<1>16. ASSUME NEW c \in SecretCalls, Sec!WipeVault(c) PROVE Sec!TypeOK'
  BY <1>16 DEF Sec!WipeVault
<1>17. ASSUME NEW c \in SecretCalls, Sec!RekeyList(c) PROVE Sec!TypeOK'
  BY <1>17 DEF Sec!RekeyList
<1>18. ASSUME NEW c \in SecretCalls, Sec!RekeyRead(c) PROVE Sec!TypeOK'
  BY <1>18 DEF Sec!RekeyRead
<1>19. ASSUME NEW c \in SecretCalls, Sec!RekeyTurn(c) PROVE Sec!TypeOK'
  BY <1>19 DEF Sec!RekeyTurn
<1>20. ASSUME NEW c \in SecretCalls, Sec!RekeySet(c) PROVE Sec!TypeOK'
  BY <1>20 DEF Sec!RekeySet
<1>21. ASSUME NEW c \in SecretCalls, NEW right \in BOOLEAN, Sec!Unlocked(c, right) PROVE Sec!TypeOK'
  BY <1>21 DEF Sec!Unlocked
<1>22. ASSUME NEW c \in SecretCalls, NEW i \in SecretIds, Sec!Set(c, i) PROVE Sec!TypeOK'
  BY <1>22 DEF Sec!Set
<1>23. ASSUME NEW c \in SecretCalls, NEW i \in SecretIds, Sec!Clear(c, i) PROVE Sec!TypeOK'
  BY <1>23 DEF Sec!Clear
<1>24. CASE Sec!Lock
  BY <1>24 DEF Sec!Lock
<1>25. CASE Sec!Close
  BY <1>25 DEF Sec!Close
<1> HIDE DEF Sec!TypeOK, Sec!Noted, Sec!Begin, Sec!Meets
<1> QED
  BY <1>1, <1>2, <1>3, <1>4, <1>5, <1>6, <1>7, <1>8, <1>9, <1>10, <1>11, <1>12, <1>13, <1>14,
     <1>15, <1>16, <1>17, <1>18, <1>19, <1>20, <1>21, <1>22, <1>23, <1>24, <1>25
     DEF Sec!Next, Sec!Step

\* The secrets: their invariant is kept by every step.
LEMMA SecretKeeps == ASSUME Sec!Inv, Sec!Next PROVE Sec!Inv'
<1>1. Sec!TypeOK /\ Sec!Staged /\ Sec!Staged' /\ Sec!TypeOK' /\ (secRisked => secRisked') /\ (secMixed => secMixed')
  BY SecretStaged, SecretTypes, SecretNotes DEF Sec!Inv
<1>2. secRisked' \/ (Sec!Alone' /\ Sec!KeysAreTheVaults')
  BY <1>1, SecretAlone, SecretKeys DEF Sec!Inv
<1>3. secMixed' \/ (Sec!OneWriter' /\ Sec!IndexWillBe')
  BY <1>1, SecretAlone, SecretIndex DEF Sec!Inv
<1>4. secRisked' \/ secMixed' \/ Sec!Readable'
  BY <1>1, SecretReads DEF Sec!Inv
<1> QED
  BY <1>1, <1>2, <1>3, <1>4 DEF Sec!Inv

LEMMA SecretBegin == Sec!Init => Sec!Inv
<1> SUFFICES ASSUME Sec!Init PROVE Sec!Inv
  OBVIOUS
<1>1. Sec!IsCall(Sec!Idle) /\ Sec!Idle \in [op : Sec!Ops, at : Sec!Ats, id : SecretIds \cup {Sec!None}, key : Sec!Keys \cup {Sec!None},
                                        ids : SUBSET SecretIds, todo : SUBSET SecretIds]
      /\ Sec!Idle.op = "idle" /\ Sec!Idle.at = "-"
  BY DEF Sec!IsCall, Sec!Idle, Sec!Ops, Sec!Ats
<1> HIDE DEF Sec!Idle
<1>2. Sec!Staged /\ \A c \in SecretCalls : secCalls[c].op = "idle" /\ secCalls[c].at = "-"
  BY <1>1 DEF Sec!Init, Sec!Staged
<1>3. Sec!TypeOK
  <2>1. 0 \in 0 .. MaxVaults /\ 0 \in 0 .. MaxPages /\ Sec!None \in Sec!Keys \cup {Sec!None}
    BY StoresAssumption
  <2>2. \A c \in SecretCalls : Sec!IsCall(secCalls[c])
    BY <1>2 DEF Sec!Staged
  <2> QED
    BY <2>1, <2>2, Zenon DEF Sec!Init, Sec!TypeOK, Sec!IsCall
<1>4. Sec!Alone /\ Sec!KeysAreTheVaults /\ Sec!OneWriter /\ Sec!IndexWillBe /\ Sec!Readable
  BY <1>2 DEF Sec!Init, Sec!Alone, Sec!Seeds, Sec!Replaces, Sec!UnderWay, Sec!KeysAreTheVaults, Sec!CallKey, Sec!OneWriter, Sec!Indexes,
              Sec!IndexWillBe, Sec!CallIndex, Sec!Kept, Sec!Readable, Sec!At
<1> QED
  BY <1>2, <1>3, <1>4 DEF Sec!Inv

\* It says what the secrets promise.
LEMMA SecretsPromise == ASSUME Sec!Inv PROVE Sec!SecretsReadable /\ Sec!IndexComplete /\ Sec!KeyIsTheVaults
<1>1. Sec!SecretsReadable
  BY DEF Sec!Inv, Sec!SecretsReadable, Sec!Readable, Sec!Owed, Sec!Resealing, Sec!Replaces
<1>2. Sec!IndexComplete
  BY DEF Sec!Inv, Sec!IndexComplete, Sec!IndexWillBe, Sec!Kept
<1>3. Sec!KeyIsTheVaults
  BY DEF Sec!Inv, Sec!KeyIsTheVaults, Sec!KeysAreTheVaults, Sec!Seeds, Sec!Replaces, Sec!At
<1> QED
  BY <1>1, <1>2, <1>3

\* Every secret that is stored can be read with the vault that is stored, the index lists
\* what is stored and the key in memory is the vault's, however many operations overlap
\* and wherever the page is closed between their awaits, but where a new vault or a
\* second writer of the index met another operation (secret-store.ts).
THEOREM SecretsStayReadable == Sec!Spec => []SecretsAreKept
<1>1. Sec!Init => Sec!Inv
  BY SecretBegin
<1>2. Sec!Inv /\ [Sec!Next]_(Sec!vars) => Sec!Inv'
  <2> SUFFICES ASSUME Sec!Inv, [Sec!Next]_(Sec!vars) PROVE Sec!Inv'
    OBVIOUS
  <2>1. CASE Sec!Next
    BY <2>1, SecretKeeps
  <2>2. CASE UNCHANGED Sec!vars
    BY <2>2 DEF Sec!vars, Sec!Inv, Sec!TypeOK, Sec!Staged, Sec!Alone, Sec!KeysAreTheVaults, Sec!CallKey,
                Sec!OneWriter, Sec!IndexWillBe, Sec!CallIndex, Sec!Readable, Sec!Owed, Sec!Kept,
                Sec!Writing, Sec!At, Sec!Seeds, Sec!UnderWay
  <2> QED
    BY <2>1, <2>2
<1>3. Sec!Inv => SecretsAreKept
  BY SecretsPromise DEF SecretsAreKept
<1> QED
  BY <1>1, <1>2, <1>3, PTL DEF Sec!Spec

-----------------------------------------------------------------------------
\* Of sequences and numbers.
LEMMA AppendIs ==
    ASSUME NEW S, NEW s \in Seq(S), NEW x \in S
    PROVE  /\ Append(s, x) \in Seq(S) /\ Len(s) \in Nat /\ Len(Append(s, x)) = Len(s) + 1
           /\ Append(s, x)[Len(s) + 1] = x /\ \A i \in 1..Len(s) : Append(s, x)[i] = s[i]
OBVIOUS

LEMMA TailIs ==
    ASSUME NEW S, NEW s \in Seq(S), s # <<>>
    PROVE  /\ Tail(s) \in Seq(S) /\ Len(s) \in Nat \ {0} /\ Len(Tail(s)) = Len(s) - 1
           /\ Head(s) = s[1] /\ Head(s) \in S
           /\ \A i \in 1..Len(Tail(s)) : Tail(s)[i] = s[i + 1] /\ i + 1 \in 1..Len(s)
OBVIOUS

LEMMA LeastNatural ==
    ASSUME NEW S \in SUBSET Nat, S # {}
    PROVE  \E m \in S : \A n \in S : m <= n
<1> DEFINE R == {p \in Nat \X Nat : p[1] < p[2]}
<1>1. IsWellFoundedOn(R, Nat)
  BY NatLessThanWellFounded DEF OpToRel
<1> HIDE DEF R
<1>2. PICK m \in S : \A n \in S : <<n, m>> \notin R
  BY <1>1, WFMin
<1>3. \A n \in S : ~ (n < m)
  BY <1>2 DEF R
<1> QED
  BY <1>3

\* What is taken from a sequence leaves the others.
LEMMA RemoveIs ==
    ASSUME NEW S, NEW s \in Seq(S), NEW i \in 1..Len(s)
    PROVE  /\ Ext!RemoveAt(s, i) \in Seq(S)
           /\ \A j \in 1..Len(Ext!RemoveAt(s, i)) : \E k \in 1..Len(s) : Ext!RemoveAt(s, i)[j] = s[k]
           /\ \A k \in 1..Len(s) \ {i} : \E j \in 1..Len(Ext!RemoveAt(s, i)) : Ext!RemoveAt(s, i)[j] = s[k]
<1> DEFINE a == SubSeq(s, 1, i - 1)
           b == SubSeq(s, i + 1, Len(s))
<1>0. Len(s) \in Nat /\ i \in Nat
  OBVIOUS
<1>1. a \in Seq(S) /\ Len(a) = i - 1 /\ \A j \in 1..(i - 1) : a[j] = s[j]
  BY <1>0
<1>2. b \in Seq(S) /\ Len(b) = Len(s) - i /\ \A j \in 1..(Len(s) - i) : b[j] = s[i + j]
  BY <1>0
<1>3. Ext!RemoveAt(s, i) = a \o b
  BY DEF Ext!RemoveAt
<1> HIDE DEF a, b
<1>4. /\ a \o b \in Seq(S) /\ Len(a \o b) = Len(s) - 1
      /\ \A j \in 1..(Len(s) - 1) : (a \o b)[j] = IF j < i THEN a[j] ELSE b[j - (i - 1)]
  <2>1. /\ a \o b \in Seq(S) /\ Len(a \o b) = Len(a) + Len(b)
        /\ \A j \in 1..(Len(a) + Len(b)) : (a \o b)[j] = IF j <= Len(a) THEN a[j] ELSE b[j - Len(a)]
    <3>1. a \in Seq(S) /\ b \in Seq(S)
      BY <1>1, <1>2
    <3> QED
      BY ONLY <3>1
  <2>2. Len(a) = i - 1 /\ Len(a) + Len(b) = Len(s) - 1
    BY <1>0, <1>1, <1>2
  <2>3. \A j \in 1..(Len(s) - 1) : j <= i - 1 <=> j < i
    BY <1>0
  <2> QED
    BY <2>1, <2>2, <2>3
<1>5. \A j \in 1..(Len(s) - 1) : (a \o b)[j] = IF j < i THEN s[j] ELSE s[j + 1]
  <2> SUFFICES ASSUME NEW j \in 1..(Len(s) - 1)
               PROVE  (a \o b)[j] = IF j < i THEN s[j] ELSE s[j + 1]
    OBVIOUS
  <2>1. CASE j < i
    BY <1>0, <1>1, <1>4, <2>1
  <2>2. CASE ~ (j < i)
    <3>1. j - (i - 1) \in 1..(Len(s) - i) /\ i + (j - (i - 1)) = j + 1
      BY <1>0, <2>2
    <3> QED
      BY <1>2, <1>4, <2>2, <3>1
  <2> QED
    BY <2>1, <2>2
<1>6. \A j \in 1..(Len(s) - 1) : j \in 1..Len(s) /\ j + 1 \in 1..Len(s)
  BY <1>0
<1>7. ASSUME NEW k \in 1..Len(s) \ {i}
      PROVE  \E j \in 1..(Len(s) - 1) : (a \o b)[j] = s[k]
  <2>1. CASE k < i
    <3>1. k \in 1..(Len(s) - 1)
      BY <1>0, <2>1
    <3> QED
      BY <1>5, <2>1, <3>1
  <2>2. CASE k > i
    <3>1. k - 1 \in 1..(Len(s) - 1) /\ ~ (k - 1 < i) /\ (k - 1) + 1 = k
      BY <1>0, <2>2
    <3> QED
      BY <1>5, <3>1
  <2>3. k < i \/ k > i
    <3>1. k \in Nat /\ k # i /\ i \in Nat
      BY <1>0
    <3> QED
      BY ONLY <3>1
  <2> QED
    BY ONLY <2>1, <2>2, <2>3
<1> QED
  BY <1>3, <1>4, <1>5, <1>6, <1>7

-----------------------------------------------------------------------------
\* The extension host. What waits for a teardown, and its types;
ExtOps == {"install", "disable", "uninstall", "reload", "deactivate"}
ExtWait == [op : ExtOps, m : Ext!Objects]
ExtTyped ==
    /\ extManaged \in 0..extMade /\ extMade \in 0..ExtObjects
    /\ extEnabled \in [Ext!Objects -> BOOLEAN] /\ extStatus \in [Ext!Objects -> Ext!Statuses]
    /\ extHandle \in [Ext!Objects -> BOOLEAN] /\ extGuests \in [Ext!Objects -> Nat]
    /\ extAct \in [Ext!Objects -> {"none", "load", "activate"}]
    /\ extDown \in [Ext!Objects -> {"none", "deactivate", "dispose"}]
    /\ extTarget \in [Ext!Objects -> Ext!Statuses \ {"active"}]
    /\ extCalls \in Seq(ExtWait)
\* an object is activated, or runs with its handle, or is torn down as the managed one;
ExtStage(m) ==
    /\ extDown[m] # "none" => extStatus[m] = "active" /\ extAct[m] = "none" /\ ~extHandle[m] /\ m = extManaged
    /\ extAct[m] # "none" => extStatus[m] # "active"
    /\ extDown[m] = "none" => (extHandle[m] <=> extStatus[m] = "active")
    /\ extGuests[m] = IF extHandle[m] \/ extDown[m] = "deactivate" \/ extAct[m] = "activate" THEN 1 ELSE 0
    /\ m > extMade => extStatus[m] = "installed" /\ extAct[m] = "none"
    /\ m \notin extCrossed => (extAct[m] # "none" \/ extHandle[m] => m = extManaged /\ extEnabled[m])
\* nothing runs for what waits once the teardown is over, nor for what is managed then;
ExtWaits ==
    \A c \in 1..Len(extCalls) :
        /\ extCalls[c].m <= extMade
        /\ extDown[extCalls[c].m] = "none" => /\ extStatus[extCalls[c].m] # "active"
                                              /\ extManaged = 0 \/ extStatus[extManaged] # "active"
\* and the record follows, or disable() has yet to write it.
ExtRecord ==
    extLate \/ extRecord = (IF extManaged = 0 THEN "none" ELSE Ext!Said(extEnabled[extManaged]))
            \/ \E c \in 1..Len(extCalls) : extCalls[c].op = "disable"
ExtInv == ExtTyped /\ (\A m \in Ext!Objects : ExtStage(m)) /\ ExtWaits /\ ExtRecord

LEMMA ExtFacts ==
    ASSUME ExtTyped
    PROVE  /\ ExtObjects \in Nat /\ extMade \in Nat /\ extManaged \in Nat /\ extManaged <= extMade /\ extMade <= ExtObjects
           /\ extManaged # 0 => extManaged \in Ext!Objects
           /\ \A m \in Ext!Objects : m \in Nat \ {0} /\ m <= ExtObjects
           /\ Len(extCalls) \in Nat
           /\ \A c \in 1..Len(extCalls) : extCalls[c] \in ExtWait
           /\ \A c \in 1..Len(extCalls) : extCalls[c].m \in Ext!Objects /\ extCalls[c].op \in ExtOps
<1>1. \A c \in 1..Len(extCalls) : extCalls[c] \in ExtWait
  BY DEF ExtTyped
<1>2. \A w \in ExtWait : w.m \in Ext!Objects /\ w.op \in ExtOps
  BY DEF ExtWait
<1> QED
  BY <1>1, <1>2, StoresAssumption DEF ExtTyped, Ext!Objects

\* Who goes on is one whose teardown is over, when there is one.
LEMMA ExtReady ==
    ASSUME ExtTyped
    PROVE  /\ Ext!Free => \A c \in 1..Len(extCalls) : extDown[extCalls[c].m] # "none"
           /\ ~Ext!Free => Ext!Ready \in 1..Len(extCalls) /\ extDown[extCalls[Ext!Ready].m] = "none"
<1> DEFINE I == {c \in 1..Len(extCalls) : extDown[extCalls[c].m] = "none"}
<1>1. Ext!Ready = IF I # {} THEN Ext!Min(I) ELSE 0
  BY DEF Ext!Ready, Ext!SelectInSeq
<1>2. I \subseteq Nat /\ \A c \in I : c # 0
  BY DEF ExtTyped
<1>3. ASSUME I # {} PROVE Ext!Min(I) \in I
  <2>1. \E c \in I : \A d \in I : c <= d
    BY <1>2, <1>3, LeastNatural
  <2> QED
    BY <2>1 DEF Ext!Min
<1>4. CASE I = {}
  BY <1>1, <1>4 DEF Ext!Free
<1>5. CASE I # {}
  <2>1. Ext!Ready \in I
    BY <1>1, <1>3, <1>5
  <2> QED
    BY <1>2, <2>1 DEF Ext!Free
<1> QED
  BY <1>4, <1>5

\* An operation that waits for a teardown of the managed extension, which is active.
LEMMA ExtAwait ==
    ASSUME ExtInv, Ext!Active(extManaged), NEW op \in ExtOps, NEW to \in Ext!Statuses \ {"active"},
           Ext!Await(op, extManaged, to), UNCHANGED <<extManaged, extMade, extStatus, extGuests, extAct, extRecord, extLate>>,
           extCrossed \subseteq extCrossed', extEnabled' \in [Ext!Objects -> BOOLEAN],
           \/ extEnabled' = extEnabled
           \/ op = "disable" /\ \A m \in Ext!Objects \ {extManaged} : extEnabled'[m] = extEnabled[m]
    PROVE  ExtInv'
<1>1. extManaged \in Ext!Objects /\ extStatus[extManaged] = "active" /\ extAct[extManaged] = "none"
  BY ExtFacts DEF ExtInv, Ext!Active, ExtStage
<1> DEFINE wait == [op |-> op, m |-> extManaged]
<1>2. wait \in ExtWait /\ wait.m = extManaged /\ wait.op = op
  BY <1>1 DEF ExtWait
<1>3. extCalls' = Append(extCalls, wait)
  BY DEF Ext!Await
<1> HIDE DEF wait
<1>4. /\ extCalls' \in Seq(ExtWait) /\ Len(extCalls') = Len(extCalls) + 1 /\ Len(extCalls) \in Nat
      /\ extCalls'[Len(extCalls) + 1] = wait /\ \A c \in 1..Len(extCalls) : extCalls'[c] = extCalls[c]
  BY <1>2, <1>3, AppendIs DEF ExtInv, ExtTyped
<1>5. /\ extDown' \in [Ext!Objects -> {"none", "deactivate", "dispose"}]
      /\ extTarget' \in [Ext!Objects -> Ext!Statuses \ {"active"}] /\ extHandle' \in [Ext!Objects -> BOOLEAN]
      /\ extDown'[extManaged] # "none" /\ ~extHandle'[extManaged]
      /\ extHandle[extManaged] \/ extDown[extManaged] = "deactivate" <=> extDown'[extManaged] = "deactivate"
      /\ \A m \in Ext!Objects \ {extManaged} : extDown'[m] = extDown[m] /\ extHandle'[m] = extHandle[m]
  <2>1. CASE extDown[extManaged] # "none"
    BY <1>1, <2>1 DEF Ext!Await, Ext!Teardown, ExtInv, ExtTyped, ExtStage
  <2>2. CASE extDown[extManaged] = "none"
    <3>1. /\ extHandle[extManaged] /\ extHandle \in [Ext!Objects -> BOOLEAN] /\ extTarget \in [Ext!Objects -> Ext!Statuses \ {"active"}]
          /\ extDown \in [Ext!Objects -> {"none", "deactivate", "dispose"}]
      BY <1>1, <2>2 DEF ExtInv, ExtTyped, ExtStage
    <3>2. /\ extDown' = [extDown EXCEPT ![extManaged] = "deactivate"]
          /\ extTarget' = [extTarget EXCEPT ![extManaged] = to] /\ extHandle' = [extHandle EXCEPT ![extManaged] = FALSE]
      BY <2>2, <3>1 DEF Ext!Await, Ext!Teardown
    <3> QED
      BY <1>1, <3>1, <3>2
  <2> QED
    BY <2>1, <2>2
<1>6. ExtTyped'
  BY <1>4, <1>5 DEF ExtInv, ExtTyped
<1>7. ASSUME NEW m \in Ext!Objects PROVE ExtStage(m)'
  <2>1. CASE m = extManaged
    BY <1>1, <1>5, <2>1 DEF ExtInv, ExtTyped, ExtStage
  <2>2. CASE m # extManaged
    BY <1>1, <1>5, <1>7, <2>2 DEF ExtInv, ExtTyped, ExtStage
  <2> QED
    BY <2>1, <2>2
<1>8. ExtWaits'
  <2>1. ASSUME NEW c \in 1..Len(extCalls')
        PROVE  /\ extCalls'[c].m <= extMade'
               /\ extDown'[extCalls'[c].m] = "none" => /\ extStatus'[extCalls'[c].m] # "active"
                                                       /\ extManaged' = 0 \/ extStatus'[extManaged'] # "active"
    <3>1. CASE c = Len(extCalls) + 1
      BY <1>1, <1>2, <1>4, <1>5, <3>1 DEF ExtInv, ExtTyped
    <3>2. CASE c \in 1..Len(extCalls)
      <4>1. extCalls[c].m \in Ext!Objects
        BY <3>2, ExtFacts DEF ExtInv
      <4> QED
        BY <1>1, <1>4, <1>5, <3>2, <4>1 DEF ExtInv, ExtWaits
    <3> QED
      BY <1>4, <3>1, <3>2
  <2> QED
    BY <2>1 DEF ExtWaits
<1>9. ExtRecord'
  <2>1. CASE op = "disable"
    <3>1. Len(extCalls) + 1 \in 1..Len(extCalls')
      BY <1>4
    <3> QED
      BY <1>2, <1>4, <2>1, <3>1 DEF ExtRecord
  <2>2. CASE extEnabled' = extEnabled
    <3>1. \A c \in 1..Len(extCalls) : c \in 1..Len(extCalls') /\ extCalls'[c] = extCalls[c]
      BY <1>4
    <3> QED
      BY <2>2, <3>1 DEF ExtInv, ExtRecord
  <2> QED
    BY <2>1, <2>2
<1> QED
  BY <1>6, <1>7, <1>8, <1>9 DEF ExtInv

\* A step that leaves what waits: nothing is managed anew while a teardown is under way.
LEMMA ExtStays ==
    ASSUME ExtInv, Ext!Free, UNCHANGED <<extCalls, extDown>>, extMade <= extMade', extMade' \in Nat
    PROVE  ExtWaits'
<1>1. \A c \in 1..Len(extCalls) : extDown[extCalls[c].m] # "none" /\ extCalls[c].m <= extMade /\ extCalls[c].m \in Nat
  BY ExtReady, ExtFacts DEF ExtInv, ExtWaits
<1>2. extMade \in Nat
  BY ExtFacts DEF ExtInv
<1> QED
  BY <1>1, <1>2 DEF ExtWaits

\* Steps of what is managed, while nothing is ready to go on.
LEMMA ExtMakes ==
    ASSUME ExtInv, NEW m, NEW on \in BOOLEAN, m = extMade + 1, Ext!Make(m, on), extLate => extLate',
           UNCHANGED <<extDown, extTarget, extHandle, extGuests, extAct>>,
           extManaged = 0 \/ extStatus[extManaged] # "active"
    PROVE  /\ ExtTyped /\ extCalls' \in Seq(ExtWait) => ExtTyped'
           /\ \A n \in Ext!Objects : ExtStage(n)'
           /\ extManaged' # 0 /\ extManaged' = extMade' /\ extMade' = extMade + 1 /\ extMade' \in Nat
           /\ extStatus'[extManaged'] # "active"
           /\ \A n \in Ext!Objects : n <= extMade => extStatus'[n] = extStatus[n]
           /\ extRecord' = Ext!Said(extEnabled'[extManaged'])
<1>1. /\ m \in Ext!Objects /\ extMade \in Nat /\ extMade' = m /\ extManaged' = m
      /\ extEnabled' = [extEnabled EXCEPT ![m] = on]
      /\ extStatus' = [extStatus EXCEPT ![m] = Ext!Shown(on)] /\ extRecord' = Ext!Said(on)
      /\ extCrossed' = IF extManaged # 0 /\ extAct[extManaged] # "none" THEN extCrossed \cup {extManaged} ELSE extCrossed
  BY ExtFacts DEF Ext!Make, Ext!Persist, Ext!Crosses, ExtInv
<1>2. Ext!Shown(on) \in Ext!Statuses \ {"active"}
  BY DEF Ext!Shown, Ext!Statuses
<1>3. \A n \in Ext!Objects : n \in Nat \ {0} /\ n <= ExtObjects /\ ExtObjects \in Nat
  BY StoresAssumption DEF Ext!Objects
<1>4. ExtTyped /\ extCalls' \in Seq(ExtWait) => ExtTyped'
  BY <1>1, <1>2, <1>3 DEF ExtTyped
<1>5. ASSUME NEW n \in Ext!Objects PROVE ExtStage(n)'
  <2>0. extManaged \in Nat /\ (extManaged # 0 => extManaged \in Ext!Objects /\ extDown[extManaged] = "none" /\ ~extHandle[extManaged])
    BY <1>1, <1>3, ExtFacts DEF ExtInv, ExtStage
  <2>1. CASE n = m
    <3>1. /\ extStatus[n] = "installed" /\ extAct[n] = "none" /\ extDown[n] = "none" /\ ~extHandle[n]
          /\ extGuests[n] = 0
      BY <1>1, <1>3, <2>1 DEF ExtInv, ExtTyped, ExtStage
    <3> QED
      BY <1>1, <1>2, <1>3, <2>1, <3>1 DEF ExtInv, ExtTyped, ExtStage
  <2>2. CASE n # m
    <3>1. extDown[n] = "none" /\ extStatus'[n] = extStatus[n] /\ extEnabled'[n] = extEnabled[n]
      BY <1>1, <1>3, <2>0, <2>2 DEF ExtInv, ExtTyped, ExtStage
    <3>2. n \notin extCrossed' => extAct[n] = "none" /\ ~extHandle[n]
      BY <1>1, <1>3, <1>5, <2>0 DEF ExtInv, ExtStage
    <3> QED
      BY <1>1, <1>3, <2>2, <3>1, <3>2 DEF ExtInv, ExtTyped, ExtStage
  <2> QED
    BY <2>1, <2>2
<1>6. /\ extStatus'[extManaged'] # "active"
      /\ \A n \in Ext!Objects : n <= extMade => extStatus'[n] = extStatus[n]
      /\ extRecord' = Ext!Said(extEnabled'[extManaged'])
  BY <1>1, <1>2, <1>3 DEF ExtInv, ExtTyped
<1>7. extManaged' # 0 /\ extManaged' = extMade' /\ extMade' = extMade + 1 /\ extMade' \in Nat
  BY <1>1
<1> QED
  BY <1>4, <1>5, <1>6, <1>7

LEMMA ExtInstall == ASSUME ExtInv, NEW on \in BOOLEAN, Ext!Install(on) PROVE ExtInv'
<1>1. CASE Ext!Active(extManaged)
  <2>1. extEnabled \in [Ext!Objects -> BOOLEAN] /\ "installed" \in Ext!Statuses \ {"active"} /\ "install" \in ExtOps
    BY DEF ExtInv, ExtTyped, Ext!Statuses, ExtOps
  <2>2. /\ Ext!Await("install", extManaged, "installed")
        /\ UNCHANGED <<extManaged, extMade, extEnabled, extStatus, extGuests, extAct, extRecord, extCrossed, extLate>>
    BY <1>1 DEF Ext!Install, Ext!disk
  <2> QED
    BY <1>1, <2>1, <2>2, ExtAwait
<1>2. CASE ~Ext!Active(extManaged)
  <2>1. /\ Ext!Make(extMade + 1, on) /\ UNCHANGED <<extCalls, extDown, extTarget, extHandle, extGuests, extAct, extLate>> /\ Ext!Free
    BY <1>2 DEF Ext!Install, Ext!Room
  <2>2. extManaged = 0 \/ extStatus[extManaged] # "active"
    BY <1>2 DEF Ext!Active
  <2>a. extLate => extLate'
    BY <2>1
  <2>b. /\ ExtTyped /\ extCalls' \in Seq(ExtWait) => ExtTyped'
        /\ \A n \in Ext!Objects : ExtStage(n)'
        /\ extManaged' # 0 /\ extMade' = extMade + 1 /\ extMade' \in Nat
        /\ extRecord' = Ext!Said(extEnabled'[extManaged'])
    BY <2>1, <2>2, <2>a, ExtMakes
  <2>c. ExtTyped' /\ extMade <= extMade'
    BY <2>1, <2>b, ExtFacts DEF ExtInv, ExtTyped
  <2>3. ExtTyped' /\ ExtRecord' /\ (\A n \in Ext!Objects : ExtStage(n)') /\ extMade <= extMade' /\ extMade' \in Nat
    BY <2>b, <2>c DEF ExtRecord
  <2>4. ExtWaits'
    BY <2>1, <2>3, ExtStays
  <2> QED
    BY <2>3, <2>4 DEF ExtInv
<1> QED
  BY <1>1, <1>2

\* A step of the managed extension that keeps what waits.
LEMMA ExtManaged ==
    ASSUME ExtInv, Ext!Free, extManaged # 0, UNCHANGED <<extMade, extCalls, extDown, extTarget, extGuests>>,
           ExtTyped', extLate' = extLate,
           extRecord' = (IF extManaged' = 0 THEN "none" ELSE Ext!Said(extEnabled'[extManaged'])) \/ UNCHANGED <<extManaged, extEnabled, extRecord>>,
           \A n \in Ext!Objects \ {extManaged} :
             /\ UNCHANGED <<extStatus[n], extHandle[n], extAct[n], extEnabled[n]>>
             /\ n \in extCrossed => n \in extCrossed'
             /\ extDown[n] # "none" => extManaged' = extManaged,
           \A n \in Ext!Objects : n = extManaged => ExtStage(n)'
    PROVE  ExtInv'
<1>1. extManaged \in Ext!Objects /\ extMade \in Nat
  BY ExtFacts DEF ExtInv
<1>2. ASSUME NEW n \in Ext!Objects PROVE ExtStage(n)'
  <2>1. CASE n # extManaged
    BY <1>1, <2>1 DEF ExtInv, ExtStage
  <2>2. CASE n = extManaged
    BY <2>2
  <2> QED
    BY <2>1, <2>2
<1>3. ExtWaits'
  BY <1>1, ExtStays
<1>4. ExtRecord'
  BY DEF ExtInv, ExtRecord
<1> QED
  BY <1>2, <1>3, <1>4 DEF ExtInv

LEMMA ExtSteps ==
    ASSUME ExtInv, Ext!Enable \/ Ext!Disable \/ Ext!Uninstall \/ Ext!Deactivate \/ Ext!Reload \/ \E forced \in BOOLEAN : Ext!Activate(forced)
    PROVE  ExtInv'
<1>0. /\ extManaged # 0 => extManaged \in Ext!Objects /\ ExtStage(extManaged)
      /\ ExtTyped /\ extMade \in Nat /\ extManaged \in Nat
      /\ \A n \in Ext!Objects : ExtStage(n)
  BY ExtFacts DEF ExtInv
<1>1. CASE Ext!Enable
  <2>1. ExtTyped'
    BY <1>0, <1>1 DEF Ext!Enable, ExtTyped, Ext!Statuses
  <2>2. \A n \in Ext!Objects : n = extManaged => ExtStage(n)'
    BY <1>0, <1>1 DEF Ext!Enable, ExtTyped, ExtStage
  <2> QED
    BY <1>0, <1>1, <2>1, <2>2, ExtManaged DEF Ext!Enable, Ext!Persist, Ext!Room, ExtTyped, Ext!Said
<1>2. CASE Ext!Disable
  <2>1. CASE Ext!Active(extManaged)
    <3>1. extCrossed \subseteq extCrossed'
      BY <1>2 DEF Ext!Disable, Ext!Crosses
    <3>2. /\ extEnabled' \in [Ext!Objects -> BOOLEAN]
          /\ \A m \in Ext!Objects \ {extManaged} : extEnabled'[m] = extEnabled[m]
      BY <1>0, <1>2 DEF Ext!Disable, ExtTyped
    <3> QED
      BY <1>2, <2>1, <3>1, <3>2, ExtAwait DEF Ext!Disable, Ext!disk, ExtOps, Ext!Statuses
  <2>2. CASE ~Ext!Active(extManaged)
    <3>1. ExtTyped'
      <4>1. /\ extEnabled' \in [Ext!Objects -> BOOLEAN] /\ extStatus' \in [Ext!Objects -> Ext!Statuses]
        BY <1>0, <1>2, <2>2 DEF Ext!Disable, ExtTyped, Ext!Statuses
      <4>2. UNCHANGED <<extManaged, extMade, extHandle, extGuests, extAct, extDown, extTarget, extCalls>>
        BY <1>2, <2>2 DEF Ext!Disable
      <4> QED
        BY <1>0, <4>1, <4>2 DEF ExtTyped
    <3>b. /\ extStatus' = [extStatus EXCEPT ![extManaged] = "disabled"]
          /\ extCrossed' = IF extManaged # 0 /\ extAct[extManaged] # "none" THEN extCrossed \cup {extManaged} ELSE extCrossed
          /\ UNCHANGED <<extManaged, extMade, extHandle, extGuests, extAct, extDown>> /\ extManaged # 0
      BY <1>2, <2>2 DEF Ext!Disable, Ext!Crosses
    <3>a. /\ UNCHANGED <<extManaged, extMade, extHandle, extGuests, extAct, extDown>> /\ ExtStage(extManaged)
          /\ extManaged \in Ext!Objects /\ extStatus'[extManaged] = "disabled" /\ ~(extManaged > extMade)
          /\ extStatus[extManaged] # "active"
          /\ extManaged \notin extCrossed' => extAct[extManaged] = "none"
      BY <1>0, <2>2, <3>b DEF ExtTyped, Ext!Active
    <3>2. \A n \in Ext!Objects : n = extManaged => ExtStage(n)'
      BY <3>a DEF ExtStage
    <3>3. /\ \A n \in Ext!Objects \ {extManaged} : UNCHANGED <<extStatus[n], extHandle[n], extAct[n], extEnabled[n]>>
                                            /\ (n \in extCrossed => n \in extCrossed')
          /\ extRecord' = Ext!Said(extEnabled'[extManaged']) /\ extManaged' = extManaged
      BY <1>0, <1>2, <2>2 DEF Ext!Disable, Ext!Persist, ExtTyped, Ext!Crosses, Ext!Said
    <3> QED
      BY <1>0, <1>2, <2>2, <3>1, <3>2, <3>3, ExtManaged DEF Ext!Disable, Ext!Room
  <2> QED
    BY <2>1, <2>2
<1>3. CASE Ext!Uninstall
  <2>1. CASE Ext!Active(extManaged)
    <3>1. extCrossed \subseteq extCrossed'
      BY <1>3 DEF Ext!Uninstall, Ext!Crosses
    <3> QED
      BY <1>0, <1>3, <2>1, <3>1, ExtAwait DEF Ext!Uninstall, Ext!disk, ExtOps, Ext!Statuses, ExtTyped
  <2>2. CASE ~Ext!Active(extManaged)
    <3>1. ExtTyped'
      BY <1>0, <1>3, <2>2 DEF Ext!Uninstall, ExtTyped, Ext!Forget
    <3>a. /\ extManaged \in Ext!Objects /\ ~extHandle[extManaged] /\ \A n \in Ext!Objects : extDown[n] = "none"
          /\ extCrossed' = IF extAct[extManaged] # "none" THEN extCrossed \cup {extManaged} ELSE extCrossed
      BY <1>0, <1>3, <2>2 DEF Ext!Uninstall, ExtStage, Ext!Active, Ext!Crosses
    <3>b. /\ UNCHANGED <<extMade, extEnabled, extStatus, extGuests, extAct, extLate, extCalls, extDown, extTarget, extHandle>>
          /\ extManaged' = 0 /\ extRecord' = "none"
      BY <1>3, <2>2 DEF Ext!Uninstall, Ext!Forget
    <3>2. \A n \in Ext!Objects : n \notin extCrossed' => extAct[n] = "none" /\ ~extHandle[n]
      BY <1>0, <3>a DEF ExtStage
    <3>4. ExtWaits'
      BY <1>0, <1>3, <2>2, ExtStays DEF Ext!Uninstall, Ext!Room
    <3>5. ExtRecord'
      BY <1>3, <2>2 DEF Ext!Uninstall, Ext!Forget, ExtRecord
    <3>6. \A n \in Ext!Objects : ExtStage(n)'
      BY <1>0, <3>a, <3>b, <3>2 DEF ExtStage
    <3> QED
      BY <3>1, <3>4, <3>5, <3>6 DEF ExtInv
  <2> QED
    BY <2>1, <2>2
<1>4. CASE Ext!Deactivate
  BY <1>0, <1>4, ExtAwait DEF Ext!Deactivate, Ext!disk, ExtOps, Ext!Statuses, ExtTyped
<1>5. CASE Ext!Reload
  <2>1. CASE Ext!Active(extManaged)
    BY <1>0, <1>5, <2>1, ExtAwait DEF Ext!Reload, Ext!disk, ExtOps, Ext!Statuses, ExtTyped
  <2>2. CASE ~Ext!Active(extManaged)
    <3>1. ExtTyped'
      BY <1>0, <1>5, <2>2 DEF Ext!Reload, ExtTyped, Ext!Statuses, Ext!Shown
    <3>2. \A n \in Ext!Objects : n = extManaged => ExtStage(n)'
      BY <1>0, <1>5, <2>2 DEF Ext!Reload, ExtTyped, ExtStage, Ext!Active, Ext!Shown
    <3> QED
      BY <1>0, <1>5, <2>2, <3>1, <3>2, ExtManaged DEF Ext!Reload, Ext!Persist, Ext!Room, ExtTyped
  <2> QED
    BY <2>1, <2>2
<1>6. ASSUME NEW forced \in BOOLEAN, Ext!Activate(forced) PROVE ExtInv'
  <2>1. ExtTyped'
    BY <1>0, <1>6 DEF Ext!Activate, ExtTyped
  <2>2. \A n \in Ext!Objects : n = extManaged => ExtStage(n)'
    BY <1>0, <1>6 DEF Ext!Activate, ExtTyped, ExtStage
  <2> QED
    BY <1>0, <1>6, <2>1, <2>2, ExtManaged DEF Ext!Activate, Ext!disk, ExtTyped
<1> QED
  BY <1>1, <1>2, <1>3, <1>4, <1>5, <1>6


\* What goes on leaves the others waiting.
LEMMA ExtGoesOn ==
    ASSUME ExtInv, ~Ext!Free, extCalls' = Ext!RemoveAt(extCalls, Ext!Ready), UNCHANGED extDown,
           extMade' \in Nat, extMade <= extMade', extManaged' = 0 \/ extStatus'[extManaged'] # "active",
           \A n \in Ext!Objects : n <= extMade /\ extStatus[n] # "active" => extStatus'[n] # "active"
    PROVE  extCalls' \in Seq(ExtWait) /\ ExtWaits'
<1>1. Ext!Ready \in 1..Len(extCalls) /\ extCalls \in Seq(ExtWait)
  BY ExtReady DEF ExtInv, ExtTyped
<1>2. /\ extCalls' \in Seq(ExtWait)
      /\ \A j \in 1..Len(extCalls') : \E k \in 1..Len(extCalls) : extCalls'[j] = extCalls[k]
  BY <1>1, RemoveIs
<1>3. ASSUME NEW j \in 1..Len(extCalls')
      PROVE  /\ extCalls'[j].m <= extMade'
             /\ extDown'[extCalls'[j].m] = "none" => /\ extStatus'[extCalls'[j].m] # "active"
                                                     /\ extManaged' = 0 \/ extStatus'[extManaged'] # "active"
  <2>1. PICK k \in 1..Len(extCalls) : extCalls'[j] = extCalls[k]
    BY <1>2, <1>3
  <2>2. /\ extCalls[k].m \in Ext!Objects /\ extCalls[k].m \in Nat /\ extMade \in Nat /\ extCalls[k].m <= extMade
        /\ extDown[extCalls[k].m] = "none" => extStatus[extCalls[k].m] # "active"
    BY <2>1, ExtFacts DEF ExtInv, ExtWaits
  <2> QED
    BY <2>1, <2>2
<1> QED
  BY <1>2, <1>3 DEF ExtWaits

LEMMA ExtContinue == ASSUME ExtInv, Ext!Continue PROVE ExtInv'
<1> DEFINE m == extCalls[Ext!Ready].m
           op == extCalls[Ext!Ready].op
<1>1. /\ Ext!Ready \in 1..Len(extCalls) /\ ~Ext!Free /\ m \in Ext!Objects /\ op \in ExtOps /\ m <= extMade
      /\ extDown[m] = "none" /\ extStatus[m] # "active" /\ (extManaged = 0 \/ extStatus[extManaged] # "active")
      /\ extCalls' = Ext!RemoveAt(extCalls, Ext!Ready)
      /\ (extLate' <=> (extLate \/ (op \in {"disable", "reload"} /\ m # extManaged)))
      /\ UNCHANGED <<extHandle, extGuests, extDown, extTarget, extAct>>
  BY ExtReady, ExtFacts DEF Ext!Continue, ExtInv, ExtWaits
<1>2. /\ extMade \in Nat /\ extManaged \in Nat /\ (extManaged # 0 => extManaged \in Ext!Objects) /\ ExtTyped
      /\ \A n \in Ext!Objects : ExtStage(n)
  BY ExtFacts DEF ExtInv
<1>3. \/ op = "install" /\ \E on \in BOOLEAN : Ext!Make(extMade + 1, on)
      \/ /\ op = "disable" /\ extRecord' = Ext!Said(extEnabled[m])
         /\ UNCHANGED <<extMade, extManaged, extEnabled, extStatus, extCrossed>>
      \/ /\ op = "uninstall" /\ extManaged' = 0 /\ extRecord' = "none"
         /\ Ext!Crosses(extManaged) /\ UNCHANGED <<extMade, extEnabled, extStatus>>
      \/ /\ op = "reload" /\ extStatus' = [extStatus EXCEPT ![m] = Ext!Shown(extEnabled[m])]
         /\ extRecord' = Ext!Said(extEnabled[m]) /\ UNCHANGED <<extMade, extManaged, extEnabled, extCrossed>>
      \/ /\ op = "deactivate"
         /\ UNCHANGED <<extMade, extManaged, extEnabled, extStatus, extRecord, extCrossed>>
  BY DEF Ext!Continue, Ext!Persist, Ext!Forget, Ext!disk
<1>4. \A k \in 1..Len(extCalls) : extCalls[k].op = "disable" /\ op # "disable" =>
          \E j \in 1..Len(extCalls') : extCalls'[j] = extCalls[k]
  <2>1. extCalls \in Seq(ExtWait)
    BY <1>2 DEF ExtTyped
  <2>2. \A k \in 1..Len(extCalls) \ {Ext!Ready} : \E j \in 1..Len(extCalls') : extCalls'[j] = extCalls[k]
    BY <1>1, <2>1, RemoveIs
  <2> QED
    BY <2>2
<1>5. \A n \in Ext!Objects : extDown[n] = "none"
  BY <1>1, <1>2, ExtFacts DEF ExtStage
<1> HIDE DEF m, op
<1>6. CASE op = "install"
  <2>1. PICK on \in BOOLEAN : Ext!Make(extMade + 1, on)
    BY <1>3, <1>6
  <2>2. extLate => extLate'
    BY <1>1
  <2>3. /\ ExtTyped /\ extCalls' \in Seq(ExtWait) => ExtTyped'
        /\ \A n \in Ext!Objects : ExtStage(n)'
        /\ extManaged' # 0 /\ extManaged' = extMade' /\ extMade' = extMade + 1 /\ extMade' \in Nat
        /\ extStatus'[extManaged'] # "active"
        /\ \A n \in Ext!Objects : n <= extMade => extStatus'[n] = extStatus[n]
        /\ extRecord' = Ext!Said(extEnabled'[extManaged'])
    BY <1>1, <2>1, <2>2, ExtMakes
  <2>4. extCalls' \in Seq(ExtWait) /\ ExtWaits'
    <3>1. extMade <= extMade'
      BY <1>2, <2>3
    <3> QED
      BY <1>1, <2>3, <3>1, ExtGoesOn
  <2>5. ExtRecord'
    BY <2>3 DEF ExtRecord
  <2> QED
    BY <1>2, <2>3, <2>4, <2>5 DEF ExtInv
<1>7. CASE op \in {"disable", "deactivate"}
  <2>1. UNCHANGED <<extMade, extManaged, extEnabled, extStatus, extAct, extCrossed>>
    BY <1>1, <1>3, <1>7
  <2>2. extCalls' \in Seq(ExtWait) /\ ExtWaits'
    BY <1>1, <1>2, <2>1, ExtGoesOn
  <2>3. extRecord' \in {Ext!Said(extEnabled[m]), extRecord}
    BY <1>3, <1>7
  <2>4. ExtTyped'
    BY <1>1, <1>2, <2>1, <2>2 DEF ExtTyped
  <2>5. \A n \in Ext!Objects : ExtStage(n)'
    BY <1>1, <1>2, <2>1 DEF ExtStage
  <2>6. ExtRecord'
    <3>1. CASE op = "disable"
      <4>1. extRecord' = Ext!Said(extEnabled[m])
        BY <1>3, <3>1
      <4>2. m # 0
        BY <1>1, <1>2, ExtFacts
      <4> QED
        BY <1>1, <2>1, <3>1, <4>1, <4>2 DEF ExtRecord
    <3>2. CASE op = "deactivate"
      <4>1. UNCHANGED extRecord
        BY <1>3, <3>2
      <4> QED
        BY <1>1, <1>4, <2>1, <3>2, <4>1 DEF ExtInv, ExtRecord
    <3> QED
      BY <1>7, <3>1, <3>2
  <2> QED
    BY <2>2, <2>4, <2>5, <2>6 DEF ExtInv
<1>8. CASE op = "uninstall"
  <2>1. /\ UNCHANGED <<extMade, extEnabled, extStatus, extAct>> /\ extManaged' = 0 /\ extRecord' = "none"
        /\ extCrossed' = IF extManaged # 0 /\ extAct[extManaged] # "none" THEN extCrossed \cup {extManaged} ELSE extCrossed
    BY <1>1, <1>3, <1>8 DEF Ext!Crosses
  <2>2. extCalls' \in Seq(ExtWait) /\ ExtWaits'
    BY <1>1, <1>2, <2>1, ExtGoesOn
  <2>3. ExtTyped'
    BY <1>1, <1>2, <2>1, <2>2 DEF ExtTyped
  <2>4. \A n \in Ext!Objects : ExtStage(n)'
    <3>1. \A n \in Ext!Objects : n \notin extCrossed' => extAct[n] = "none" /\ ~extHandle[n]
      BY <1>1, <1>2, <1>5, <2>1, ExtFacts DEF ExtStage
    <3> QED
      BY <1>1, <1>2, <1>5, <2>1, <3>1 DEF ExtStage
  <2>5. ExtRecord'
    BY <2>1 DEF ExtRecord
  <2> QED
    BY <2>2, <2>3, <2>4, <2>5 DEF ExtInv
<1>9. CASE op = "reload"
  <2>1. /\ extStatus' = [extStatus EXCEPT ![m] = Ext!Shown(extEnabled[m])] /\ extRecord' = Ext!Said(extEnabled[m])
        /\ UNCHANGED <<extMade, extManaged, extEnabled, extCrossed>>
    BY <1>3, <1>9
  <2>2. Ext!Shown(extEnabled[m]) \in Ext!Statuses \ {"active"}
    BY DEF Ext!Shown, Ext!Statuses
  <2>3. /\ extStatus' \in [Ext!Objects -> Ext!Statuses] /\ extStatus'[m] # "active"
        /\ \A n \in Ext!Objects : n # m => extStatus'[n] = extStatus[n]
    BY <1>1, <1>2, <2>1, <2>2 DEF ExtTyped
  <2>4. extCalls' \in Seq(ExtWait) /\ ExtWaits'
    BY <1>1, <1>2, <2>1, <2>3, ExtGoesOn
  <2>6. ExtTyped'
    BY <1>1, <1>2, <2>1, <2>3, <2>4 DEF ExtTyped
  <2>7. \A n \in Ext!Objects : ExtStage(n)'
    <3> SUFFICES ASSUME NEW n \in Ext!Objects PROVE ExtStage(n)'
      OBVIOUS
    <3>1. CASE n = m
      <4>1. m <= extMade /\ m \in Nat /\ extMade \in Nat
        BY <1>1, <1>2, ExtFacts
      <4> QED
        BY <1>1, <1>2, <2>1, <2>3, <3>1, <4>1 DEF ExtStage
    <3>2. CASE n # m
      BY <1>1, <1>2, <2>1, <2>3, <3>2 DEF ExtStage
    <3> QED
      BY <3>1, <3>2
  <2>8. ExtRecord'
    <3>1. m # 0
      BY <1>1, <1>2, ExtFacts
    <3> QED
      BY <1>1, <1>9, <2>1, <3>1 DEF ExtRecord
  <2> QED
    BY <2>4, <2>6, <2>7, <2>8 DEF ExtInv
<1> QED
  BY <1>3, <1>6, <1>7, <1>8, <1>9

\* A step of the runtime, or of the teardown, with one object.
LEMMA ExtObject ==
    ASSUME ExtInv, Ext!Free, NEW m \in Ext!Objects, UNCHANGED <<extManaged, extMade, extEnabled, extCalls, extRecord, extCrossed, extLate>>,
           ExtTyped',
           \A n \in Ext!Objects : n # m => UNCHANGED <<extStatus[n], extHandle[n], extGuests[n], extAct[n], extDown[n]>>,
           extDown'[m] = "none" => extDown[m] = "none" \/ (extDown[m] # "none" /\ extStatus'[m] # "active"),
           \A n \in Ext!Objects : n = m => ExtStage(n)'
    PROVE  ExtInv'
<1>1. \A n \in Ext!Objects : ExtStage(n)'
  BY DEF ExtInv, ExtStage
<1>2. ExtWaits'
  <2> SUFFICES ASSUME NEW c \in 1..Len(extCalls), extDown'[extCalls[c].m] = "none"
               PROVE  extStatus'[extCalls[c].m] # "active" /\ (extManaged = 0 \/ extStatus'[extManaged] # "active")
    BY DEF ExtInv, ExtWaits
  <2>1. extDown[extCalls[c].m] # "none" /\ extCalls[c].m \in Ext!Objects
    BY ExtReady, ExtFacts DEF ExtInv
  <2>2. extCalls[c].m = m
    BY <2>1
  <2>3. m = extManaged
    BY <2>1, <2>2 DEF ExtInv, ExtStage
  <2> QED
    BY <2>1, <2>2, <2>3
<1>3. ExtRecord'
  BY DEF ExtInv, ExtRecord
<1> QED
  BY <1>1, <1>2, <1>3 DEF ExtInv

LEMMA ExtRuns ==
    ASSUME ExtInv, NEW m \in Ext!Objects, NEW ok \in BOOLEAN,
           Ext!Loaded(m, ok) \/ Ext!Activated(m, ok) \/ Ext!Deactivated(m, ok) \/ Ext!TornDown(m)
    PROVE  ExtInv'
<1>0. ExtTyped /\ ExtStage(m)
  BY DEF ExtInv
<1>1. CASE Ext!Loaded(m, ok)
  <2>0. /\ extStatus[m] # "active" /\ extDown[m] = "none" /\ ~extHandle[m] /\ extGuests[m] = 0 /\ extAct[m] = "load"
    BY <1>0, <1>1 DEF Ext!Loaded, ExtStage
  <2>1. ExtTyped'
    <3>1. CASE ok
      <4>1. /\ extGuests' = [extGuests EXCEPT ![m] = 1] /\ extAct' = [extAct EXCEPT ![m] = "activate"]
            /\ UNCHANGED <<extManaged, extMade, extEnabled, extStatus, extHandle, extDown, extTarget, extCalls>>
        BY <1>1, <2>0, <3>1 DEF Ext!Loaded
      <4> QED
        BY <1>0, <4>1 DEF ExtTyped
    <3>2. CASE ~ok
      BY <1>0, <1>1, <2>0, <3>2 DEF Ext!Loaded, ExtTyped, Ext!Statuses
    <3> QED
      BY <3>1, <3>2
  <2>2. \A n \in Ext!Objects : n # m => UNCHANGED <<extStatus[n], extHandle[n], extGuests[n], extAct[n], extDown[n]>>
    BY <1>0, <1>1 DEF Ext!Loaded, ExtTyped
  <2>3. /\ UNCHANGED <<extManaged, extMade, extEnabled, extHandle, extDown, extCrossed>> /\ extStatus'[m] # "active"
        /\ \/ extAct'[m] = "none" /\ extGuests'[m] = 0 /\ (m > extMade => extStatus'[m] = extStatus[m])
           \/ extAct'[m] = "activate" /\ extGuests'[m] = 1 /\ extStatus'[m] = extStatus[m]
    BY <1>0, <1>1, <2>0 DEF Ext!Loaded, ExtTyped, ExtStage
  <2>4. \A n \in Ext!Objects : n = m => ExtStage(n)'
    BY <1>0, <2>0, <2>3 DEF ExtStage
  <2> QED
    BY <1>1, <2>0, <2>1, <2>2, <2>4, ExtObject DEF Ext!Loaded, Ext!disk
<1>2. CASE Ext!Activated(m, ok)
  <2>0. /\ extStatus[m] # "active" /\ extDown[m] = "none" /\ ~extHandle[m] /\ extGuests[m] = 1 /\ extAct[m] = "activate"
    BY <1>0, <1>2 DEF Ext!Activated, ExtStage
  <2>1. ExtTyped'
    <3>1. (IF ok THEN "active" ELSE "error") \in Ext!Statuses
      BY DEF Ext!Statuses
    <3>2. extGuests' \in [Ext!Objects -> Nat]
      BY <1>0, <1>2, <2>0 DEF Ext!Activated, Ext!FaultDisposes, ExtTyped
    <3>3. extStatus' \in [Ext!Objects -> Ext!Statuses]
      BY <1>0, <1>2, <3>1 DEF Ext!Activated, ExtTyped
    <3> QED
      BY <1>0, <1>2, <3>2, <3>3 DEF Ext!Activated, ExtTyped
  <2>2. \A n \in Ext!Objects : n # m => UNCHANGED <<extStatus[n], extHandle[n], extGuests[n], extAct[n], extDown[n]>>
    BY <1>0, <1>2 DEF Ext!Activated, Ext!FaultDisposes, ExtTyped
  <2>3. /\ UNCHANGED <<extManaged, extMade, extEnabled, extDown, extCrossed>> /\ extAct'[m] = "none" /\ extHandle'[m] = ok
        /\ extStatus'[m] = (IF ok THEN "active" ELSE "error") /\ extGuests'[m] = IF ok THEN 1 ELSE 0
    BY <1>0, <1>2, <2>0 DEF Ext!Activated, Ext!FaultDisposes, ExtTyped
  <2>4. \A n \in Ext!Objects : n = m => ExtStage(n)'
    <3>1. ~(m > extMade) /\ (m \notin extCrossed => m = extManaged /\ extEnabled[m])
      BY <1>0, <2>0 DEF ExtStage
    <3>2. CASE ok
      BY <2>0, <2>3, <3>1, <3>2 DEF ExtStage
    <3>3. CASE ~ok
      BY <2>0, <2>3, <3>1, <3>3 DEF ExtStage
    <3> QED
      BY <3>2, <3>3
  <2> QED
    BY <1>2, <2>0, <2>1, <2>2, <2>4, ExtObject DEF Ext!Activated, Ext!disk
<1>3. CASE Ext!Deactivated(m, ok)
  <2>0. /\ extStatus[m] = "active" /\ ~extHandle[m] /\ extGuests[m] = 1 /\ extAct[m] = "none" /\ m = extManaged /\ ~(m > extMade)
        /\ extDown[m] = "deactivate"
    BY <1>0, <1>3 DEF Ext!Deactivated, ExtStage
  <2>1. ExtTyped'
    <3>1. extGuests' \in [Ext!Objects -> Nat]
      BY <1>0, <1>3, <2>0 DEF Ext!Deactivated, ExtTyped
    <3>2. "error" \in Ext!Statuses \ {"active"}
      BY DEF Ext!Statuses
    <3>3. extTarget' \in [Ext!Objects -> Ext!Statuses \ {"active"}]
      BY <1>0, <1>3, <3>2 DEF Ext!Deactivated, ExtTyped
    <3> QED
      BY <1>0, <1>3, <3>1, <3>3 DEF Ext!Deactivated, ExtTyped
  <2>2. /\ \A n \in Ext!Objects : n # m => UNCHANGED <<extStatus[n], extHandle[n], extGuests[n], extAct[n], extDown[n]>>
        /\ extDown'[m] = "dispose" /\ extGuests'[m] = 0
    BY <1>0, <1>3, <2>0 DEF Ext!Deactivated, ExtTyped
  <2>4. \A n \in Ext!Objects : n = m => ExtStage(n)'
    BY <1>3, <2>0, <2>2 DEF ExtStage, Ext!Deactivated
  <2> QED
    BY <1>3, <2>1, <2>2, <2>4, ExtObject DEF Ext!Deactivated, Ext!disk
<1>4. CASE Ext!TornDown(m)
  <2>0. /\ extStatus[m] = "active" /\ ~extHandle[m] /\ extGuests[m] = 0 /\ extAct[m] = "none" /\ m = extManaged /\ ~(m > extMade)
        /\ extDown[m] = "dispose" /\ extTarget[m] \in Ext!Statuses \ {"active"}
    BY <1>0, <1>4 DEF Ext!TornDown, ExtStage, ExtTyped
  <2>1. ExtTyped'
    BY <1>0, <1>4, <2>0 DEF Ext!TornDown, ExtTyped, Ext!Statuses
  <2>2. /\ \A n \in Ext!Objects : n # m => UNCHANGED <<extStatus[n], extHandle[n], extGuests[n], extAct[n], extDown[n]>>
        /\ extDown'[m] = "none" /\ extStatus'[m] # "active"
    BY <1>0, <1>4, <2>0 DEF Ext!TornDown, ExtTyped
  <2>4. \A n \in Ext!Objects : n = m => ExtStage(n)'
    BY <1>4, <2>0, <2>2 DEF ExtStage, Ext!TornDown
  <2> QED
    BY <1>4, <2>0, <2>1, <2>2, <2>4, ExtObject DEF Ext!TornDown, Ext!disk
<1> QED
  BY <1>1, <1>2, <1>3, <1>4

\* What is stored: operations that are storing together do the same to the index;
ExtAdding(i) == extSaves[i].kind = "add" /\ (extSaves[i].at = "record" \/ (extSaves[i].at = "read" /\ ~extSaves[i].had))
ExtDropping(i) == extSaves[i].kind = "drop" /\ extSaves[i].at \in {"record", "read"}
\* the index names what is managed, or an operation has yet to see to it;
ExtAlike == \A i, j \in ExtSlots : Ext!Busy(i) /\ Ext!Busy(j) => extSaves[i].kind = extSaves[j].kind
ExtNamed == /\ \A i \in ExtSlots : Ext!Busy(i) => extSaves[i].kind # "drop"
            /\ extIndexed \/ \E i \in ExtSlots : ExtAdding(i)
ExtGone == /\ \A i \in ExtSlots : Ext!Busy(i) => extSaves[i].kind # "add"
           /\ ~extIndexed \/ \E i \in ExtSlots : ExtDropping(i)
\* what was read is what the index says;
ExtHeard(i) == extSaves[i].at = "read" =>
    /\ extSaves[i].kind = "add" /\ extSaves[i].had => extIndexed
    /\ extSaves[i].kind = "copy" => (extSaves[i].had <=> extIndexed)
ExtIndex ==
    /\ ExtAlike /\ \A i \in ExtSlots : ExtHeard(i)
    /\ extManaged # 0 => ExtNamed
    /\ extManaged = 0 => ExtGone
\* and reload() activates an object that was made.
ExtDisk ==
    /\ extSaves \in [ExtSlots -> Ext!Saves] /\ extIndexed \in BOOLEAN
    /\ \A i \in ExtSlots : extSaves[i].again <= extMade
    /\ extLate \/ extCollided \/ ExtIndex

\* Steps that do not store.
LEMMA ExtDiskRests ==
    ASSUME ExtDisk, UNCHANGED <<extSaves, extIndexed, extCollided>>, extMade' = extMade,
           extManaged' = extManaged, extLate => extLate'
    PROVE  ExtDisk'
BY DEF ExtDisk, ExtIndex, ExtAlike, ExtHeard, ExtNamed, ExtGone, ExtAdding, ExtDropping, Ext!Busy

\* An operation begins to store.
LEMMA ExtDiskBegins ==
    ASSUME ExtDisk, NEW kind \in {"add", "drop", "copy"}, NEW at \in {"record", "read"}, NEW had \in BOOLEAN,
           NEW again \in 0..ExtObjects, again <= extMade', extMade \in Nat, extMade' \in Nat, extMade <= extMade',
           Ext!Begin(kind, at, had, again), UNCHANGED extIndexed, extLate => extLate',
           \/ kind = "add" /\ at = "record" /\ (extManaged' # 0 \/ extLate')
           \/ kind = "drop" /\ at = "record" /\ extManaged' = 0
           \/ kind = "copy" /\ at = "read" /\ had = extIndexed /\ extManaged' = extManaged
    PROVE  ExtDisk'
<1> DEFINE new == [kind |-> kind, at |-> at, had |-> had, again |-> again]
<1>1. PICK i \in ExtSlots : ~Ext!Busy(i) /\ extSaves' = [extSaves EXCEPT ![i] = new]
  BY DEF Ext!Begin
<1>2. new \in Ext!Saves /\ new.kind = kind /\ new.at = at /\ new.had = had /\ new.again = again
  BY DEF Ext!Saves
<1> HIDE DEF new
<1>3. /\ extSaves' \in [ExtSlots -> Ext!Saves] /\ extSaves'[i] = new
      /\ \A j \in ExtSlots \ {i} : extSaves'[j] = extSaves[j]
  BY <1>1, <1>2 DEF ExtDisk
<1>4. \A j \in ExtSlots : extSaves'[j].again <= extMade'
  <2>1. \A j \in ExtSlots : extSaves[j].again \in Nat /\ extSaves[j].again <= extMade
    BY StoresAssumption DEF ExtDisk, Ext!Saves
  <2> QED
    BY <1>2, <1>3, <2>1
<1>5. extCollided => extCollided'
  BY DEF Ext!Begin
<1>6. ASSUME ~extCollided', ~extLate' PROVE ExtIndex'
  <2>1. ExtIndex /\ \A j \in ExtSlots : Ext!Busy(j) => extSaves[j].kind = kind
    BY <1>5, <1>6 DEF ExtDisk, Ext!Begin
  <2>2. /\ Ext!Busy(i)' /\ at # "none" /\ \A j \in ExtSlots \ {i} : Ext!Busy(j)' <=> Ext!Busy(j)
        /\ \A j \in ExtSlots : Ext!Busy(j)' => extSaves'[j].kind = kind
    BY <1>2, <1>3, <2>1 DEF Ext!Busy
  <2>3. /\ \A j \in ExtSlots : ExtAdding(j) => Ext!Busy(j) /\ j # i /\ ExtAdding(j)'
        /\ \A j \in ExtSlots : ExtDropping(j) => Ext!Busy(j) /\ j # i /\ ExtDropping(j)'
    BY <1>1, <1>3 DEF ExtAdding, ExtDropping, Ext!Busy
  <2>4. ExtAlike' /\ \A j \in ExtSlots : ExtHeard(j)'
    <3>1. ASSUME NEW j \in ExtSlots PROVE ExtHeard(j)'
      <4>1. CASE j = i
        BY <1>2, <1>3, <4>1 DEF ExtHeard
      <4>2. CASE j # i
        BY <1>3, <2>1, <4>2 DEF ExtIndex, ExtHeard
      <4> QED
        BY <4>1, <4>2
    <3>2. ExtAlike'
      BY <2>2 DEF ExtAlike
    <3> QED
      BY <3>1, <3>2
  <2>5. CASE kind = "add" /\ at = "record" /\ extManaged' # 0
    <3>1. ExtAdding(i)'
      BY <1>2, <1>3, <2>5 DEF ExtAdding
    <3>2. ExtNamed'
      BY <2>2, <2>5, <3>1 DEF ExtNamed
    <3> QED
      BY <2>4, <2>5, <3>2 DEF ExtIndex
  <2>6. CASE kind = "drop" /\ at = "record" /\ extManaged' = 0
    <3>1. ExtDropping(i)'
      BY <1>2, <1>3, <2>6 DEF ExtDropping
    <3>2. ExtGone'
      BY <2>2, <2>6, <3>1 DEF ExtGone
    <3> QED
      BY <2>4, <2>6, <3>2 DEF ExtIndex
  <2>7. CASE kind = "copy" /\ at = "read" /\ extManaged' = extManaged
    <3>1. ExtNamed => ExtNamed'
      BY <2>2, <2>3, <2>7 DEF ExtNamed
    <3>2. ExtGone => ExtGone'
      BY <2>2, <2>3, <2>7 DEF ExtGone
    <3> QED
      BY <2>1, <2>4, <2>7, <3>1, <3>2 DEF ExtIndex
  <2> QED
    BY <1>6, <2>5, <2>6, <2>7
<1>7. extIndexed' \in BOOLEAN
  BY DEF ExtDisk
<1> QED
  BY <1>3, <1>4, <1>6, <1>7 DEF ExtDisk

\* The steps of an operation that is storing.
LEMMA ExtStores ==
    ASSUME ExtDisk, ExtTyped, NEW i \in ExtSlots, Ext!Reads(i) \/ Ext!Writes(i) \/ Ext!Saved(i)
    PROVE  ExtDisk'
<1>1. /\ UNCHANGED <<extManaged, extMade, extLate, extCollided>> /\ extSaves[i].at \in {"record", "read", "write"}
      /\ extSaves \in [ExtSlots -> Ext!Saves] /\ extSaves[i] \in Ext!Saves
  BY DEF Ext!Reads, Ext!Writes, Ext!Saved, ExtDisk
<1>2. PICK new \in Ext!Saves :
        /\ extSaves' = [extSaves EXCEPT ![i] = new] /\ new.again <= extMade
        /\ \/ new.at = "none"
           \/ new.at \in {"read", "write"} /\ new.kind = extSaves[i].kind
        /\ \/ Ext!Reads(i) /\ new.at = "read" /\ new.had = extIndexed
           \/ Ext!Writes(i) /\ new.at # "read"
           \/ Ext!Saved(i) /\ new.at = "none"
  <2>1. Ext!NoSave \in Ext!Saves /\ Ext!NoSave.at = "none" /\ Ext!NoSave.again <= extMade
    BY ExtFacts, StoresAssumption DEF Ext!NoSave, Ext!Saves
  <2>2. CASE Ext!Reads(i)
    <3> DEFINE new == [extSaves[i] EXCEPT !.at = "read", !.had = extIndexed]
    <3>1. extIndexed \in BOOLEAN /\ extSaves' = [extSaves EXCEPT ![i] = new]
      BY <2>2 DEF Ext!Reads, ExtDisk
    <3>2. new \in Ext!Saves /\ new.at = "read" /\ new.had = extIndexed /\ new.kind = extSaves[i].kind /\ new.again = extSaves[i].again
      BY <1>1, <3>1 DEF Ext!Saves
    <3> HIDE DEF new
    <3> QED
      BY <2>2, <3>1, <3>2 DEF ExtDisk
  <2>3. CASE Ext!Writes(i)
    <3>1. CASE extSaves[i].again = 0
      <4>1. extSaves' = [extSaves EXCEPT ![i] = Ext!NoSave]
        BY <1>1, <2>3, <3>1 DEF Ext!Writes
      <4>2. Ext!NoSave.at # "read" /\ Ext!NoSave \in Ext!Saves /\ Ext!NoSave.at = "none" /\ Ext!NoSave.again <= extMade
        BY <2>1
      <4> DEFINE n == Ext!NoSave
      <4>3. n \in Ext!Saves /\ n.again <= extMade /\ n.at = "none" /\ n.at # "read" /\ extSaves' = [extSaves EXCEPT ![i] = n]
        BY <4>1, <4>2
      <4> HIDE DEF n
      <4> QED
        BY <2>3, <4>3
    <3>2. CASE extSaves[i].again # 0
      <4> DEFINE n == [extSaves[i] EXCEPT !.at = "write"]
      <4>1. extSaves' = [extSaves EXCEPT ![i] = n]
        BY <1>1, <2>3, <3>2 DEF Ext!Writes
      <4>2. n \in Ext!Saves /\ n.at = "write" /\ n.at # "read" /\ n.kind = extSaves[i].kind /\ n.again = extSaves[i].again
        BY <1>1 DEF Ext!Saves
      <4>3. extSaves[i].again <= extMade
        BY DEF ExtDisk
      <4> HIDE DEF n
      <4> QED
        BY <2>3, <4>1, <4>2, <4>3
    <3> QED
      BY <3>1, <3>2
  <2>4. CASE Ext!Saved(i)
    BY <1>1, <2>1, <2>4 DEF Ext!Saved
  <2> QED
    BY <2>2, <2>3, <2>4
<1>3. /\ extSaves' \in [ExtSlots -> Ext!Saves] /\ extSaves'[i] = new
      /\ \A j \in ExtSlots \ {i} : extSaves'[j] = extSaves[j]
  BY <1>1, <1>2
<1>4. \A j \in ExtSlots : extSaves'[j].again <= extMade'
  BY <1>1, <1>2, <1>3 DEF ExtDisk
<1>5. ASSUME ExtIndex PROVE ExtIndex'
  <2>0. /\ ExtAlike /\ (\A j \in ExtSlots : ExtHeard(j)) /\ extManaged' = extManaged
        /\ extManaged # 0 => ExtNamed
        /\ extManaged = 0 => ExtGone
    BY <1>1, <1>5 DEF ExtIndex
  <2>1. /\ Ext!Busy(i) /\ \A j \in ExtSlots : Ext!Busy(j)' => Ext!Busy(j) /\ extSaves'[j].kind = extSaves[j].kind
        /\ \A j \in ExtSlots : Ext!Busy(j) => extSaves[j].kind = extSaves[i].kind
    BY <1>1, <1>2, <1>3, <2>0 DEF Ext!Busy, ExtAlike
  <2>2. ASSUME NEW j \in ExtSlots, j # i
        PROVE  /\ ExtAdding(j) => ExtAdding(j)' /\ extSaves[i].kind = "add"
               /\ ExtDropping(j) => ExtDropping(j)' /\ extSaves[i].kind = "drop"
    BY <1>3, <2>1, <2>2 DEF ExtAdding, ExtDropping, Ext!Busy
  <2>3. ExtAlike'
    BY <2>1 DEF ExtAlike
  <2>4. /\ ExtNamed => \A j \in ExtSlots : Ext!Busy(j)' => extSaves'[j].kind # "drop"
        /\ ExtGone => \A j \in ExtSlots : Ext!Busy(j)' => extSaves'[j].kind # "add"
        /\ ExtNamed => extSaves[i].kind # "drop"
        /\ ExtGone => extSaves[i].kind # "add"
    BY <2>1 DEF ExtNamed, ExtGone
  <2>5. CASE extIndexed' = extIndexed /\ (ExtAdding(i) => ExtAdding(i)' \/ extIndexed) /\ (ExtDropping(i) => ExtDropping(i)')
                /\ ExtHeard(i)'
    <3>1. ASSUME ExtNamed PROVE ExtNamed'
      <4>1. extIndexed' \/ \E j \in ExtSlots : ExtAdding(j)'
        <5>1. CASE extIndexed
          BY <2>5, <5>1
        <5>2. CASE ~extIndexed
          <6>1. PICK j \in ExtSlots : ExtAdding(j)
            BY <3>1, <5>2 DEF ExtNamed
          <6>2. ExtAdding(j)'
            BY <2>2, <2>5, <5>2, <6>1
          <6> QED
            BY <6>2
        <5> QED
          BY <5>1, <5>2
      <4> QED
        BY <2>4, <3>1, <4>1 DEF ExtNamed
    <3>2. ASSUME ExtGone PROVE ExtGone'
      <4>1. ~extIndexed' \/ \E j \in ExtSlots : ExtDropping(j)'
        <5>1. CASE ~extIndexed
          BY <2>5, <5>1
        <5>2. CASE extIndexed
          <6>1. PICK j \in ExtSlots : ExtDropping(j)
            BY <3>2, <5>2 DEF ExtGone
          <6>2. ExtDropping(j)'
            BY <2>2, <2>5, <5>2, <6>1
          <6> QED
            BY <6>2
        <5> QED
          BY <5>1, <5>2
      <4> QED
        BY <2>4, <3>2, <4>1 DEF ExtGone
    <3>3. ASSUME NEW j \in ExtSlots PROVE ExtHeard(j)'
      <4>1. CASE j # i
        <5>1. extSaves'[j] = extSaves[j]
          BY <1>3, <4>1
        <5> QED
          BY <2>0, <2>5, <5>1 DEF ExtHeard
      <4> QED
        BY <2>5, <4>1
    <3> QED
      BY <2>0, <2>3, <3>1, <3>2, <3>3 DEF ExtIndex
  <2>6. CASE Ext!Reads(i)
    <3>1. extIndexed' = extIndexed /\ new.at = "read" /\ new.had = extIndexed /\ new.kind = extSaves[i].kind
      BY <1>2, <2>6 DEF Ext!Reads, Ext!Writes, Ext!Saved
    <3>2. (ExtDropping(i) => ExtDropping(i)') /\ (ExtAdding(i) => ExtAdding(i)' \/ extIndexed)
      BY <1>3, <3>1 DEF ExtDropping, ExtAdding
    <3>3. ExtHeard(i)'
      BY <1>3, <3>1 DEF ExtHeard
    <3> QED
      BY <2>5, <3>1, <3>2, <3>3
  <2>7. CASE Ext!Writes(i)
    <3>1. /\ extSaves[i].at = "read" /\ ~(extSaves[i].kind = "add" /\ extSaves[i].had) /\ new.at # "read"
          /\ extIndexed' = IF extSaves[i].kind = "copy" THEN extSaves[i].had ELSE extSaves[i].kind = "add"
      BY <1>2, <2>7 DEF Ext!Reads, Ext!Writes, Ext!Saved
    <3>2. \A j \in ExtSlots : extSaves'[j].at = "read" => extSaves'[j].kind = extSaves[i].kind
      <4>1. \A j \in ExtSlots : extSaves'[j].at = "read" => Ext!Busy(j)'
        BY DEF Ext!Busy
      <4> QED
        BY <2>1, <4>1
    <3>3. CASE extSaves[i].kind = "add"
      <4>1. extManaged # 0 /\ ExtNamed /\ extIndexed'
        BY <2>0, <2>4, <3>1, <3>3
      <4>2. ExtNamed'
        BY <2>4, <4>1 DEF ExtNamed
      <4>3. \A j \in ExtSlots : ExtHeard(j)'
        BY <3>2, <3>3, <4>1 DEF ExtHeard
      <4> QED
        BY <2>0, <2>3, <4>1, <4>2, <4>3 DEF ExtIndex
    <3>4. CASE extSaves[i].kind = "drop"
      <4>1. extManaged = 0 /\ ExtGone /\ ~extIndexed'
        BY <2>0, <2>4, <3>1, <3>4
      <4>2. ExtGone'
        BY <2>4, <4>1 DEF ExtGone
      <4>3. \A j \in ExtSlots : ExtHeard(j)'
        BY <3>2, <3>4 DEF ExtHeard
      <4> QED
        BY <2>0, <2>3, <4>1, <4>2, <4>3 DEF ExtIndex
    <3>5. CASE extSaves[i].kind = "copy"
      <4>1. extIndexed' = extIndexed
        <5>1. extIndexed \in BOOLEAN /\ extSaves[i].had \in BOOLEAN
          BY <1>1 DEF ExtDisk, Ext!Saves
        <5>2. extSaves[i].had <=> extIndexed
          BY <2>0, <3>1, <3>5 DEF ExtHeard
        <5> QED
          BY <3>1, <3>5, <5>1, <5>2
      <4>2. ~ExtAdding(i) /\ ~ExtDropping(i)
        BY <3>5 DEF ExtAdding, ExtDropping
      <4>3. ExtHeard(i)'
        BY <1>3, <3>1 DEF ExtHeard
      <4> QED
        BY <2>5, <4>1, <4>2, <4>3
    <3> QED
      BY <1>1, <3>3, <3>4, <3>5 DEF Ext!Saves
  <2>8. CASE Ext!Saved(i)
    <3>1. /\ extIndexed' = extIndexed /\ new.at = "none"
          /\ extSaves[i].at = "write" \/ (extSaves[i].at = "read" /\ extSaves[i].kind = "add" /\ extSaves[i].had)
      BY <1>2, <2>8 DEF Ext!Reads, Ext!Writes, Ext!Saved
    <3>2. ~ExtAdding(i) /\ ~ExtDropping(i)
      BY <3>1 DEF ExtAdding, ExtDropping
    <3>3. ExtHeard(i)'
      BY <1>3, <3>1 DEF ExtHeard
    <3> QED
      BY <2>5, <3>1, <3>2, <3>3
  <2> QED
    BY <2>6, <2>7, <2>8
<1>6. extIndexed' \in BOOLEAN
  <2>1. CASE Ext!Writes(i)
    BY <1>1, <2>1 DEF Ext!Writes, Ext!Saves
  <2>2. CASE Ext!Reads(i) \/ Ext!Saved(i)
    BY <2>2 DEF Ext!Reads, Ext!Saved, ExtDisk
  <2> QED
    BY <2>1, <2>2
<1> QED
  BY <1>1, <1>3, <1>4, <1>5, <1>6 DEF ExtDisk

\* reload() activates, when its object is enabled and does not run.
LEMMA ExtSaved == ASSUME ExtInv, ExtDisk, NEW i \in ExtSlots, Ext!Saved(i) PROVE ExtInv'
<1> DEFINE m == extSaves[i].again
<1>1. /\ ExtTyped /\ Ext!Free /\ m <= extMade /\ m \in 0..ExtObjects /\ extMade \in Nat
      /\ UNCHANGED <<extManaged, extMade, extEnabled, extStatus, extHandle, extGuests, extDown, extTarget,
                     extCalls, extLate, extRecord>>
  BY ExtFacts DEF Ext!Saved, ExtInv, ExtDisk, Ext!Saves
<1>2. CASE m = 0
  BY <1>1, <1>2 DEF Ext!Saved, ExtInv, ExtTyped, ExtStage, ExtWaits, ExtRecord
<1>3. CASE m # 0
  <2>1. /\ m \in Ext!Objects /\ extAct' = (IF Ext!Activates(m) THEN [extAct EXCEPT ![m] = "load"] ELSE extAct)
        /\ extCrossed' = IF extManaged # m /\ extAct'[m] # "none" THEN extCrossed \cup {m} ELSE extCrossed
    BY <1>1, <1>3 DEF Ext!Saved, Ext!Objects
  <2> HIDE DEF m
  <2>2. /\ ExtTyped' /\ \A n \in Ext!Objects : n # m => extAct'[n] = extAct[n]
        /\ extAct'[m] = extAct[m] \/ (extAct[m] = "none" /\ extAct'[m] = "load" /\ extEnabled[m] /\ extStatus[m] # "active")
    BY <1>1, <2>1 DEF Ext!Activates, ExtTyped
  <2>3. ASSUME NEW n \in Ext!Objects PROVE ExtStage(n)'
    <3>1. CASE n = m
      <4>1. ExtStage(m) /\ m \in Nat
        BY <1>1, <2>1 DEF ExtInv
      <4> QED
        BY <1>1, <2>1, <2>2, <3>1, <4>1 DEF ExtStage
    <3>2. CASE n # m
      <4>1. n \notin extCrossed' => n \notin extCrossed
        BY <2>1
      <4> QED
        BY <1>1, <2>2, <3>2, <4>1 DEF ExtInv, ExtStage
    <3> QED
      BY <3>1, <3>2
  <2>4. ExtWaits' /\ ExtRecord'
    BY <1>1 DEF ExtInv, ExtWaits, ExtRecord
  <2> QED
    BY <2>2, <2>3, <2>4 DEF ExtInv
<1> QED
  BY <1>2, <1>3

LEMMA ExtKeep == ASSUME ExtInv, ExtDisk, Ext!Next PROVE ExtInv'
<1>1. CASE Ext!Enable \/ Ext!Disable \/ Ext!Uninstall \/ Ext!Deactivate \/ Ext!Reload \/ \E forced \in BOOLEAN : Ext!Activate(forced)
  BY <1>1, ExtSteps
<1>2. CASE Ext!Continue
  BY <1>2, ExtContinue
<1>3. ASSUME NEW on \in BOOLEAN, Ext!Install(on) PROVE ExtInv'
  BY <1>3, ExtInstall
<1>4. ASSUME NEW m \in Ext!Objects, NEW ok \in BOOLEAN,
             Ext!Loaded(m, ok) \/ Ext!Activated(m, ok) \/ Ext!Deactivated(m, ok) \/ Ext!TornDown(m)
      PROVE  ExtInv'
  BY <1>4, ExtRuns
<1>5. ASSUME NEW i \in ExtSlots, Ext!Reads(i) \/ Ext!Writes(i) PROVE ExtInv'
  BY <1>5 DEF Ext!Reads, Ext!Writes, ExtInv, ExtTyped, ExtStage, ExtWaits, ExtRecord
<1>6. ASSUME NEW i \in ExtSlots, Ext!Saved(i) PROVE ExtInv'
  BY <1>6, ExtSaved
<1>7. CASE Ext!Other
  BY <1>7 DEF Ext!Other, ExtInv, ExtTyped, ExtStage, ExtWaits, ExtRecord
<1> QED
  BY <1>1, <1>2, <1>3, <1>4, <1>5, <1>6, <1>7 DEF Ext!Next

LEMMA ExtDiskKeep == ASSUME ExtInv, ExtDisk, Ext!Next PROVE ExtDisk'
<1>1. /\ ExtTyped /\ extMade \in Nat /\ extManaged \in Nat /\ extManaged <= extMade /\ ExtObjects \in Nat /\ extMade <= ExtObjects
      /\ 0 \in 0..ExtObjects
  BY ExtFacts DEF ExtInv
<1>2. ASSUME NEW on, extManaged' # 0 \/ extLate', extMade' \in Nat, extMade <= extMade', extLate => extLate',
             NEW again \in 0..ExtObjects, again <= extMade', Ext!Persist(on, again)
      PROVE  ExtDisk'
  <2>1. Ext!Begin("add", "record", FALSE, again) /\ UNCHANGED extIndexed
    BY <1>2 DEF Ext!Persist
  <2> QED
    BY <1>1, <1>2, <2>1, ExtDiskBegins
<1>3. ASSUME extMade' = extMade, extLate => extLate', Ext!Forget PROVE ExtDisk'
  <2>1. Ext!Begin("drop", "record", FALSE, 0) /\ UNCHANGED extIndexed /\ extManaged' = 0
    BY <1>3 DEF Ext!Forget
  <2>2. extMade \in Nat /\ extMade' \in Nat /\ extMade <= extMade' /\ 0 <= extMade' /\ 0 \in 0..ExtObjects
    BY <1>1, <1>3
  <2>3. extLate => extLate'
    BY <1>3
  <2> QED
    BY <2>1, <2>2, <2>3, ExtDiskBegins
<1>4. ASSUME NEW on, extLate => extLate', Ext!Make(extMade + 1, on) PROVE ExtDisk'
  <2>1. Ext!Persist(on, 0) /\ extMade' = extMade + 1 /\ extManaged' = extMade + 1
    BY <1>4 DEF Ext!Make
  <2>2. extManaged' # 0 /\ extMade' \in Nat /\ extMade <= extMade' /\ 0 <= extMade'
    BY <1>1, <2>1
  <2> QED
    BY <1>1, <1>2, <1>4, <2>1, <2>2
<1>5. CASE Ext!Enable \/ Ext!Disable \/ Ext!Uninstall \/ Ext!Deactivate \/ Ext!Reload \/ \E forced \in BOOLEAN : Ext!Activate(forced)
  <2>1. CASE UNCHANGED Ext!disk /\ UNCHANGED <<extManaged, extMade, extLate>>
    BY <2>1, ExtDiskRests DEF Ext!disk
  <2>2. ASSUME NEW on, Ext!Persist(on, 0), extManaged # 0, UNCHANGED <<extManaged, extMade, extLate>> PROVE ExtDisk'
    <3>1. 0 <= extMade' /\ extMade' \in Nat /\ extMade <= extMade'
      BY <1>1, <2>2
    <3> QED
      BY <1>1, <1>2, <2>2, <3>1
  <2>3. CASE Ext!Forget /\ UNCHANGED <<extMade, extLate>>
    BY <1>3, <2>3
  <2> QED
    BY <1>5, <2>1, <2>2, <2>3 DEF Ext!Enable, Ext!Disable, Ext!Uninstall, Ext!Deactivate, Ext!Reload, Ext!Activate
<1>6. CASE Ext!Continue
  <2> DEFINE m == extCalls[Ext!Ready].m
             op == extCalls[Ext!Ready].op
  <2>1. /\ m \in Ext!Objects /\ m <= extMade /\ m # 0 /\ m \in 0..ExtObjects
        /\ (extLate' <=> (extLate \/ (op \in {"disable", "reload"} /\ m # extManaged)))
    <3>1. Ext!Ready \in 1..Len(extCalls) /\ m \in Ext!Objects /\ m <= extMade
      BY <1>6, ExtReady, ExtFacts DEF Ext!Continue, ExtInv, ExtWaits
    <3>2. extLate' <=> (extLate \/ (op \in {"disable", "reload"} /\ m # extManaged))
      BY <1>6 DEF Ext!Continue
    <3>3. \A n \in Ext!Objects : n # 0 /\ n \in 0..ExtObjects
      BY <1>1 DEF Ext!Objects
    <3> QED
      BY <3>1, <3>2, <3>3
  <2>2. \/ \E on \in BOOLEAN : Ext!Make(extMade + 1, on)
        \/ /\ op \in {"disable", "reload"} /\ UNCHANGED <<extMade, extManaged>>
           /\ \E again \in {0, m} : Ext!Persist(extEnabled[m], again)
        \/ Ext!Forget /\ UNCHANGED extMade
        \/ UNCHANGED Ext!disk /\ UNCHANGED <<extMade, extManaged>>
    BY <1>6 DEF Ext!Continue
  <2> HIDE DEF m, op
  <2>3. CASE \E on \in BOOLEAN : Ext!Make(extMade + 1, on)
    BY <1>4, <2>1, <2>3
  <2>4. CASE /\ op \in {"disable", "reload"} /\ UNCHANGED <<extMade, extManaged>>
             /\ \E again \in {0, m} : Ext!Persist(extEnabled[m], again)
    <3>1. extManaged' # 0 \/ extLate'
      BY <2>1, <2>4
    <3>2. PICK again \in {0, m} : Ext!Persist(extEnabled[m], again)
      BY <2>4
    <3>3. again \in 0..ExtObjects /\ again <= extMade' /\ extMade' \in Nat /\ extMade <= extMade'
      BY <1>1, <2>1, <2>4
    <3> QED
      BY <1>2, <2>1, <3>1, <3>2, <3>3
  <2>5. CASE Ext!Forget /\ UNCHANGED extMade
    BY <1>3, <2>1, <2>5
  <2>6. CASE UNCHANGED Ext!disk /\ UNCHANGED <<extMade, extManaged>>
    BY <2>1, <2>6, ExtDiskRests DEF Ext!disk
  <2> QED
    BY <2>2, <2>3, <2>4, <2>5, <2>6
<1>7. ASSUME NEW on \in BOOLEAN, Ext!Install(on) PROVE ExtDisk'
  <2>1. CASE Ext!Active(extManaged)
    BY <1>7, <2>1, ExtDiskRests DEF Ext!Install, Ext!disk
  <2>2. CASE ~Ext!Active(extManaged)
    BY <1>4, <1>7, <2>2 DEF Ext!Install
  <2> QED
    BY <2>1, <2>2
<1>8. ASSUME NEW m \in Ext!Objects, NEW ok \in BOOLEAN,
             Ext!Loaded(m, ok) \/ Ext!Activated(m, ok) \/ Ext!Deactivated(m, ok) \/ Ext!TornDown(m)
      PROVE  ExtDisk'
  BY <1>8, ExtDiskRests DEF Ext!Loaded, Ext!Activated, Ext!Deactivated, Ext!TornDown, Ext!disk
<1>9. ASSUME NEW i \in ExtSlots, Ext!Reads(i) \/ Ext!Writes(i) \/ Ext!Saved(i) PROVE ExtDisk'
  BY <1>1, <1>9, ExtStores
<1>10. CASE Ext!Other
  <2>1. /\ Ext!Begin("copy", "read", extIndexed, 0) /\ UNCHANGED <<extIndexed, extManaged, extMade, extLate>> /\ 0 <= extMade'
    BY <1>1, <1>10 DEF Ext!Other
  <2> QED
    BY <1>1, <2>1, ExtDiskBegins DEF ExtDisk
<1> QED
  BY <1>5, <1>6, <1>7, <1>8, <1>9, <1>10 DEF Ext!Next

LEMMA ExtBegin == ASSUME Ext!Init PROVE ExtInv /\ ExtDisk
<1>1. ExtTyped
  <2>1. <<>> \in Seq(ExtWait)
    OBVIOUS
  <2> QED
    BY <2>1, StoresAssumption DEF Ext!Init, ExtTyped, Ext!Statuses
<1>2. \A m \in Ext!Objects : ExtStage(m)
  BY DEF Ext!Init, ExtStage
<1>3. ExtWaits /\ ExtRecord
  BY DEF Ext!Init, ExtWaits, ExtRecord
<1>4. ExtDisk
  <2>1. Ext!NoSave \in Ext!Saves /\ Ext!NoSave.at = "none" /\ Ext!NoSave.again = 0
    BY StoresAssumption DEF Ext!NoSave, Ext!Saves
  <2>2. /\ extManaged = 0 /\ extMade = 0 /\ ~extIndexed /\ extIndexed \in BOOLEAN
        /\ extSaves \in [ExtSlots -> Ext!Saves]
        /\ \A i \in ExtSlots : extSaves[i] = Ext!NoSave
    BY <2>1 DEF Ext!Init
  <2>3. \A i \in ExtSlots : ~Ext!Busy(i) /\ extSaves[i].at # "read" /\ extSaves[i].again <= extMade
    BY <2>1, <2>2 DEF Ext!Busy
  <2>4. ExtIndex
    BY <2>2, <2>3 DEF ExtIndex, ExtAlike, ExtHeard, ExtGone
  <2> QED
    BY <2>2, <2>3, <2>4 DEF ExtDisk
<1> QED
  BY <1>1, <1>2, <1>3, <1>4 DEF ExtInv

LEMMA ExtPromise == ASSUME ExtInv, ExtDisk PROVE Ext!GuestsAreHeld /\ Ext!OnlyEnabledRuns /\ Ext!RecordIsManaged
<1>1. Ext!GuestsAreHeld
  <2> SUFFICES ASSUME NEW m \in Ext!Objects
               PROVE  extGuests[m] <= 1 /\ (Ext!Quiet(m) => (extGuests[m] = 1) = extHandle[m] /\ (extHandle[m] <=> extStatus[m] = "active"))
    BY DEF Ext!GuestsAreHeld
  <2>1. ExtStage(m) /\ extHandle[m] \in BOOLEAN
    BY DEF ExtInv, ExtTyped
  <2>2. extGuests[m] \in {0, 1}
    BY <2>1 DEF ExtStage
  <2>3. Ext!Quiet(m) => ((extGuests[m] = 1) <=> extHandle[m]) /\ (extHandle[m] <=> extStatus[m] = "active")
    BY <2>1 DEF ExtStage, Ext!Quiet
  <2> QED
    BY <2>1, <2>2, <2>3
<1>2. Ext!OnlyEnabledRuns
  BY DEF ExtInv, ExtStage, Ext!OnlyEnabledRuns, Ext!Quiet
<1>3. Ext!RecordIsManaged
  <2>1. extCalls = <<>> => ~\E c \in 1..Len(extCalls) : extCalls[c].op = "disable"
    OBVIOUS
  <2>2. (\A i \in ExtSlots : ~Ext!Busy(i)) => \A i \in ExtSlots : ~ExtAdding(i) /\ ~ExtDropping(i)
    BY DEF Ext!Busy, ExtAdding, ExtDropping
  <2>3. Ext!AtRest /\ ~extLate /\ ~extCollided => IF extManaged = 0 THEN ~extIndexed ELSE extIndexed
    BY <2>2 DEF ExtDisk, ExtIndex, ExtNamed, ExtGone, Ext!AtRest
  <2>4. Ext!AtRest /\ ~extLate => extRecord = IF extManaged = 0 THEN "none" ELSE Ext!Said(extEnabled[extManaged])
    BY <2>1 DEF ExtInv, ExtRecord, Ext!AtRest
  <2> QED
    BY <2>3, <2>4 DEF Ext!RecordIsManaged, Ext!Restored
<1> QED
  BY <1>1, <1>2, <1>3

-----------------------------------------------------------------------------
\* The permissions. What a call knows, the reads and the log;
PermCall == [at : {"none", "read", "gate", "confirm", "run"}, perm : Perm!Perms,
         granted : SUBSET Perm!Perms, ever : SUBSET Perm!Perms, entry : Nat]
LogEntry == [id : Nat, status : {"pending", "ok", "error", "cancelled"}]
GrantRead == [who : PermCalls \cup {"operator"}, perms : SUBSET Perm!Perms]
PermsHeld ==
    /\ permStored \in SUBSET Perm!Perms /\ permCache \in [known : BOOLEAN, perms : SUBSET Perm!Perms]
    /\ permReads \in Seq(GrantRead)
    /\ permChange \in [at : {"none", "read", "persist"}, perm : Perm!Perms, on : BOOLEAN, was : SUBSET Perm!Perms]
    /\ permCalls \in [PermCalls -> PermCall] /\ permLog \in Seq(LogEntry) /\ permIds \in Nat
\* a read that waits has its call waiting for it, with a grant it saw;
ReadsAwaited ==
    /\ \A r \in 1..Len(permReads) : permReads[r].who # "operator" =>
         permCalls[permReads[r].who].at = "read" /\ permReads[r].perms \subseteq permCalls[permReads[r].who].ever
    /\ \A r, q \in 1..Len(permReads) : r # q /\ permReads[r].who # "operator" => permReads[r].who # permReads[q].who
\* and the grants in memory are the stored ones until they overtake a read.
GrantsSeen ==
    permOvertaken \/ /\ permCache.known => permCache.perms = permStored
                     /\ \A r \in 1..Len(permReads) : permReads[r].perms = permStored
                     /\ \A c \in PermCalls : /\ permCalls[c].at = "gate" => permCalls[c].granted \subseteq permCalls[c].ever
                                             /\ permCalls[c].at \in {"confirm", "run"} => permCalls[c].perm \in permCalls[c].ever
PermsInv == PermsHeld /\ ReadsAwaited /\ GrantsSeen /\ Perm!PendingIsUnderWay

LEMMA ReadIs ==
    ASSUME PermsHeld
    PROVE  /\ \A r \in 1..Len(permReads) : /\ permReads[r] \in GrantRead /\ permReads[r].perms \in SUBSET Perm!Perms
                                           /\ permReads[r].who \in PermCalls \cup {"operator"}
                                           /\ permReads[r].who # "operator" => permReads[r].who \in PermCalls
           /\ \A c \in PermCalls : [who |-> c, perms |-> permStored] \in GrantRead
           /\ [who |-> "operator", perms |-> permStored] \in GrantRead
<1>1. \A r \in 1..Len(permReads) : permReads[r] \in GrantRead
  BY DEF PermsHeld
<1>2. \A r \in GrantRead : r.who \in PermCalls \cup {"operator"} /\ r.perms \in SUBSET Perm!Perms
  BY DEF GrantRead
<1>3. \A c \in PermCalls : [who |-> c, perms |-> permStored] \in GrantRead
  BY DEF PermsHeld, GrantRead
<1>4. [who |-> "operator", perms |-> permStored] \in GrantRead
  BY DEF PermsHeld, GrantRead
<1> QED
  BY <1>1, <1>2, <1>3, <1>4

\* What is known to have been granted only grows.
LEMMA PermsSee ==
    ASSUME PermsHeld, NEW now \in SUBSET Perm!Perms, permCalls' = Perm!Sees(now)
    PROVE  /\ permCalls' \in [PermCalls -> PermCall]
           /\ \A c \in PermCalls : /\ permCalls'[c].at = permCalls[c].at
                                   /\ permCalls[c].at # "none" =>
                                        /\ permCalls'[c].perm = permCalls[c].perm /\ permCalls'[c].entry = permCalls[c].entry
                                        /\ permCalls'[c].granted = permCalls[c].granted
                                        /\ permCalls'[c].ever = permCalls[c].ever \cup now
<1> SUFFICES ASSUME NEW c \in PermCalls
             PROVE  /\ permCalls'[c] \in PermCall /\ permCalls'[c].at = permCalls[c].at
                    /\ permCalls[c].at # "none" =>
                         /\ permCalls'[c].perm = permCalls[c].perm /\ permCalls'[c].entry = permCalls[c].entry
                         /\ permCalls'[c].granted = permCalls[c].granted
                         /\ permCalls'[c].ever = permCalls[c].ever \cup now
  BY DEF Perm!Sees
<1>1. /\ permCalls[c] \in PermCall
      /\ permCalls'[c] = IF permCalls[c].at = "none" THEN Perm!NoCall ELSE [permCalls[c] EXCEPT !.ever = @ \cup now]
  BY DEF PermsHeld, Perm!Sees
<1>2. CASE permCalls[c].at = "none"
  BY <1>1, <1>2 DEF Perm!NoCall, PermCall, Perm!Perms
<1>3. CASE permCalls[c].at # "none"
  BY <1>1, <1>3 DEF PermCall
<1> QED
  BY <1>2, <1>3

\* The grants change.
LEMMA PermsChange ==
    ASSUME PermsInv, NEW now \in SUBSET Perm!Perms, permCalls' = Perm!Sees(now), permStored' = now,
           permCache' \in [known : BOOLEAN, perms : SUBSET Perm!Perms], permCache'.known => permCache'.perms = now,
           UNCHANGED <<permReads, permLog, permIds>>, Perm!Overtakes,
           permChange' \in [at : {"none", "read", "persist"}, perm : Perm!Perms, on : BOOLEAN, was : SUBSET Perm!Perms]
    PROVE  PermsInv'
<1>1. PermsHeld'
  BY PermsSee DEF PermsInv, PermsHeld
<1>2. ReadsAwaited'
  <2>1. \A r \in 1..Len(permReads) : permReads[r].who # "operator" => permReads[r].who \in PermCalls
    BY ReadIs DEF PermsInv
  <2>2. PermsHeld
    BY DEF PermsInv
  <2>3. \A c \in PermCalls : permCalls[c].at = "read" => /\ permCalls'[c].at = "read"
                                                /\ permCalls[c].ever \subseteq permCalls'[c].ever
    BY <2>2, PermsSee
  <2> QED
    BY <2>1, <2>3 DEF PermsInv, ReadsAwaited
<1>3. ASSUME ~permOvertaken'
      PROVE  ~permOvertaken /\ permReads = <<>>
  BY <1>3 DEF Perm!Overtakes
<1>4. GrantsSeen'
  BY <1>3, PermsSee DEF PermsInv, GrantsSeen
<1>5. Perm!PendingIsUnderWay'
  BY PermsSee DEF PermsInv, Perm!PendingIsUnderWay
<1> QED
  BY <1>1, <1>2, <1>4, <1>5 DEF PermsInv

LEMMA PermsKeep == ASSUME PermsInv, Perm!Next PROVE PermsInv'
<1> USE DEF PermsInv
<1>1. ASSUME NEW now \in SUBSET Perm!Perms, Perm!SetGrants(now) PROVE PermsInv'
  BY <1>1, PermsChange DEF Perm!SetGrants, Perm!Persist, PermsHeld
<1>2. CASE Perm!ClearGrants
  BY <1>2, PermsChange DEF Perm!ClearGrants, Perm!Unknown, PermsHeld
<1>3. CASE Perm!Toggled
  BY <1>3, PermsChange DEF Perm!Toggled, Perm!Persist, PermsHeld, Perm!NoChange, Perm!Perms
<1>4. ASSUME NEW p \in Perm!Perms, NEW on \in BOOLEAN, Perm!Toggle(p, on) PROVE PermsInv'
  <2> DEFINE read == [who |-> "operator", perms |-> permStored]
  <2>1. /\ permReads' = permReads \/ permReads' = Append(permReads, read)
        /\ UNCHANGED <<permStored, permCache, permCalls, permLog, permIds, permOvertaken>>
        /\ permChange' \in [at : {"none", "read", "persist"}, perm : Perm!Perms, on : BOOLEAN, was : SUBSET Perm!Perms]
    BY <1>4 DEF Perm!Toggle, PermsHeld
  <2>2. read \in GrantRead /\ read.who = "operator" /\ read.perms = permStored
    BY ReadIs
  <2> HIDE DEF read
  <2>a. /\ permReads' \in Seq(GrantRead)
        /\ \A r \in 1..Len(permReads') : permReads'[r] = read \/ (r \in 1..Len(permReads) /\ permReads'[r] = permReads[r])
    <3>1. permReads \in Seq(GrantRead)
      BY DEF PermsHeld
    <3>2. CASE permReads' = permReads
      BY <3>1, <3>2
    <3>3. CASE permReads' = Append(permReads, read)
      BY <2>2, <3>1, <3>3, AppendIs
    <3> QED
      BY <2>1, <3>2, <3>3
  <2>3. PermsHeld'
    BY <2>1, <2>a DEF PermsHeld
  <2>4. \A r \in 1..Len(permReads') : permReads'[r] = read \/ (r \in 1..Len(permReads) /\ permReads'[r] = permReads[r])
    BY <2>a
  <2>5. ReadsAwaited'
    BY <2>1, <2>2, <2>4 DEF ReadsAwaited
  <2>6. GrantsSeen'
    BY <2>1, <2>2, <2>4 DEF GrantsSeen
  <2> QED
    BY <2>1, <2>3, <2>5, <2>6 DEF Perm!PendingIsUnderWay
<1>5. CASE Perm!ReadDone
  <2> DEFINE read == Head(permReads)
  <2>1. /\ permReads # <<>> /\ permReads' = Tail(permReads) /\ permCache' = [known |-> TRUE, perms |-> read.perms]
        /\ UNCHANGED <<permStored, permLog, permIds, permOvertaken>>
        /\ read \in GrantRead /\ read = permReads[1]
        /\ 1 \in 1..Len(permReads)
    <3>1. permReads # <<>> /\ permReads \in Seq(GrantRead)
      BY <1>5 DEF Perm!ReadDone, PermsHeld
    <3>2. 1 \in 1..Len(permReads) /\ read = permReads[1]
          /\ read \in GrantRead
      BY <3>1, TailIs
    <3> QED
      BY <1>5, <3>1, <3>2 DEF Perm!ReadDone
  <2>2. /\ permReads' \in Seq(GrantRead)
        /\ \A r \in 1..Len(permReads') : r + 1 \in 1..Len(permReads) /\ permReads'[r] = permReads[r + 1]
    <3>1. permReads \in Seq(GrantRead)
      BY DEF PermsHeld
    <3> QED
      BY <2>1, <3>1, TailIs
  <2>3. CASE read.who = "operator"
    <3>1. permCalls' = permCalls /\ permChange' \in [at : {"none", "read", "persist"}, perm : Perm!Perms, on : BOOLEAN,
                                                was : SUBSET Perm!Perms]
      BY <1>5, <2>1, <2>3, ReadIs DEF Perm!ReadDone, PermsHeld
    <3>2. PermsHeld'
      BY <2>1, <2>2, <3>1, ReadIs DEF PermsHeld
    <3>3. ReadsAwaited'
      BY <2>1, <2>2, <3>1 DEF ReadsAwaited
    <3>4. GrantsSeen'
      BY <2>1, <2>2, <3>1 DEF GrantsSeen
    <3> QED
      BY <2>1, <3>1, <3>2, <3>3, <3>4 DEF Perm!PendingIsUnderWay
  <2>4. CASE read.who # "operator"
    <3> DEFINE c == read.who
    <3>1. /\ c \in PermCalls /\ permCalls[c].at = "read" /\ read.perms \subseteq permCalls[c].ever
          /\ permCalls' = [permCalls EXCEPT ![c] = [@ EXCEPT !.at = "gate", !.granted = read.perms]]
          /\ permChange' = permChange
      BY <1>5, <2>1, <2>4, ReadIs DEF Perm!ReadDone, ReadsAwaited
    <3>2. \A r \in 1..Len(permReads') : permReads'[r].who # "operator" => permReads'[r].who # c
      BY <2>1, <2>2, <2>4 DEF ReadsAwaited
    <3> HIDE DEF c
    <3>3. /\ permCalls' \in [PermCalls -> PermCall] /\ \A d \in PermCalls \ {c} : permCalls'[d] = permCalls[d]
          /\ permCalls'[c].at = "gate" /\ permCalls'[c].granted = read.perms /\ permCalls'[c].ever = permCalls[c].ever
      BY <2>1, <3>1 DEF PermsHeld, PermCall
    <3>a. read.perms \in SUBSET Perm!Perms
      BY <2>1, ReadIs
    <3> HIDE DEF read
    <3>4. PermsHeld'
      BY <2>1, <2>2, <3>1, <3>3, <3>a DEF PermsHeld
    <3>5. ReadsAwaited'
      BY <2>1, <2>2, <3>1, <3>2, <3>3 DEF ReadsAwaited, PermsHeld
    <3>6. GrantsSeen'
      BY <2>1, <2>2, <3>1, <3>3 DEF GrantsSeen
    <3>7. Perm!PendingIsUnderWay'
      BY <2>1, <3>1, <3>3 DEF Perm!PendingIsUnderWay
    <3> QED
      BY <3>4, <3>5, <3>6, <3>7
  <2> QED
    BY <2>3, <2>4
<1>6. ASSUME NEW c \in PermCalls, NEW p \in Perm!Perms, Perm!Invoke(c, p) PROVE PermsInv'
  <2> DEFINE read == [who |-> c, perms |-> permStored]
             call == [at |-> IF permCache.known THEN "gate" ELSE "read", perm |-> p,
                      granted |-> permCache.perms, ever |-> permStored, entry |-> 0]
  <2>1. /\ permCalls[c].at = "none" /\ permCalls' = [permCalls EXCEPT ![c] = call]
        /\ UNCHANGED <<permStored, permCache, permChange, permLog, permIds, permOvertaken>>
        /\ permReads' = IF permCache.known THEN permReads ELSE Append(permReads, read)
    BY <1>6 DEF Perm!Invoke
  <2>2. /\ read \in GrantRead
        /\ read.who = c /\ read.perms = permStored
        /\ call \in PermCall /\ call.at = (IF permCache.known THEN "gate" ELSE "read")
        /\ call.granted = permCache.perms /\ call.ever = permStored
    BY ReadIs DEF PermsHeld, PermCall
  <2> HIDE DEF read, call
  <2>3. /\ permCalls' \in [PermCalls -> PermCall] /\ permCalls'[c] = call
        /\ \A d \in PermCalls \ {c} : permCalls'[d] = permCalls[d]
    BY <2>1, <2>2 DEF PermsHeld
  <2>a. permReads \in Seq(GrantRead)
    BY DEF PermsHeld
  <2>b. permReads' \in Seq(GrantRead)
    BY <2>1, <2>2, <2>a, AppendIs
  <2>4. PermsHeld'
    BY <2>1, <2>b, <2>3 DEF PermsHeld
  <2>5. \A r \in 1..Len(permReads) : permReads[r].who # "operator" => permReads[r].who # c /\ permReads[r].who \in PermCalls
    <3>1. \A r \in 1..Len(permReads) : permReads[r].who # "operator" => permReads[r].who \in PermCalls
      BY ReadIs
    <3>2. \A r \in 1..Len(permReads) : permReads[r].who # "operator" => permCalls[permReads[r].who].at = "read"
      BY DEF ReadsAwaited
    <3> QED
      BY <2>1, <3>1, <3>2
  <2>6. ReadsAwaited'
    <3>1. CASE permCache.known
      BY <2>1, <2>3, <2>5, <3>1 DEF ReadsAwaited
    <3>2. CASE ~permCache.known
      <4>1. /\ Len(permReads') = Len(permReads) + 1 /\ permReads'[Len(permReads) + 1] = read /\ Len(permReads) \in Nat
            /\ \A r \in 1..Len(permReads) : permReads'[r] = permReads[r]
        BY <2>1, <2>2, <3>2 DEF PermsHeld
      <4> QED
        BY <2>1, <2>2, <2>3, <2>5, <3>2, <4>1 DEF ReadsAwaited
    <3> QED
      BY <3>1, <3>2
  <2>7. GrantsSeen'
    <3>1. \A r \in 1..Len(permReads') : permReads'[r] = read \/ (r \in 1..Len(permReads) /\ permReads'[r] = permReads[r])
      BY <2>1, <2>2 DEF PermsHeld
    <3> QED
      BY <2>1, <2>2, <2>3, <3>1 DEF GrantsSeen
  <2>8. Perm!PendingIsUnderWay'
    BY <2>1, <2>3 DEF Perm!PendingIsUnderWay
  <2> QED
    BY <2>4, <2>6, <2>7, <2>8
<1>7. ASSUME NEW c \in PermCalls, NEW call \in PermCall, permCalls' = [permCalls EXCEPT ![c] = call],
             UNCHANGED <<permStored, permCache, permReads, permChange, permOvertaken>>,
             \A r \in 1..Len(permReads) : permReads[r].who = c => permReads[r].who = "operator",
             permOvertaken \/ /\ call.at = "gate" => call.granted \subseteq call.ever
                              /\ call.at \in {"confirm", "run"} => call.perm \in call.ever,
             permLog' \in Seq(LogEntry), permIds' \in Nat, Perm!PendingIsUnderWay'
      PROVE  PermsInv'
  <2>1. /\ permCalls' \in [PermCalls -> PermCall] /\ permCalls'[c] = call
        /\ \A d \in PermCalls \ {c} : permCalls'[d] = permCalls[d]
    BY <1>7 DEF PermsHeld
  <2>2. PermsHeld'
    BY <1>7, <2>1 DEF PermsHeld
  <2>3. ReadsAwaited'
    BY <1>7, <2>1 DEF ReadsAwaited, PermsHeld
  <2>4. GrantsSeen'
    BY <1>7, <2>1 DEF GrantsSeen
  <2> QED
    BY <1>7, <2>2, <2>3, <2>4
<1>8. ASSUME NEW c \in PermCalls, permCalls[c].at # "read"
      PROVE  \A r \in 1..Len(permReads) : permReads[r].who = c => permReads[r].who = "operator"
  BY <1>8 DEF ReadsAwaited
<1>9. Perm!NoCall \in PermCall /\ Perm!NoCall.at = "none"
  BY DEF Perm!NoCall, PermCall, Perm!Perms
\* the entries of the log of call c, when it ends with them;
<1>10. ASSUME NEW c \in PermCalls, NEW how \in {"ok", "error", "cancelled"},
              permLog' = Perm!Update(permCalls[c].entry, how), permCalls' = [permCalls EXCEPT ![c] = Perm!NoCall]
       PROVE  permLog' \in Seq(LogEntry) /\ Perm!PendingIsUnderWay'
  <2>1. /\ Len(permLog) \in Nat /\ \A e \in 1..Len(permLog) : permLog[e] \in LogEntry
    BY DEF PermsHeld
  <2>2. DOMAIN permLog' = 1..Len(permLog) /\ permLog' \in [1..Len(permLog) -> LogEntry]
    BY <1>10, <2>1 DEF Perm!Update, LogEntry
  <2>3. permLog' \in Seq(LogEntry) /\ Len(permLog') = Len(permLog)
    BY <2>1, <2>2
  <2>4. \A e \in 1..Len(permLog) :
          permLog'[e].status = "pending" => /\ permLog[e].status = "pending" /\ permLog'[e].id = permLog[e].id
                                            /\ permLog[e].id # permCalls[c].entry
    BY <1>10, <2>1 DEF Perm!Update, LogEntry
  <2>5. \A d \in PermCalls \ {c} : permCalls'[d] = permCalls[d]
    BY <1>10 DEF PermsHeld
  <2> QED
    BY <2>3, <2>4, <2>5 DEF Perm!PendingIsUnderWay
<1>11. ASSUME NEW c \in PermCalls, Perm!Gate(c) PROVE PermsInv'
  <2> USE <1>11
  <2>1. permCalls[c] \in PermCall /\ permCalls[c].at = "gate"
    BY DEF Perm!Gate, PermsHeld
  <2>2. CASE Perm!Refused(c)
    <3>2. permLog' = permLog /\ DOMAIN permCalls = PermCalls /\ permCalls[c].at = "gate" /\ permCalls' = [permCalls EXCEPT ![c] = Perm!NoCall]
      BY <2>1, <2>2 DEF Perm!Gate, Perm!Ends, PermsHeld
    <3>3. \A d \in PermCalls \ {c} : permCalls'[d] = permCalls[d]
      BY <3>2
    <3>4. \A d \in PermCalls : permCalls[d].at \in {"confirm", "run"} => permCalls'[d] = permCalls[d]
      BY <3>2, <3>3
    <3>1. Perm!PendingIsUnderWay'
      BY <3>2, <3>4 DEF Perm!PendingIsUnderWay
    <3> QED
      BY <2>1, <2>2, <1>7, <1>8, <1>9, <3>1 DEF Perm!Gate, Perm!Ends, PermsHeld
  <2>3. CASE ~Perm!Refused(c) /\ permCalls[c].perm = "telemetry:read"
    <3> DEFINE call == [permCalls[c] EXCEPT !.at = "run"]
    <3>1. call \in PermCall /\ permCalls' = [permCalls EXCEPT ![c] = call] /\ permLog' = permLog /\ permIds' = permIds
      BY <2>1, <2>3 DEF Perm!Gate, PermCall
    <3>2. Perm!PendingIsUnderWay'
      BY <2>1, <3>1 DEF Perm!PendingIsUnderWay, PermsHeld
    <3>3. permOvertaken \/ permCalls[c].perm \in permCalls[c].ever
      BY <2>1, <2>3 DEF Perm!Refused, GrantsSeen
    <3>4. call.at = "run" /\ call.perm = permCalls[c].perm /\ call.ever = permCalls[c].ever
      BY <2>1 DEF PermCall
    <3> HIDE DEF call
    <3> QED
      BY <2>1, <1>7, <1>8, <3>1, <3>2, <3>3, <3>4 DEF Perm!Gate, PermsHeld
  <2>4. CASE ~Perm!Refused(c) /\ permCalls[c].perm # "telemetry:read"
    <3> DEFINE call == [permCalls[c] EXCEPT !.at = "confirm", !.entry = permIds + 1]
               entry == [id |-> permIds + 1, status |-> "pending"]
    <3>1. /\ call \in PermCall /\ permCalls' = [permCalls EXCEPT ![c] = call] /\ permLog' = Perm!Appended(permIds + 1)
          /\ permIds' = permIds + 1 /\ permIds' \in Nat /\ entry \in LogEntry
      <4>1. call \in PermCall
        <5>1. permIds + 1 \in Nat
          BY DEF PermsHeld
        <5> QED
          BY <2>1, <5>1 DEF PermCall
      <4>2. permIds + 1 \in Nat /\ entry \in LogEntry
        BY DEF PermsHeld, LogEntry
      <4> HIDE DEF entry
      <4>3. /\ permCalls' = [permCalls EXCEPT ![c] = [@ EXCEPT !.at = "confirm", !.entry = permIds + 1]]
            /\ permLog' = Perm!Appended(permIds + 1) /\ permIds' = permIds + 1
        BY <2>1, <2>4 DEF Perm!Gate
      <4>4. permCalls' = [permCalls EXCEPT ![c] = call]
        BY <4>3 DEF PermsHeld
      <4> QED
        BY <4>1, <4>2, <4>3, <4>4
    <3>2. /\ call.at = "confirm" /\ call.perm = permCalls[c].perm /\ call.ever = permCalls[c].ever
          /\ call.entry = permIds + 1 /\ entry.id = permIds + 1
      BY <2>1 DEF PermCall
    <3>3. permLog' = Append(permLog, entry) \/ permLog' = Tail(Append(permLog, entry))
      BY <3>1 DEF Perm!Appended
    <3> HIDE DEF call, entry
    <3>4. /\ permLog' \in Seq(LogEntry)
          /\ \A e \in 1..Len(permLog') : \/ permLog'[e] = entry
                                         \/ \E f \in 1..Len(permLog) : permLog'[e] = permLog[f]
      <4> DEFINE all == Append(permLog, entry)
      <4>1. /\ all \in Seq(LogEntry) /\ Len(all) = Len(permLog) + 1 /\ all[Len(permLog) + 1] = entry
            /\ \A f \in 1..Len(permLog) : all[f] = permLog[f]
        BY <3>1 DEF PermsHeld
      <4> HIDE DEF all
      <4>2. CASE permLog' = all
        BY <4>1, <4>2 DEF PermsHeld
      <4>3. CASE permLog' = Tail(all)
        <5>1. /\ permLog' \in Seq(LogEntry) /\ Len(permLog') = Len(permLog)
              /\ \A e \in 1..Len(permLog') : permLog'[e] = all[e + 1] /\ e + 1 \in 1..Len(all)
          BY <4>1, <4>3 DEF PermsHeld
        <5>2. Len(permLog) \in Nat
          BY DEF PermsHeld
        <5>3. \A e \in 1..Len(permLog') : e + 1 = Len(permLog) + 1 \/ e + 1 \in 1..Len(permLog)
          BY <5>1, <5>2
        <5> QED
          BY <4>1, <5>1, <5>3
      <4> QED
        BY <3>3, <4>2, <4>3 DEF all
    <3>5. Perm!PendingIsUnderWay'
      <4>1. \A d \in PermCalls : permCalls[d].at \in {"confirm", "run"} => permCalls'[d] = permCalls[d]
        BY <2>1, <3>1 DEF PermsHeld
      <4>2. permCalls'[c] = call
        BY <3>1 DEF PermsHeld
      <4> QED
        BY <3>2, <3>4, <4>1, <4>2 DEF Perm!PendingIsUnderWay
    <3>6. permOvertaken \/ permCalls[c].perm \in permCalls[c].ever
      BY <2>1, <2>4 DEF Perm!Refused, GrantsSeen
    <3> QED
      BY <2>1, <1>7, <1>8, <3>1, <3>2, <3>4, <3>5, <3>6 DEF Perm!Gate, PermsHeld
  <2> QED
    BY <2>2, <2>3, <2>4
<1>12. ASSUME NEW c \in PermCalls, Perm!Decline(c) PROVE PermsInv'
  <2>1. permLog' \in Seq(LogEntry) /\ Perm!PendingIsUnderWay'
    BY <1>10, <1>12 DEF Perm!Decline, Perm!Ends
  <2> QED
    BY <1>7, <1>8, <1>9, <1>12, <2>1 DEF Perm!Decline, Perm!Ends, PermsHeld
<1>13. ASSUME NEW c \in PermCalls, NEW ok \in BOOLEAN, Perm!Ran(c, ok) PROVE PermsInv'
  <2>1. permLog' \in Seq(LogEntry) /\ Perm!PendingIsUnderWay'
    BY <1>10, <1>13 DEF Perm!Ran, Perm!Ends
  <2> QED
    BY <1>7, <1>8, <1>9, <1>13, <2>1 DEF Perm!Ran, Perm!Ends, PermsHeld
<1>14. ASSUME NEW c \in PermCalls, Perm!Approve(c) PROVE PermsInv'
  <2> DEFINE call == [permCalls[c] EXCEPT !.at = "run"]
  <2>1. /\ permCalls[c] \in PermCall /\ permCalls[c].at = "confirm" /\ call \in PermCall
        /\ permCalls' = [permCalls EXCEPT ![c] = call] /\ permLog' = permLog /\ permIds' = permIds
    BY <1>14 DEF Perm!Approve, PermCall, PermsHeld
  <2>2. call.at = "run" /\ call.perm = permCalls[c].perm /\ call.ever = permCalls[c].ever
        /\ call.entry = permCalls[c].entry
    BY <2>1 DEF PermCall
  <2> HIDE DEF call
  <2>3. Perm!PendingIsUnderWay'
    <3>1. \A d \in PermCalls : permCalls[d].at \in {"confirm", "run"} =>
            permCalls'[d].at \in {"confirm", "run"} /\ permCalls'[d].entry = permCalls[d].entry
      BY <2>1, <2>2 DEF PermsHeld
    <3> QED
      BY <2>1, <3>1 DEF Perm!PendingIsUnderWay
  <2>4. permOvertaken \/ permCalls[c].perm \in permCalls[c].ever
    BY <2>1 DEF GrantsSeen
  <2> QED
    <3>1. /\ permLog' \in Seq(LogEntry) /\ permIds' \in Nat /\ UNCHANGED <<permStored, permCache, permReads, permChange, permOvertaken>>
          /\ \A r \in 1..Len(permReads) : permReads[r].who = c => permReads[r].who = "operator"
      BY <1>8, <1>14, <2>1 DEF Perm!Approve, PermsHeld
    <3> QED
      BY <1>7, <2>1, <2>2, <2>3, <2>4, <3>1
<1>15. CASE Perm!ClearLog
  <2>1. <<>> \in Seq(LogEntry) /\ Len(<<>>) = 0
    OBVIOUS
  <2> QED
    BY <1>15, <2>1 DEF Perm!ClearLog, PermsHeld, ReadsAwaited, GrantsSeen, Perm!PendingIsUnderWay
<1> QED
  BY <1>1, <1>2, <1>3, <1>4, <1>5, <1>6, <1>11, <1>12, <1>13, <1>14, <1>15 DEF Perm!Next

LEMMA PermsBegin == Perm!Init => PermsInv
<1> SUFFICES ASSUME Perm!Init PROVE PermsInv
  OBVIOUS
<1>1. /\ <<>> \in Seq(GrantRead) /\ <<>> \in Seq(LogEntry)
      /\ Len(<<>>) = 0
  OBVIOUS
<1>2. PermsHeld
  BY <1>1 DEF Perm!Init, PermsHeld, Perm!Unknown, Perm!NoChange, Perm!NoCall, PermCall, Perm!Perms
<1> QED
  BY <1>1, <1>2 DEF Perm!Init, PermsInv, ReadsAwaited, GrantsSeen, Perm!PendingIsUnderWay, Perm!Unknown, Perm!NoCall

LEMMA PermsPromise == ASSUME PermsInv PROVE Perm!RunsWereGranted /\ Perm!PendingIsUnderWay
BY DEF PermsInv, GrantsSeen, Perm!RunsWereGranted

\* Every object of the extension runs one guest at most and holds its handle, nothing runs
\* for an extension that is disabled, replaced or gone unless that happened while it was
\* being activated, and what a restart brings back is what was shown unless an object that
\* was replaced or gone was stored, or the index was changed in two ways at once (host.ts);
\* what runs was granted when its call was checked or confirmed or at some time before, and
\* what the log shows as pending is under way (broker.ts).
THEOREM ExtensionsStayHeld == Ext!Spec /\ Perm!Spec => []ExtensionsAreHeld
<1>1. Ext!Init => ExtInv /\ ExtDisk
  BY ExtBegin
<1>2. ExtInv /\ ExtDisk /\ [Ext!Next]_(Ext!vars) => ExtInv' /\ ExtDisk'
  <2> SUFFICES ASSUME ExtInv, ExtDisk, [Ext!Next]_(Ext!vars) PROVE ExtInv' /\ ExtDisk'
    OBVIOUS
  <2>1. CASE UNCHANGED Ext!vars
    <3>1. ExtInv'
      BY <2>1 DEF Ext!vars, Ext!disk, ExtInv, ExtTyped, ExtStage, ExtWaits, ExtRecord
    <3>2. ExtDisk'
      BY <2>1, ExtDiskRests DEF Ext!vars, Ext!disk
    <3> QED
      BY <3>1, <3>2
  <2> QED
    BY <2>1, ExtKeep, ExtDiskKeep
<1>3. Perm!Init => PermsInv
  BY PermsBegin
<1>4. PermsInv /\ [Perm!Next]_(Perm!vars) => PermsInv'
  <2> SUFFICES ASSUME PermsInv, [Perm!Next]_(Perm!vars) PROVE PermsInv'
    OBVIOUS
  <2>1. CASE UNCHANGED Perm!vars
    BY <2>1 DEF Perm!vars, PermsInv, PermsHeld, ReadsAwaited, GrantsSeen, Perm!PendingIsUnderWay
  <2> QED
    BY <2>1, PermsKeep
<1>5. ExtInv /\ ExtDisk /\ PermsInv => ExtensionsAreHeld
  BY ExtPromise, PermsPromise DEF ExtensionsAreHeld
<1> QED
  BY <1>1, <1>2, <1>3, <1>4, <1>5, PTL DEF Ext!Spec, Perm!Spec

-----------------------------------------------------------------------------
\* The map tiles. A stored tile, or an image, is of the basemap whose id is in its key;
MapBlob == {e \in [key : Map!TileKeys, of : MapSources] : e.key[1] = MapIds[e.of]}
MapOnce(seq) == \A i, j \in 1..Len(seq) : seq[i].key = seq[j].key => i = j
MapKeys(seq) == {seq[i].key : i \in 1..Len(seq)}
\* a load is for the basemap that was shown in its generation, and only while it is not
\* stale may it be for the one that is shown;
MapLoad == [at : {"none", "size", "range", "fetch", "put", "decode"}, key : Map!TileKeys,
            source : MapSources, of : MapSources, generation : Nat]
MapLoads ==
    /\ mapLoads \in [MapLoading -> MapLoad]
    /\ \A l \in MapLoading : mapLoads[l].at # "none" =>
          /\ mapLoads[l].generation <= mapGeneration
          /\ mapLoads[l].key[1] = MapIds[mapLoads[l].source]
          /\ mapLoads[l].at = "decode" => mapLoads[l].key[1] = MapIds[mapLoads[l].of]
          /\ mapLoads[l].generation = mapGeneration => mapAttached /\ mapLoads[l].source = mapSource
MapTyped ==
    /\ mapSource \in MapSources /\ mapGeneration \in Nat /\ mapAttached \in BOOLEAN
    /\ mapPutSince \in Nat /\ mapStored \in Seq(MapBlob) /\ MapOnce(mapStored)
    /\ mapSweep \in [at : {"none", "fetch", "list", "delete"}, source : MapSources,
                     todo : SUBSET MapTilesSeen, victims : SUBSET Map!TileKeys]
\* the images are of the basemap that is shown, or of another with its id;
MapAlike == {s \in MapSources : MapIds[s] = MapIds[mapSource]}
MapShown ==
    /\ mapBitmaps \in Seq([key : Map!TileKeys, of : MapAlike, generation : Nat])
    /\ mapAttached \/ mapBitmaps = <<>>
\* and what is too much in the store has been listed or was stored since.
MapBound ==
    /\ IF mapSweep.at = "delete"
       THEN /\ mapSweep.victims \subseteq MapKeys(mapStored)
            /\ Len(mapStored) <= MapEntries + mapPutSince + Cardinality(mapSweep.victims)
       ELSE Len(mapStored) <= MapEntries + mapPutSince
MapInv == MapTyped /\ MapLoads /\ MapShown /\ MapBound /\ Map!PendingIsLoading

\* A tile of a basemap has a key, which begins with its id.
LEMMA MapKeyIs ==
    ASSUME NEW s \in MapSources, NEW t \in MapTilesSeen
    PROVE  Map!Key(s, t) \in Map!TileKeys /\ Map!Key(s, t)[1] = MapIds[s]
BY DEF Map!TileKeys, Map!Key

\* There are finitely many keys.
LEMMA MapKeysAreFinite == IsFiniteSet(Map!TileKeys) /\ Cardinality(Map!TileKeys) \in Nat
<1> DEFINE P == MapSources \X MapTilesSeen
           f == [p \in P |-> Map!Key(p[1], p[2])]
<1>1. IsFiniteSet(P)
  BY StoresAssumption, FS_Product
<1>2. f \in [P -> Map!TileKeys]
  BY DEF Map!TileKeys
<1>3. \A k \in Map!TileKeys : \E p \in P : f[p] = k
  <2> SUFFICES ASSUME NEW k \in Map!TileKeys PROVE \E p \in P : f[p] = k
    OBVIOUS
  <2>1. PICK s \in MapSources, t \in MapTilesSeen : k = Map!Key(s, t)
    BY DEF Map!TileKeys
  <2>2. <<s, t>> \in P /\ f[<<s, t>>] = k
    BY <2>1
  <2> QED
    BY <2>2
<1> HIDE DEF P, f
<1>4. f \in Surjection(P, Map!TileKeys)
  BY <1>2, <1>3, Fun_IsSurj
<1>5. IsFiniteSet(Map!TileKeys)
  BY <1>1, <1>4, FS_Surjection
<1> QED
  BY <1>5, FS_CardinalityType

\* As many tiles as keys.
LEMMA MapCounted ==
    ASSUME NEW seq \in Seq(MapBlob), MapOnce(seq), NEW n \in 0..Len(seq)
    PROVE  /\ n <= Cardinality(Map!TileKeys)
           /\ IsFiniteSet({seq[i].key : i \in 1..n})
           /\ Cardinality({seq[i].key : i \in 1..n}) = n
           /\ {seq[i].key : i \in 1..n} \subseteq Map!TileKeys
<1> DEFINE K == {seq[i].key : i \in 1..n}
           f == [i \in 1..n |-> seq[i].key]
<1>1. \A i \in 1..n : i \in 1..Len(seq) /\ seq[i] \in MapBlob /\ seq[i].key \in Map!TileKeys
  BY DEF MapBlob
<1>2. f \in [1..n -> K] /\ (\A a, b \in 1..n : f[a] = f[b] => a = b) /\ (\A k \in K : \E a \in 1..n : f[a] = k)
  BY <1>1 DEF MapOnce
<1>3. K \subseteq Map!TileKeys
  BY <1>1
<1> HIDE DEF K, f
<1>4. IsFiniteSet(1..n) /\ Cardinality(1..n) = n
  BY FS_Interval
<1>5. f \in Injection(1..n, K) /\ f \in Surjection(1..n, K)
  BY <1>2, Fun_IsInj, Fun_IsSurj
<1>6. IsFiniteSet(K) /\ Cardinality(K) = n
  BY <1>4, <1>5, FS_Surjection
<1>7. Cardinality(K) <= Cardinality(Map!TileKeys)
  BY <1>3, MapKeysAreFinite, FS_Subset
<1> QED
  BY <1>3, <1>6, <1>7 DEF K

\* As many tiles are stored as there are keys in the store.
LEMMA MapKeysOf ==
    ASSUME NEW seq \in Seq(MapBlob), MapOnce(seq)
    PROVE  /\ Len(seq) \in Nat /\ Len(seq) <= Cardinality(Map!TileKeys) /\ IsFiniteSet(MapKeys(seq))
           /\ Cardinality(MapKeys(seq)) = Len(seq) /\ MapKeys(seq) \subseteq Map!TileKeys
<1>1. Len(seq) \in Nat /\ Len(seq) \in 0..Len(seq)
  OBVIOUS
<1> QED
  BY <1>1, MapCounted DEF MapKeys

\* One tile less, and one more.
LEMMA MapWithout ==
    ASSUME NEW seq \in Seq(MapBlob), MapOnce(seq), NEW k
    PROVE  /\ Map!Without(seq, k) \in Seq(MapBlob) /\ MapOnce(Map!Without(seq, k))
           /\ MapKeys(Map!Without(seq, k)) = MapKeys(seq) \ {k}
           /\ Len(Map!Without(seq, k)) = IF k \in MapKeys(seq) THEN Len(seq) - 1 ELSE Len(seq)
<1> DEFINE n == Len(seq)
<1>0. n \in Nat /\ seq \in [1..n -> MapBlob]
  OBVIOUS
<1>1. CASE k \notin MapKeys(seq)
  BY <1>1 DEF Map!Without, Map!Has, Map!Positions, MapKeys
<1>2. CASE k \in MapKeys(seq)
  <2> DEFINE p == Map!Place(seq, k)
  <2>1. p \in 1..n /\ seq[p].key = k /\ Map!Has(seq, k)
    BY <1>2 DEF Map!Place, Map!Positions, MapKeys, Map!Has
  <2> HIDE DEF p
  <2> DEFINE a == SubSeq(seq, 1, p - 1)
             b == SubSeq(seq, p + 1, n)
             w == a \o b
  <2>2. Map!Without(seq, k) = w
    BY <2>1 DEF Map!Without, Map!RemoveAt, p
  <2>3. a \in Seq(MapBlob) /\ Len(a) = p - 1 /\ \A i \in 1..(p - 1) : a[i] = seq[i]
    BY <1>0, <2>1
  <2>4. b \in Seq(MapBlob) /\ Len(b) = n - p /\ \A i \in 1..(n - p) : b[i] = seq[p + i]
    <3> HIDE DEF n
    <3>1. \A i \in p + 1..n : seq[i] \in MapBlob
      BY <1>0, <2>1
    <3>2. p + 1 \in Int /\ n \in Int /\ p \in Nat
      BY <1>0, <2>1
    <3>3. /\ b \in Seq(MapBlob) /\ Len(b) = IF p + 1 <= n THEN n - (p + 1) + 1 ELSE 0
          /\ \A i \in 1..n - (p + 1) + 1 : b[i] = seq[p + 1 + i - 1]
      BY <3>1, <3>2, SubSeqProperties
    <3> HIDE DEF b
    <3>4. n - (p + 1) + 1 = n - p /\ Len(b) = n - p
      BY <1>0, <2>1, <3>2, <3>3
    <3>5. ASSUME NEW i \in 1..(n - p) PROVE b[i] = seq[p + i]
      <4>1. p + 1 + i - 1 = p + i /\ i \in 1..n - (p + 1) + 1
        BY <3>2, <3>4
      <4> QED
        BY <3>3, <4>1
    <3> QED
      BY <3>3, <3>4, <3>5
  <2> HIDE DEF a, b, n
  <2>5. w \in Seq(MapBlob) /\ Len(w) = n - 1 /\ \A i \in 1..(n - 1) : w[i] = IF i < p THEN seq[i] ELSE seq[i + 1]
    <3>1. /\ w \in Seq(MapBlob) /\ Len(w) = (p - 1) + (n - p)
          /\ \A i \in 1..(p - 1) + (n - p) : w[i] = IF i <= p - 1 THEN a[i] ELSE b[i - (p - 1)]
      <4>1. /\ a \o b \in Seq(MapBlob) /\ Len(a \o b) = Len(a) + Len(b)
            /\ \A i \in 1..Len(a) + Len(b) : (a \o b)[i] = IF i <= Len(a) THEN a[i] ELSE b[i - Len(a)]
        BY <2>3, <2>4, ConcatProperties
      <4> QED
        BY <2>3, <2>4, <4>1
    <3>2. ASSUME NEW i \in 1..(n - 1) PROVE w[i] = IF i < p THEN seq[i] ELSE seq[i + 1]
      <4>1. CASE i < p
        BY <1>0, <2>1, <2>3, <3>1, <4>1
      <4>2. CASE ~(i < p)
        <5>1. i - (p - 1) \in 1..(n - p) /\ p + (i - (p - 1)) = i + 1 /\ i \in 1..(p - 1) + (n - p) /\ ~(i <= p - 1)
          BY <1>0, <2>1, <4>2
        <5>2. w[i] = b[i - (p - 1)] /\ b[i - (p - 1)] = seq[p + (i - (p - 1))]
          BY <2>4, <3>1, <5>1
        <5> QED
          BY <4>2, <5>1, <5>2
      <4> QED
        BY <4>1, <4>2
    <3>3. Len(w) = n - 1
      BY <1>0, <2>1, <3>1
    <3> QED
      BY <3>1, <3>2, <3>3
  <2> HIDE DEF w
  <2>6. \A i, j \in 1..n : seq[i].key = seq[j].key => i = j
    BY DEF MapOnce, n
  <2>7. MapOnce(w)
    BY <1>0, <2>1, <2>5, <2>6 DEF MapOnce
  <2>8. MapKeys(w) \subseteq MapKeys(seq) \ {k}
    <3> SUFFICES ASSUME NEW i \in 1..(n - 1) PROVE w[i].key \in MapKeys(seq) \ {k}
      BY <2>5 DEF MapKeys
    <3> DEFINE j == IF i < p THEN i ELSE i + 1
    <3>1. j \in 1..n /\ j # p /\ w[i] = seq[j]
      BY <1>0, <2>1, <2>5
    <3> QED
      BY <2>1, <2>6, <3>1 DEF MapKeys, n
  <2>9. MapKeys(seq) \ {k} \subseteq MapKeys(w)
    <3> SUFFICES ASSUME NEW j \in 1..n, seq[j].key # k PROVE seq[j].key \in MapKeys(w)
      BY DEF MapKeys, n
    <3> DEFINE i == IF j < p THEN j ELSE j - 1
    <3>1. j # p
      BY <2>1
    <3>2. i \in 1..(n - 1) /\ w[i] = seq[j]
      BY <1>0, <2>1, <2>5, <3>1
    <3> QED
      BY <2>5, <3>2 DEF MapKeys
  <2> QED
    BY <1>2, <2>2, <2>5, <2>7, <2>8, <2>9 DEF n
<1> QED
  BY <1>1, <1>2

\* A tile that is put replaces the one of its key, if any.
LEMMA MapStores ==
    ASSUME NEW seq \in Seq(MapBlob), MapOnce(seq), NEW e \in MapBlob
    PROVE  LET after == Append(Map!Without(seq, e.key), e) IN
           /\ after \in Seq(MapBlob) /\ MapOnce(after) /\ MapKeys(seq) \subseteq MapKeys(after)
           /\ Len(after) \in Nat /\ Len(after) <= Len(seq) + 1
<1> DEFINE w == Map!Without(seq, e.key)
           after == Append(w, e)
<1>1. /\ w \in Seq(MapBlob) /\ MapOnce(w) /\ MapKeys(w) = MapKeys(seq) \ {e.key}
      /\ Len(seq) \in Nat /\ Len(w) \in Nat /\ Len(w) <= Len(seq)
  BY MapWithout, MapKeysOf
<1> HIDE DEF w
<1>2. /\ after \in Seq(MapBlob) /\ Len(after) = Len(w) + 1 /\ after[Len(w) + 1] = e
      /\ \A i \in 1..Len(w) : after[i] = w[i]
  BY <1>1
<1> HIDE DEF after
<1>3. \A i \in 1..Len(w) : w[i].key \in MapKeys(w) /\ w[i].key # e.key
  BY <1>1 DEF MapKeys
<1>4. MapOnce(after)
  <2> SUFFICES ASSUME NEW i \in 1..Len(after), NEW j \in 1..Len(after), after[i].key = after[j].key
               PROVE  i = j
    BY DEF MapOnce
  <2>1. i \in 1..Len(w) \/ i = Len(w) + 1
    BY <1>1, <1>2
  <2>2. j \in 1..Len(w) \/ j = Len(w) + 1
    BY <1>1, <1>2
  <2> QED
    BY <1>1, <1>2, <1>3, <2>1, <2>2 DEF MapOnce
<1>5. MapKeys(seq) \subseteq MapKeys(after)
  <2> SUFFICES ASSUME NEW x \in MapKeys(seq) PROVE \E i \in 1..Len(after) : after[i].key = x
    BY DEF MapKeys
  <2>1. CASE x = e.key
    <3>1. Len(w) + 1 \in 1..Len(after)
      BY <1>1, <1>2
    <3> QED
      BY <1>2, <2>1, <3>1
  <2>2. CASE x # e.key
    <3>1. PICK i \in 1..Len(w) : w[i].key = x
      BY <1>1, <2>2 DEF MapKeys
    <3>2. i \in 1..Len(after)
      BY <1>1, <1>2
    <3> QED
      BY <1>2, <3>1, <3>2
  <2> QED
    BY <2>1, <2>2
<1> QED
  BY <1>1, <1>2, <1>4, <1>5 DEF after, w

\* A tile that is stored leaves the store typed and counted.
LEMMA MapPuts ==
    ASSUME MapTyped, MapBound, NEW e \in MapBlob, Map!Put(e.key, e.of), mapSweep.at # "delete"
           \/ (mapSweep'.at = "delete" /\ mapSweep'.victims = mapSweep.victims),
           mapSweep.at = "delete" \/ mapSweep'.at # "delete"
    PROVE  /\ mapStored' \in Seq(MapBlob) /\ MapOnce(mapStored)' /\ mapPutSince' \in Nat /\ MapBound'
<1>1. e = [key |-> e.key, of |-> e.of]
  BY DEF MapBlob
<1>2. mapStored' = Append(Map!Without(mapStored, e.key), e)
  BY <1>1 DEF Map!Put
<1>3. /\ mapStored' \in Seq(MapBlob) /\ MapOnce(mapStored') /\ MapKeys(mapStored) \subseteq MapKeys(mapStored')
      /\ Len(mapStored') \in Nat /\ Len(mapStored') <= Len(mapStored) + 1
  BY <1>2, MapStores DEF MapTyped
<1>4. Len(mapStored') <= Cardinality(Map!TileKeys) /\ Len(mapStored) \in Nat /\ Cardinality(Map!TileKeys) \in Nat
  <2>1. mapStored \in Seq(MapBlob) /\ MapOnce(mapStored)
    BY DEF MapTyped
  <2> QED
    BY <1>3, <2>1, MapKeysOf, MapKeysAreFinite
<1>5. mapPutSince \in Nat /\ mapPutSince' = IF mapPutSince < Cardinality(Map!TileKeys) THEN mapPutSince + 1 ELSE mapPutSince
  <2>1. mapPutSince \in Nat
    BY DEF MapTyped
  <2>2. mapPutSince' = IF mapPutSince < Cardinality(Map!TileKeys) THEN mapPutSince + 1 ELSE mapPutSince
    BY DEF Map!Put, Map!Cardinality, Cardinality
  <2> QED
    BY <2>1, <2>2
<1>6. mapPutSince' \in Nat
  BY <1>4, <1>5
<1>7. CASE mapSweep.at = "delete"
  <2>1. mapSweep.victims \subseteq MapKeys(mapStored) /\ IsFiniteSet(MapKeys(mapStored))
    BY <1>7, MapKeysOf DEF MapBound, MapTyped
  <2>2. Cardinality(mapSweep.victims) \in Nat
    BY <2>1, FS_Subset, FS_CardinalityType
  <2>3. Len(mapStored) <= MapEntries + mapPutSince + Cardinality(mapSweep.victims)
    BY <1>7 DEF MapBound
  <2>4. Len(mapStored') <= MapEntries + mapPutSince' + Cardinality(mapSweep.victims)
    BY <1>3, <1>4, <1>5, <2>2, <2>3, StoresAssumption
  <2> QED
    BY <1>3, <1>6, <1>7, <2>1, <2>4 DEF MapBound
<1>8. CASE mapSweep.at # "delete"
  <2>1. Len(mapStored) <= MapEntries + mapPutSince
    BY <1>8 DEF MapBound
  <2>2. Len(mapStored') <= MapEntries + mapPutSince'
    BY <1>3, <1>4, <1>5, <2>1, StoresAssumption
  <2> QED
    BY <1>3, <1>6, <1>8, <2>2 DEF MapBound
<1> QED
  BY <1>7, <1>8

\* What a load is made of.
LEMMA MapLoadIs ==
    ASSUME MapLoads, NEW l \in MapLoading
    PROVE  /\ mapLoads[l] \in MapLoad
           /\ mapLoads[l].at \in {"none", "size", "range", "fetch", "put", "decode"}
           /\ mapLoads[l].key \in Map!TileKeys /\ mapLoads[l].source \in MapSources
           /\ mapLoads[l].of \in MapSources /\ mapLoads[l].generation \in Nat
BY DEF MapLoads, MapLoad

\* A load of no tile.
LEMMA MapNoLoad ==
    ASSUME MapSources # {}
    PROVE  Map!NoLoad \in MapLoad /\ Map!NoLoad.at = "none" /\ Map!NoSweep.at = "none" /\
           Map!NoSweep \in [at : {"none", "fetch", "list", "delete"}, source : MapSources,
                            todo : SUBSET MapTilesSeen, victims : SUBSET Map!TileKeys]
<1>1. (CHOOSE s \in MapSources : TRUE) \in MapSources /\ (CHOOSE t \in MapTilesSeen : TRUE) \in MapTilesSeen
  BY StoresAssumption
<1>2. /\ Map!NoSweep.source \in MapSources /\ Map!NoSweep.at = "none"
      /\ Map!NoSweep \in [at : {"none", "fetch", "list", "delete"}, source : MapSources,
                            todo : SUBSET MapTilesSeen, victims : SUBSET Map!TileKeys]
  BY <1>1 DEF Map!NoSweep
<1>3. Map!Key(Map!NoSweep.source, CHOOSE t \in MapTilesSeen : TRUE) \in Map!TileKeys
  BY <1>1, <1>2, MapKeyIs
<1> HIDE DEF Map!NoSweep
<1> QED
  BY <1>2, <1>3 DEF Map!NoLoad, MapLoad

\* Nothing is loading or stored at first.
LEMMA MapBegins == ASSUME Map!Init PROVE MapInv
<1>1. MapSources # {} /\ Map!NoLoad \in MapLoad /\ Map!NoLoad.at = "none" /\ Map!NoSweep.at = "none"
      /\ Map!NoSweep \in [at : {"none", "fetch", "list", "delete"}, source : MapSources,
                            todo : SUBSET MapTilesSeen, victims : SUBSET Map!TileKeys]
  BY MapNoLoad DEF Map!Init
<1> HIDE DEF Map!NoLoad, Map!NoSweep
<1>2. MapTyped
  BY <1>1 DEF Map!Init, MapTyped, MapOnce
<1>3. MapLoads
  BY <1>1 DEF Map!Init, MapLoads
<1>4. MapShown /\ MapBound /\ Map!PendingIsLoading
  BY <1>1, StoresAssumption DEF Map!Init, MapShown, MapBound, Map!PendingIsLoading
<1> QED
  BY <1>2, <1>3, <1>4 DEF MapInv

\* What a load may be.
MapFits(r) ==
    r.at # "none" =>
        /\ r.generation <= mapGeneration /\ r.key[1] = MapIds[r.source]
        /\ r.at = "decode" => r.key[1] = MapIds[r.of]
        /\ r.generation = mapGeneration => mapAttached /\ r.source = mapSource
MapAwaited == {"size", "range", "fetch", "put"}

\* A load goes on alone; its tile is pending until it is answered.
LEMMA MapLoadGoes ==
    ASSUME MapLoads, Map!PendingIsLoading, NEW l \in MapLoading, NEW r \in MapLoad, MapFits(r),
           mapLoads' = [mapLoads EXCEPT ![l] = r], UNCHANGED <<mapSource, mapGeneration, mapAttached>>,
           \/ mapPending' = mapPending \ {mapLoads[l].key}
           \/ mapPending' = mapPending /\ (mapLoads[l].at \notin MapAwaited
                                          \/ (r.at \in MapAwaited /\ r.key = mapLoads[l].key))
           \/ mapPending' = mapPending \cup {r.key} /\ r.at \in MapAwaited /\ mapLoads[l].at = "none"
    PROVE  MapLoads' /\ Map!PendingIsLoading'
<1>1. /\ mapLoads' \in [MapLoading -> MapLoad] /\ mapLoads'[l] = r
      /\ \A o \in MapLoading : o # l => mapLoads'[o] = mapLoads[o]
  BY DEF MapLoads
<1>2. MapLoads'
  BY <1>1 DEF MapLoads, MapFits
<1>3. Map!PendingIsLoading'
  <2> SUFFICES ASSUME NEW k \in mapPending'
               PROVE  \E o \in MapLoading : mapLoads'[o].key = k /\ mapLoads'[o].at \in MapAwaited
    BY DEF Map!PendingIsLoading, MapAwaited
  <2>1. CASE k \in mapPending
    <3>1. PICK o \in MapLoading : mapLoads[o].key = k /\ mapLoads[o].at \in MapAwaited
      BY <2>1 DEF Map!PendingIsLoading, MapAwaited
    <3>2. CASE o # l
      BY <1>1, <3>1, <3>2
    <3>3. CASE o = l
      <4>1. mapLoads[l].at # "none"
        BY <3>1, <3>3 DEF MapAwaited
      <4> QED
        BY <1>1, <3>1, <3>3, <4>1
    <3> QED
      BY <3>2, <3>3
  <2>2. CASE k \notin mapPending
    <3>1. k = r.key /\ r.at \in MapAwaited
      BY <2>2
    <3> QED
      BY <1>1, <3>1
  <2> QED
    BY <2>1, <2>2
<1> QED
  BY <1>2, <1>3

\* Nothing of the images changes.
LEMMA MapImagesStay ==
    ASSUME MapShown, UNCHANGED <<mapSource, mapAttached, mapBitmaps>>
    PROVE  MapShown'
BY DEF MapShown, MapAlike

\* The cache stays.
LEMMA MapCacheStays ==
    ASSUME MapTyped, MapBound, UNCHANGED <<mapSweep, mapStored, mapPutSince>>,
           UNCHANGED <<mapSource, mapGeneration, mapAttached>>
    PROVE  MapTyped' /\ MapBound'
BY DEF MapTyped, MapBound, MapOnce, MapKeys

\* What a stored tile is of.
LEMMA MapStoredIs ==
    ASSUME MapTyped, NEW k, Map!Has(mapStored, k)
    PROVE  Map!Of(mapStored, k) \in MapSources /\ k[1] = MapIds[Map!Of(mapStored, k)]
<1>1. Map!Place(mapStored, k) \in 1..Len(mapStored) /\ mapStored[Map!Place(mapStored, k)].key = k
  BY DEF Map!Has, Map!Place, Map!Positions
<1>2. mapStored[Map!Place(mapStored, k)] \in MapBlob
  BY <1>1 DEF MapTyped
<1> QED
  BY <1>1, <1>2 DEF MapBlob, Map!Of

\* The steps of a load, up to the store.
LEMMA MapLoadSteps ==
    ASSUME MapInv, NEW l \in MapLoading,
           \/ \E t \in MapTilesSeen : Map!Ensure(l, t)
           \/ Map!GetRange(l)
           \/ \E ok \in BOOLEAN : Map!Size(l, ok) \/ Map!Fetched(l, ok)
    PROVE  MapInv'
<1> USE DEF MapInv
<1> DEFINE load == mapLoads[l]
<1>1. load \in MapLoad /\ MapFits(load) /\ mapLoads \in [MapLoading -> MapLoad]
  BY DEF MapLoads, MapFits
<1>2. mapSource \in MapSources /\ mapGeneration \in Nat
  BY DEF MapTyped
<1>3. /\ Map!NoLoad \in MapLoad /\ Map!NoLoad.at = "none"
  BY <1>2, MapNoLoad
<1>4. MapFits(Map!NoLoad)
  BY <1>3 DEF MapFits
<1>5. MapTyped' /\ MapBound' /\ MapShown' /\ UNCHANGED <<mapSource, mapGeneration, mapAttached>>
  <2>1. /\ UNCHANGED <<mapSweep, mapStored, mapPutSince>>
        /\ UNCHANGED <<mapSource, mapGeneration, mapAttached, mapBitmaps>>
    BY DEF Map!Ensure, Map!GetRange, Map!Size, Map!Fetched, Map!EngineSame, Map!CacheSame
  <2> QED
    BY <2>1, MapImagesStay, MapCacheStays
<1> HIDE DEF Map!NoLoad
<1>6. ASSUME NEW t \in MapTilesSeen, Map!Ensure(l, t) PROVE MapLoads' /\ Map!PendingIsLoading'
  <2> DEFINE r == [at |-> "size", key |-> Map!Key(mapSource, t), source |-> mapSource, of |-> mapSource,
                   generation |-> mapGeneration]
  <2>1. r \in MapLoad /\ MapFits(r) /\ r.at \in MapAwaited
    BY <1>2, <1>6, MapKeyIs DEF MapLoad, MapFits, MapAwaited, Map!Ensure
  <2>2. mapLoads' = [mapLoads EXCEPT ![l] = r] /\ mapPending' = mapPending \cup {r.key} /\ load.at = "none"
    BY <1>6 DEF Map!Ensure
  <2> HIDE DEF r
  <2> QED
    BY <1>5, <2>1, <2>2, MapLoadGoes
<1>7. ASSUME NEW at \in MapAwaited, load.at \in MapAwaited, mapLoads' = [mapLoads EXCEPT ![l].at = at],
             mapPending' = mapPending
      PROVE  MapLoads' /\ Map!PendingIsLoading'
  <2> DEFINE r == [load EXCEPT !.at = at]
  <2>1. r \in MapLoad /\ MapFits(r) /\ r.at \in MapAwaited /\ r.key = load.key
    BY <1>1, <1>7 DEF MapLoad, MapFits, MapAwaited
  <2>2. mapLoads' = [mapLoads EXCEPT ![l] = r]
    BY <1>1, <1>7
  <2> HIDE DEF r
  <2> QED
    BY <1>5, <1>7, <2>1, <2>2, MapLoadGoes
<1>8. ASSUME mapLoads' = [mapLoads EXCEPT ![l] = Map!NoLoad], mapPending' = mapPending \ {load.key}
      PROVE  MapLoads' /\ Map!PendingIsLoading'
  BY <1>3, <1>4, <1>5, <1>8, MapLoadGoes
<1>9. ASSUME NEW of \in MapSources, load.at # "none", load.key[1] = MapIds[of], Map!Answers(l, of)
      PROVE  MapLoads' /\ Map!PendingIsLoading'
  <2> DEFINE r == [load EXCEPT !.at = "decode", !.of = of]
  <2>1. r \in MapLoad /\ MapFits(r)
    BY <1>1, <1>9 DEF MapLoad, MapFits
  <2>2. mapLoads' = [mapLoads EXCEPT ![l] = r] /\ mapPending' = mapPending \ {load.key}
    BY <1>1, <1>9 DEF Map!Answers
  <2> HIDE DEF r
  <2> QED
    BY <1>5, <2>1, <2>2, MapLoadGoes
<1>10. CASE Map!GetRange(l)
  <2>1. load.at = "range"
    BY <1>10 DEF Map!GetRange
  <2>2. CASE Map!Has(mapStored, load.key)
    <3>1. Map!Of(mapStored, load.key) \in MapSources /\ load.key[1] = MapIds[Map!Of(mapStored, load.key)]
      BY <2>2, MapStoredIs
    <3>2. Map!Answers(l, Map!Of(mapStored, load.key))
      BY <1>10, <2>2 DEF Map!GetRange
    <3> QED
      BY <1>5, <1>9, <2>1, <3>1, <3>2
  <2>3. CASE ~Map!Has(mapStored, load.key)
    BY <1>5, <1>8, <1>10, <2>3 DEF Map!GetRange, Map!Rejects, Map!Ends, Map!Released
  <2> QED
    BY <2>2, <2>3
<1>11. ASSUME NEW ok \in BOOLEAN, Map!Size(l, ok) PROVE MapLoads' /\ Map!PendingIsLoading'
  BY <1>7, <1>8, <1>11 DEF Map!Size, Map!Goes, Map!Misses, Map!Ends, MapAwaited
<1>12. ASSUME NEW ok \in BOOLEAN, Map!Fetched(l, ok) PROVE MapLoads' /\ Map!PendingIsLoading'
  BY <1>7, <1>8, <1>12 DEF Map!Fetched, Map!Goes, Map!Misses, Map!Ends, MapAwaited
<1> QED
  BY <1>5, <1>6, <1>10, <1>11, <1>12

\* A tile is stored: the limit grows by one until the next sweep.
LEMMA MapPutSteps ==
    ASSUME MapInv, NEW l \in MapLoading, Map!PutDone(l)
    PROVE  MapInv'
<1> USE DEF MapInv
<1> DEFINE load == mapLoads[l]
           e == [key |-> load.key, of |-> load.source]
           r == [load EXCEPT !.at = "decode", !.of = load.source]
<1>1. load \in MapLoad /\ MapFits(load) /\ load.at = "put"
  BY DEF MapLoads, MapFits, Map!PutDone
<1>2. e \in MapBlob /\ Map!Put(e.key, e.of)
  BY <1>1 DEF MapBlob, MapLoad, MapFits, Map!PutDone
<1>3. r \in MapLoad /\ MapFits(r)
  BY <1>1 DEF MapLoad, MapFits
<1>4. /\ mapLoads' = [mapLoads EXCEPT ![l] = r] /\ mapPending' = mapPending \ {load.key}
      /\ UNCHANGED <<mapSource, mapGeneration, mapAttached, mapBitmaps, mapSweep>>
  <2>1. mapLoads' = [mapLoads EXCEPT ![l].at = "decode", ![l].of = load.source]
    BY DEF Map!PutDone, Map!Answers
  <2> QED
    BY <1>1, <2>1 DEF Map!PutDone, Map!Answers, Map!EngineSame, Map!CacheSame, MapLoads
<1> HIDE DEF e, r
<1>5. MapLoads' /\ Map!PendingIsLoading'
  BY <1>3, <1>4, MapLoadGoes
<1>6. /\ mapStored' \in Seq(MapBlob) /\ MapOnce(mapStored)' /\ mapPutSince' \in Nat /\ MapBound'
  BY <1>2, <1>4, MapPuts
<1>7. MapTyped'
  BY <1>4, <1>6 DEF MapTyped
<1>8. MapShown'
  BY <1>4, MapImagesStay
<1> QED
  BY <1>5, <1>6, <1>7, <1>8

\* An image is drawn only if its load is for the basemap that is shown.
LEMMA MapImageSteps ==
    ASSUME MapInv, NEW l \in MapLoading, NEW ok \in BOOLEAN, Map!Decoded(l, ok)
    PROVE  MapInv'
<1> USE DEF MapInv
<1> DEFINE load == mapLoads[l]
           image == [key |-> load.key, of |-> load.of, generation |-> load.generation]
           now == IF Map!Has(mapBitmaps, image.key)
                  THEN [i \in 1..Len(mapBitmaps) |-> IF mapBitmaps[i].key = image.key THEN image ELSE mapBitmaps[i]]
                  ELSE Append(mapBitmaps, image)
           Images == [key : Map!TileKeys, of : MapAlike, generation : Nat]
<1>1. load \in MapLoad /\ MapFits(load) /\ load.at = "decode" /\ mapSource \in MapSources
  BY DEF MapLoads, MapFits, Map!Decoded, MapTyped
<1>2. /\ mapLoads' = [mapLoads EXCEPT ![l] = Map!NoLoad]
      /\ UNCHANGED <<mapSource, mapGeneration, mapAttached, mapPending, mapStored, mapPutSince, mapSweep>>
  BY DEF Map!Decoded, Map!Ends, Map!CacheSame
<1>3. Map!NoLoad \in MapLoad /\ MapFits(Map!NoLoad)
  BY <1>1, MapNoLoad DEF MapFits
<1> HIDE DEF Map!NoLoad
<1>4. MapLoads' /\ Map!PendingIsLoading'
  BY <1>1, <1>2, <1>3, MapLoadGoes DEF MapAwaited
<1>5. MapTyped' /\ MapBound'
  BY <1>2, MapCacheStays
<1>6. mapBitmaps \in Seq(Images) /\ (mapAttached \/ mapBitmaps = <<>>)
  BY DEF MapShown
<1>7. ~Map!Stale(l) => mapAttached /\ image \in Images
  <2> SUFFICES ASSUME load.generation = mapGeneration PROVE mapAttached /\ image \in Images
    BY DEF Map!Stale
  <2>1. mapAttached /\ MapIds[load.of] = MapIds[load.source] /\ load.source = mapSource /\ load.of \in MapSources
    BY <1>1 DEF MapFits, MapLoad
  <2>2. load.of \in MapAlike
    BY <1>1, <2>1 DEF MapAlike
  <2> QED
    BY <1>1, <2>1, <2>2 DEF MapLoad
<1>8. mapBitmaps' = IF ~ok \/ Map!Stale(l) THEN mapBitmaps
                    ELSE IF Len(now) > MapImages THEN Tail(now) ELSE now
  BY DEF Map!Decoded
<1> HIDE DEF image, Images
<1>9. ~Map!Stale(l) => now \in Seq(Images)
  <2> SUFFICES ASSUME image \in Images PROVE now \in Seq(Images)
    BY <1>7
  <2>1. CASE Map!Has(mapBitmaps, image.key)
    <3>1. \A i \in 1..Len(mapBitmaps) : mapBitmaps[i] \in Images
      BY <1>6
    <3>2. [i \in 1..Len(mapBitmaps) |-> IF mapBitmaps[i].key = image.key THEN image ELSE mapBitmaps[i]] \in Seq(Images)
      BY <1>6, <3>1
    <3> QED
      BY <2>1, <3>2
  <2>2. CASE ~Map!Has(mapBitmaps, image.key)
    BY <1>6, <2>2
  <2> QED
    BY <2>1, <2>2
<1> HIDE DEF now
<1>10. ~Map!Stale(l) => (Len(now) > MapImages => Tail(now) \in Seq(Images))
  <2> SUFFICES ASSUME now \in Seq(Images), Len(now) > MapImages PROVE Tail(now) \in Seq(Images)
    BY <1>9
  <2>1. Len(now) \in Nat /\ Len(now) > 0
    BY StoresAssumption
  <2>2. now # <<>>
    BY <2>1
  <2> QED
    BY <2>2
<1>11. mapBitmaps' \in Seq(Images) /\ (mapAttached \/ mapBitmaps' = <<>>)
  BY <1>6, <1>7, <1>8, <1>9, <1>10
<1>12. MapShown'
  BY <1>2, <1>11 DEF MapShown, MapAlike, Images
<1> QED
  BY <1>4, <1>5, <1>12

\* Another basemap, or another canvas, is another generation with no image.
LEMMA MapChangeSteps ==
    ASSUME MapInv, (\E s \in MapSources : Map!SetBasemap(s)) \/ Map!Detach \/ Map!Attach
    PROVE  MapInv'
<1> USE DEF MapInv
<1>0. mapSource \in MapSources /\ mapGeneration \in Nat /\ mapAttached \in BOOLEAN
  BY DEF MapTyped
<1>1. /\ mapSource' \in MapSources /\ mapAttached' \in BOOLEAN /\ mapGeneration' \in Nat
      /\ UNCHANGED <<mapSweep, mapStored, mapPutSince, mapLoads>>
      /\ \/ /\ mapGeneration' = mapGeneration + 1 /\ mapBitmaps' = <<>> /\ mapPending' = {}
         \/ /\ mapGeneration' = mapGeneration /\ mapSource' = mapSource /\ mapAttached'
            /\ mapBitmaps' = mapBitmaps /\ mapPending' = mapPending
  <2>1. ASSUME NEW s \in MapSources, Map!SetBasemap(s)
        PROVE  /\ mapSource' = s /\ mapAttached' = mapAttached /\ UNCHANGED <<mapSweep, mapStored, mapPutSince, mapLoads>>
               /\ mapGeneration' = mapGeneration + 1 /\ mapBitmaps' = <<>> /\ mapPending' = {}
    BY <2>1 DEF Map!SetBasemap, Map!Changes, Map!CacheSame
  <2>2. CASE Map!Detach
    <3>1. /\ mapSource' = mapSource /\ mapAttached' = FALSE /\ UNCHANGED <<mapSweep, mapStored, mapPutSince, mapLoads>>
          /\ mapGeneration' = mapGeneration + 1 /\ mapBitmaps' = <<>> /\ mapPending' = {}
      BY <2>2 DEF Map!Detach, Map!Changes, Map!CacheSame
    <3>2. mapAttached' \in BOOLEAN
      BY <3>1, Zenon
    <3>3. mapSource' \in MapSources /\ mapGeneration' \in Nat
      BY <1>0, <3>1
    <3> QED
      BY <3>1, <3>2, <3>3
  <2>3. CASE Map!Attach
    <3>1. /\ mapSource' = mapSource /\ mapAttached' = TRUE /\ UNCHANGED <<mapSweep, mapStored, mapPutSince, mapLoads>>
          /\ mapGeneration' = mapGeneration /\ mapBitmaps' = mapBitmaps /\ mapPending' = mapPending
      BY <2>3 DEF Map!Attach, Map!CacheSame
    <3> QED
      BY <1>0, <3>1
  <2> QED
    BY <1>0, <2>1, <2>2, <2>3
<1>2. mapGeneration \in Nat
  BY DEF MapTyped
<1>3. MapTyped'
  BY <1>1 DEF MapTyped, MapOnce
<1>4. MapBound'
  BY <1>1 DEF MapBound, MapKeys
<1>5. MapLoads'
  <2>1. \A l \in MapLoading : mapLoads[l].generation \in Nat
    BY MapLoadIs
  <2> QED
    BY <1>1, <1>2, <2>1 DEF MapLoads
<1>6. MapShown'
  <2>1. CASE mapBitmaps' = <<>>
    BY <2>1 DEF MapShown
  <2>2. CASE mapSource' = mapSource /\ mapAttached' /\ mapBitmaps' = mapBitmaps
    BY <2>2 DEF MapShown, MapAlike
  <2> QED
    BY <1>1, <2>1, <2>2
<1>7. Map!PendingIsLoading'
  BY <1>1 DEF Map!PendingIsLoading
<1> QED
  BY <1>3, <1>4, <1>5, <1>6, <1>7

\* A prefetch, an eviction, a clear: the tiles they delete are stored until then.
LEMMA MapSweepSteps ==
    ASSUME MapInv,
           \/ Map!Prefetch \/ Map!EvictList \/ Map!Clear \/ Map!Delete
           \/ \E ok \in BOOLEAN : Map!PrefetchTile(ok)
    PROVE  MapInv'
<1> USE DEF MapInv
<1> DEFINE Sweeps == [at : {"none", "fetch", "list", "delete"}, source : MapSources,
                      todo : SUBSET MapTilesSeen, victims : SUBSET Map!TileKeys]
<1>1. /\ mapSource \in MapSources /\ mapSweep \in Sweeps /\ mapStored \in Seq(MapBlob) /\ MapOnce(mapStored)
      /\ mapPutSince \in Nat /\ Len(mapStored) \in Nat
  BY DEF MapTyped
<1>2. Map!NoSweep \in Sweeps /\ Map!NoSweep.at = "none"
  BY <1>1, MapNoLoad
<1> HIDE DEF Map!NoSweep
<1>3. UNCHANGED <<mapSource, mapGeneration, mapAttached, mapBitmaps, mapPending, mapLoads>>
  BY DEF Map!Prefetch, Map!EvictList, Map!Clear, Map!Delete, Map!PrefetchTile, Map!EngineSame
<1>4. MapLoads' /\ MapShown' /\ Map!PendingIsLoading'
  BY <1>3, MapImagesStay DEF MapLoads, Map!PendingIsLoading
<1>5. SUFFICES ASSUME TRUE
               PROVE  mapSweep' \in Sweeps /\ mapStored' \in Seq(MapBlob) /\ MapOnce(mapStored)' /\ mapPutSince' \in Nat /\ MapBound'
  BY <1>3, <1>4 DEF MapTyped
<1>6. MapKeys(mapStored) \subseteq Map!TileKeys /\ IsFiniteSet(MapKeys(mapStored)) /\ Cardinality(MapKeys(mapStored)) = Len(mapStored)
  BY <1>1, MapKeysOf
<1>7. CASE Map!Prefetch
  <2>1. mapSweep' = [Map!NoSweep EXCEPT !.at = "fetch", !.source = mapSource, !.todo = MapTilesSeen]
        /\ mapSweep.at = "none" /\ UNCHANGED <<mapStored, mapPutSince>>
    BY <1>7 DEF Map!Prefetch
  <2>2. mapSweep' \in Sweeps /\ mapSweep'.at = "fetch"
    BY <1>1, <1>2, <2>1
  <2> HIDE DEF Sweeps
  <2> QED
    BY <1>1, <2>1, <2>2 DEF MapBound, MapKeys
<1>8. ASSUME NEW ok \in BOOLEAN, Map!PrefetchTile(ok)
      PROVE  mapSweep' \in Sweeps /\ mapStored' \in Seq(MapBlob) /\ MapOnce(mapStored)' /\ mapPutSince' \in Nat /\ MapBound'
  <2> DEFINE tile(t) == [key |-> Map!Key(mapSweep.source, t), of |-> mapSweep.source]
  <2>1. PICK t \in mapSweep.todo :
          /\ mapSweep' = [mapSweep EXCEPT !.todo = @ \ {t}, !.at = IF mapSweep.todo = {t} THEN "list" ELSE "fetch"]
          /\ Map!Put(tile(t).key, tile(t).of) \/ UNCHANGED <<mapStored, mapPutSince>>
    BY <1>8 DEF Map!PrefetchTile
  <2>2. mapSweep' \in Sweeps /\ mapSweep'.at # "delete" /\ mapSweep.at # "delete"
    BY <1>1, <1>8, <2>1 DEF Map!PrefetchTile
  <2>3. t \in MapTilesSeen /\ mapSweep.source \in MapSources
    BY <1>1, <2>1
  <2>4. tile(t) \in MapBlob
    BY <2>3, MapKeyIs DEF MapBlob
  <2> HIDE DEF tile, Sweeps
  <2>5. CASE Map!Put(tile(t).key, tile(t).of)
    BY <2>2, <2>4, <2>5, MapPuts
  <2>6. CASE UNCHANGED <<mapStored, mapPutSince>>
    BY <1>1, <2>2, <2>6 DEF MapBound, MapKeys
  <2> QED
    BY <2>1, <2>2, <2>5, <2>6
<1>9. CASE Map!EvictList
  <2>1. /\ mapSweep.at = "list" /\ mapPutSince' = 0 /\ mapStored' = mapStored
        /\ mapSweep' = IF Map!Oldest = {} THEN Map!NoSweep ELSE [mapSweep EXCEPT !.at = "delete", !.victims = Map!Oldest]
    BY <1>9 DEF Map!EvictList
  <2> DEFINE n == IF Len(mapStored) > MapEntries THEN Len(mapStored) - MapEntries ELSE 0
  <2>2. Map!Oldest = {mapStored[i].key : i \in 1..n}
    BY DEF Map!Oldest, Map!Over
  <2>3. n \in 0..Len(mapStored)
    BY <1>1, StoresAssumption
  <2>4. Len(mapStored) <= MapEntries + n
    BY <1>1, StoresAssumption
  <2> HIDE DEF n
  <2>5. /\ Cardinality(Map!Oldest) = n /\ IsFiniteSet(Map!Oldest)
        /\ Map!Oldest \subseteq Map!TileKeys /\ Map!Oldest \subseteq MapKeys(mapStored)
    <3>1. /\ IsFiniteSet({mapStored[i].key : i \in 1..n})
          /\ Cardinality({mapStored[i].key : i \in 1..n}) = n
          /\ {mapStored[i].key : i \in 1..n} \subseteq Map!TileKeys
      BY <1>1, <2>3, MapCounted
    <3>2. \A i \in 1..n : i \in 1..Len(mapStored)
      BY <1>1, <2>3
    <3>3. {mapStored[i].key : i \in 1..n} \subseteq MapKeys(mapStored)
      BY <3>2 DEF MapKeys
    <3> QED
      BY <2>2, <3>1, <3>3
  <2> HIDE DEF Map!Oldest
  <2>6. CASE Map!Oldest = {}
    <3>1. n = 0
      BY <2>5, <2>6, FS_EmptySet
    <3>2. mapSweep' = Map!NoSweep /\ Len(mapStored) <= MapEntries + 0
      BY <2>1, <2>4, <2>6, <3>1
    <3> QED
      BY <1>1, <1>2, <2>1, <3>2 DEF MapBound, MapOnce
  <2>7. CASE Map!Oldest # {}
    <3>1. mapSweep' \in Sweeps /\ mapSweep'.at = "delete" /\ mapSweep'.victims = Map!Oldest
      BY <1>1, <2>1, <2>5, <2>7
    <3>2. Len(mapStored) <= MapEntries + 0 + Cardinality(Map!Oldest)
      BY <2>3, <2>4, <2>5, StoresAssumption
    <3> HIDE DEF Sweeps
    <3> QED
      BY <1>1, <2>1, <2>5, <3>1, <3>2 DEF MapBound, MapOnce, MapKeys
  <2> QED
    BY <2>6, <2>7
<1>10. CASE Map!Clear
  <2>1. /\ mapSweep' = [Map!NoSweep EXCEPT !.at = "delete", !.victims = MapKeys(mapStored)]
        /\ UNCHANGED <<mapStored, mapPutSince>>
    BY <1>10 DEF Map!Clear, MapKeys
  <2>2. mapSweep' \in Sweeps /\ mapSweep'.at = "delete" /\ mapSweep'.victims = MapKeys(mapStored)
    BY <1>2, <1>6, <2>1
  <2> HIDE DEF Sweeps
  <2>3. Len(mapStored) <= MapEntries + mapPutSince + Cardinality(MapKeys(mapStored))
    BY <1>1, <1>6, StoresAssumption
  <2> QED
    BY <1>1, <2>1, <2>2, <2>3 DEF MapBound, MapOnce, MapKeys
<1>11. CASE Map!Delete
  <2>1. PICK k \in mapSweep.victims :
          /\ mapStored' = Map!Without(mapStored, k) /\ mapPutSince' = mapPutSince
          /\ mapSweep' = IF mapSweep.victims = {k} THEN Map!NoSweep ELSE [mapSweep EXCEPT !.victims = @ \ {k}]
    BY <1>11 DEF Map!Delete
  <2>2. mapSweep.at = "delete" /\ mapSweep.victims \subseteq MapKeys(mapStored)
        /\ Len(mapStored) <= MapEntries + mapPutSince + Cardinality(mapSweep.victims)
    BY <1>11 DEF Map!Delete, MapBound
  <2>3. /\ mapStored' \in Seq(MapBlob) /\ MapOnce(mapStored') /\ MapKeys(mapStored') = MapKeys(mapStored) \ {k}
        /\ Len(mapStored') = Len(mapStored) - 1
    BY <1>1, <2>1, <2>2, MapWithout
  <2>4. IsFiniteSet(mapSweep.victims) /\ Cardinality(mapSweep.victims) \in Nat
    BY <1>6, <2>2, FS_Subset, FS_CardinalityType
  <2>5. CASE mapSweep.victims = {k}
    <3>1. Cardinality(mapSweep.victims) = 1
      BY <2>5, FS_Singleton
    <3>2. Len(mapStored') <= MapEntries + mapPutSince
      BY <1>1, <2>2, <2>3, <3>1, StoresAssumption
    <3> QED
      BY <1>1, <1>2, <2>1, <2>3, <2>5, <3>2 DEF MapBound
  <2>6. CASE mapSweep.victims # {k}
    <3>1. Cardinality(mapSweep.victims \ {k}) = Cardinality(mapSweep.victims) - 1
      BY <2>1, <2>4, FS_RemoveElement
    <3>2. mapSweep' \in Sweeps /\ mapSweep'.at = "delete" /\ mapSweep'.victims = mapSweep.victims \ {k}
      BY <1>1, <2>1, <2>2, <2>6
    <3>3. Len(mapStored') <= MapEntries + mapPutSince + Cardinality(mapSweep'.victims)
      BY <1>1, <2>2, <2>3, <2>4, <3>1, <3>2, StoresAssumption
    <3> HIDE DEF Sweeps
    <3> QED
      BY <1>1, <2>1, <2>2, <2>3, <3>2, <3>3 DEF MapBound
  <2> QED
    BY <2>5, <2>6
<1> QED
  BY <1>7, <1>8, <1>9, <1>10, <1>11

\* Every step keeps the invariant of the tiles;
LEMMA MapKeeps == ASSUME MapInv, Map!Next PROVE MapInv'
BY MapLoadSteps, MapPutSteps, MapImageSteps, MapChangeSteps, MapSweepSteps DEF Map!Next

\* which promises what the run checks,
LEMMA MapPromises == ASSUME MapInv PROVE Map!TilesOfTheSource /\ Map!PendingIsLoading /\ Map!StoreBounded
<1>1. Map!TilesOfTheSource
  <2> DEFINE Images == [key : Map!TileKeys, of : MapAlike, generation : Nat]
  <2>1. mapBitmaps \in Seq(Images) /\ (mapAttached \/ mapBitmaps = <<>>)
    BY DEF MapInv, MapShown
  <2>2. \A image \in Images : MapIds[image.of] = MapIds[mapSource]
    BY DEF MapAlike
  <2> HIDE DEF Images
  <2>3. \A b \in 1..Len(mapBitmaps) : MapIds[mapBitmaps[b].of] = MapIds[mapSource]
    BY <2>1, <2>2
  <2> QED
    BY <2>1, <2>3 DEF Map!TilesOfTheSource
<1>2. Map!PendingIsLoading
  BY DEF MapInv
<1>3. Map!StoreBounded
  BY DEF MapInv, MapBound, Map!StoreBounded
<1> QED
  BY <1>1, <1>2, <1>3

-----------------------------------------------------------------------------
\* What holds of nothing, and of one more whenever it holds, holds of all.
LEMMA ByInduction ==
    ASSUME NEW N \in Nat, NEW S, 0 \in S, \A n \in 1..N : n - 1 \in S => n \in S
    PROVE  \A n \in 0..N : n \in S
<1> SUFFICES ASSUME \E n \in 0..N : n \notin S PROVE FALSE
  OBVIOUS
<1> DEFINE T == {n \in 0..N : n \notin S}
<1>1. T \in SUBSET Nat /\ T # {}
  OBVIOUS
<1>2. PICK m \in T : \A n \in T : m <= n
  BY <1>1, LeastNatural
<1>3. m # 0 /\ m \in 1..N /\ m - 1 \in 0..N
  BY <1>2
<1>4. m - 1 \notin T
  BY <1>2, <1>3
<1> QED
  BY <1>2, <1>3, <1>4

\* A recursive function that takes one step after the other exists.
Stepwise(f, N, S, zero, next) ==
    f \in [0..N -> S] /\ f[0] = zero /\ \A n \in 1..N : f[n] = next[<<f[n - 1], n>>]
LEMMA StepByStep ==
    ASSUME NEW N \in Nat, NEW S, NEW zero \in S, NEW next \in [S \X (1..N) -> S]
    PROVE  \E f : Stepwise(f, N, S, zero, next)
<1> DEFINE Is(f, n) == f \in [0..n -> S] /\ f[0] = zero /\ \A k \in 1..n : f[k] = next[<<f[k - 1], k>>]
           T == {n \in 0..N : \E f : Is(f, n)}
<1>1. 0 \in T
  <2> DEFINE g == [k \in 0..0 |-> zero]
  <2>1. Is(g, 0)
    OBVIOUS
  <2>2. \E f : Is(f, 0)
    BY <2>1
  <2> QED
    BY <2>2
<1>2. ASSUME NEW n \in 1..N, n - 1 \in T PROVE n \in T
  <2>1. PICK f : Is(f, n - 1)
    BY <1>2
  <2> DEFINE g == [k \in 0..n |-> IF k = n THEN next[<<f[n - 1], n>>] ELSE f[k]]
  <2>2. f[n - 1] \in S /\ next[<<f[n - 1], n>>] \in S
    BY <2>1
  <2>3. g \in [0..n -> S]
    BY <2>1, <2>2
  <2>4. g[0] = zero
    BY <2>1
  <2>5. \A k \in 1..n : g[k] = next[<<g[k - 1], k>>]
    <3> SUFFICES ASSUME NEW k \in 1..n PROVE g[k] = next[<<g[k - 1], k>>]
      OBVIOUS
    <3>1. g[k - 1] = f[k - 1]
      OBVIOUS
    <3>2. CASE k = n
      <4>1. g[k] = next[<<f[n - 1], n>>] /\ g[k - 1] = f[n - 1]
        BY <3>1, <3>2
      <4> HIDE DEF g
      <4>2. <<g[k - 1], k>> = <<f[n - 1], n>>
        BY <3>2, <4>1
      <4> QED
        BY <4>1, <4>2
    <3>3. CASE k # n
      <4>1. k \in 1..(n - 1)
        BY <3>3
      <4> QED
        BY <2>1, <3>1, <3>3, <4>1
    <3> QED
      BY <3>2, <3>3
  <2> HIDE DEF g
  <2>6. Is(g, n)
    BY <2>3, <2>4, <2>5
  <2> QED
    BY <2>6
<1> HIDE DEF T
<1>3. N \in T
  BY <1>1, <1>2, ByInduction
<1> QED
  BY <1>3 DEF T, Stepwise

RcnEntry == [id : Nat, name : FileNames, size : FileSizes, cached : BOOLEAN]
Takes(e) == IF e.cached THEN e.size ELSE 0
\* The running totals of what is kept of a list;
Sums(list, u) ==
    /\ u \in [0..Len(list) -> Nat] /\ u[0] = 0
    /\ \A n \in 1..Len(list) : u[n] = u[n - 1] + Takes(list[n])
\* the lists that a filter goes through.
Sieves(list, places, u) ==
    /\ u \in [0..Len(list) -> Seq(RcnEntry)] /\ u[0] = <<>>
    /\ \A n \in 1..Len(list) : u[n] = IF n \in places THEN Append(u[n - 1], list[n]) ELSE u[n - 1]

\* What is kept is counted by the totals.
LEMMA BytesAreSums ==
    ASSUME NEW list \in Seq(RcnEntry)
    PROVE  \E u : Sums(list, u) /\ Rcn!CachedBytes(list) = u[Len(list)]
<1> DEFINE N == Len(list)
           next == [p \in Nat \X (1..N) |-> p[1] + Takes(list[p[2]])]
           Body(u) == [n \in 0..N |-> IF n = 0 THEN 0
                                      ELSE u[n - 1] + (IF list[n].cached THEN list[n].size ELSE 0)]
           chosen == CHOOSE u : u = Body(u)
<1>0. N \in Nat
  OBVIOUS
<1>1. \A n \in 1..N : Takes(list[n]) \in Nat
  <2>1. \A e \in RcnEntry : Takes(e) \in Nat
    BY StoresAssumption DEF Takes, RcnEntry
  <2> QED
    BY <2>1
<1>2. next \in [Nat \X (1..N) -> Nat]
  BY <1>1
<1>3. PICK f \in [0..N -> Nat] : f[0] = 0 /\ \A n \in 1..N : f[n] = next[<<f[n - 1], n>>]
  <2> DEFINE zero == 0
             Numbers == Nat
  <2>1. zero \in Numbers /\ next \in [Numbers \X (1..N) -> Numbers]
    BY <1>2
  <2> HIDE DEF next, N, zero, Numbers
  <2>2. \E f : Stepwise(f, N, Numbers, zero, next)
    BY <1>0, <2>1, StepByStep
  <2> QED
    BY <2>2 DEF zero, Numbers, Stepwise
<1>4. \A n \in 1..N : f[n] = f[n - 1] + Takes(list[n])
  <2> SUFFICES ASSUME NEW n \in 1..N PROVE f[n] = f[n - 1] + Takes(list[n])
    OBVIOUS
  <2>1. f[n - 1] \in Nat /\ <<f[n - 1], n>> \in Nat \X (1..N)
    BY <1>0, <1>3
  <2> QED
    BY <1>3, <2>1
<1>5. f = Body(f)
  <2>1. \A n \in 0..N : f[n] = Body(f)[n]
    BY <1>0, <1>3, <1>4 DEF Takes
  <2>2. Body(f) = [n \in 0..N |-> Body(f)[n]] /\ f = [n \in 0..N |-> f[n]]
    BY <1>3
  <2> HIDE DEF Body
  <2> QED
    BY <2>1, <2>2
<1>6. chosen = Body(chosen)
  <2> HIDE DEF Body
  <2> QED
    BY <1>5
<1>7. Rcn!CachedBytes(list) = chosen[N]
  BY DEF Rcn!CachedBytes
<1> HIDE DEF chosen
<1> DEFINE S == {n \in 0..N : chosen[n] = f[n]}
<1>8. 0 \in S
  BY <1>0, <1>3, <1>6
<1>9. ASSUME NEW n \in 1..N, n - 1 \in S PROVE n \in S
  <2>1. chosen[n] = Body(chosen)[n]
    BY <1>6
  <2>2. chosen[n] = chosen[n - 1] + Takes(list[n])
    BY <1>0, <2>1 DEF Takes
  <2> QED
    BY <1>4, <1>9, <2>2
<1>10. N \in S
  <2> HIDE DEF S, N
  <2>1. \A n \in 0..N : n \in S
    BY <1>0, <1>8, <1>9, ByInduction
  <2> QED
    BY <1>0, <2>1
<1> QED
  BY <1>3, <1>4, <1>7, <1>10 DEF Sums

\* A filtered list is the last of those that the filter goes through.
LEMMA FilteredIsSieved ==
    ASSUME NEW list \in Seq(RcnEntry), NEW places
    PROVE  \E u : Sieves(list, places, u) /\ Rcn!Filtered(list, places) = u[Len(list)]
<1> DEFINE N == Len(list)
           Lists == Seq(RcnEntry)
           Then(s, n) == IF n \in places THEN Append(s, list[n]) ELSE s
           next == [p \in Lists \X (1..N) |-> Then(p[1], p[2])]
           Body(u) == [n \in 0..N |-> IF n = 0 THEN <<>>
                                      ELSE IF n \in places THEN Append(u[n - 1], list[n]) ELSE u[n - 1]]
           chosen == CHOOSE u : u = Body(u)
<1>0. N \in Nat /\ <<>> \in Lists
  OBVIOUS
<1>1. \A s \in Lists, n \in 1..N : Then(s, n) \in Lists
  OBVIOUS
<1>2. next \in [Lists \X (1..N) -> Lists]
  <2> HIDE DEF Then, Lists
  <2> QED
    BY <1>1
<1>3. PICK f \in [0..N -> Lists] : f[0] = <<>> /\ \A n \in 1..N : f[n] = next[<<f[n - 1], n>>]
  <2> DEFINE none == <<>>
  <2>1. none \in Lists
    BY <1>0
  <2>3. next \in [Lists \X (1..N) -> Lists]
    BY <1>2
  <2> HIDE DEF next, N, Lists, none
  <2>2. \E f : Stepwise(f, N, Lists, none, next)
    BY <1>0, <2>3, <2>1, StepByStep
  <2> QED
    BY <2>2 DEF none, Stepwise
<1>4. \A n \in 1..N : f[n] = Then(f[n - 1], n)
  <2> SUFFICES ASSUME NEW n \in 1..N PROVE f[n] = Then(f[n - 1], n)
    OBVIOUS
  <2> HIDE DEF Then, Lists
  <2>1. f[n - 1] \in Lists /\ <<f[n - 1], n>> \in Lists \X (1..N)
    BY <1>0, <1>3
  <2> QED
    BY <1>3, <2>1
<1>5. f = Body(f)
  <2>1. ASSUME NEW n \in 0..N PROVE f[n] = Body(f)[n]
    <3>1. CASE n = 0
      BY <1>3, <3>1
    <3>2. CASE n # 0
      <4>1. n \in 1..N
        BY <1>0, <3>2
      <4>2. f[n] = IF n \in places THEN Append(f[n - 1], list[n]) ELSE f[n - 1]
        BY <1>4, <4>1
      <4> HIDE DEF N
      <4> QED
        BY <3>2, <4>2
    <3> QED
      BY <3>1, <3>2
  <2>2. Body(f) = [n \in 0..N |-> Body(f)[n]] /\ f = [n \in 0..N |-> f[n]]
    BY <1>3
  <2> HIDE DEF Body
  <2> QED
    BY <2>1, <2>2
<1>6. chosen = Body(chosen)
  <2> HIDE DEF Body
  <2> QED
    BY <1>5
<1>7. Rcn!Filtered(list, places) = chosen[N]
  BY DEF Rcn!Filtered
<1> HIDE DEF chosen
<1> DEFINE S == {n \in 0..N : chosen[n] = f[n]}
<1>8. 0 \in S
  BY <1>0, <1>3, <1>6
<1>9. ASSUME NEW n \in 1..N, n - 1 \in S PROVE n \in S
  <2>1. chosen[n] = Body(chosen)[n]
    BY <1>6
  <2>2. chosen[n] = Then(chosen[n - 1], n)
    BY <1>0, <2>1
  <2> QED
    BY <1>4, <1>9, <2>2
<1>10. N \in S
  <2> HIDE DEF S, N
  <2>1. \A n \in 0..N : n \in S
    BY <1>0, <1>8, <1>9, ByInduction
  <2> QED
    BY <1>0, <2>1
<1> QED
  BY <1>3, <1>4, <1>7, <1>10 DEF Sieves


\* Totals of two lists agree as far as the lists do.
LEMMA SumsAgree ==
    ASSUME NEW s \in Seq(RcnEntry), NEW t \in Seq(RcnEntry), NEW u, NEW v, Sums(s, u), Sums(t, v),
           NEW K \in Nat, K <= Len(s), K <= Len(t), \A n \in 1..K : s[n] = t[n]
    PROVE  u[K] = v[K]
<1> DEFINE S == {n \in 0..K : u[n] = v[n]}
<1>1. 0 \in S
  BY DEF Sums
<1>2. ASSUME NEW n \in 1..K, n - 1 \in S PROVE n \in S
  <2>1. n \in 1..Len(s) /\ n \in 1..Len(t)
    OBVIOUS
  <2>2. u[n] = u[n - 1] + Takes(s[n]) /\ v[n] = v[n - 1] + Takes(t[n])
    BY <2>1 DEF Sums
  <2> QED
    BY <1>2, <2>2
<1> HIDE DEF S
<1>3. \A n \in 0..K : n \in S
  BY <1>1, <1>2, ByInduction
<1> QED
  BY <1>3 DEF S

\* What is kept of a list is the last of any running totals of it;
LEMMA BytesAre ==
    ASSUME NEW s \in Seq(RcnEntry)
    PROVE  /\ Rcn!CachedBytes(s) \in Nat
           /\ \A u : Sums(s, u) => Rcn!CachedBytes(s) = u[Len(s)]
<1>1. PICK v : Sums(s, v) /\ Rcn!CachedBytes(s) = v[Len(s)]
  BY BytesAreSums
<1>2. Len(s) \in Nat /\ Len(s) <= Len(s)
  OBVIOUS
<1>3. \A u : Sums(s, u) => u[Len(s)] = v[Len(s)]
  BY <1>1, <1>2, SumsAgree
<1>4. v[Len(s)] \in Nat
  BY <1>1, <1>2 DEF Sums
<1> QED
  BY <1>1, <1>3, <1>4

\* One file more takes its own bytes more.
LEMMA BytesAppend ==
    ASSUME NEW s \in Seq(RcnEntry), NEW e \in RcnEntry
    PROVE  Rcn!CachedBytes(Append(s, e)) = Rcn!CachedBytes(s) + Takes(e)
<1> DEFINE t == Append(s, e)
           N == Len(s)
<1>1. N \in Nat /\ t \in Seq(RcnEntry) /\ Len(t) = N + 1 /\ t[N + 1] = e /\ \A n \in 1..N : s[n] = t[n]
  OBVIOUS
<1>2. PICK u : Sums(s, u) /\ Rcn!CachedBytes(s) = u[N]
  BY BytesAreSums
<1>3. PICK v : Sums(t, v) /\ Rcn!CachedBytes(t) = v[Len(t)]
  BY <1>1, BytesAreSums
<1> HIDE DEF t
<1>4. u[N] = v[N]
  BY <1>1, <1>2, <1>3, SumsAgree
<1>5. N + 1 \in 1..Len(t) /\ N + 1 - 1 = N
  BY <1>1
<1>6. v[N + 1] = v[N + 1 - 1] + Takes(t[N + 1])
  BY <1>3, <1>5 DEF Sums
<1> HIDE DEF N
<1>7. Rcn!CachedBytes(t) = u[N] + Takes(e)
  BY <1>1, <1>3, <1>4, <1>5, <1>6
<1> QED
  BY <1>2, <1>7 DEF t

\* it is nothing for no files.
LEMMA BytesOfNone == Rcn!CachedBytes(<<>>) = 0
<1> DEFINE none == <<>>
<1>1. none \in Seq(RcnEntry) /\ Len(none) = 0
  OBVIOUS
<1> HIDE DEF none
<1>2. PICK u : Sums(none, u) /\ Rcn!CachedBytes(none) = u[Len(none)]
  BY <1>1, BytesAreSums
<1>3. u[0] = 0
  BY <1>2 DEF Sums
<1>4. Rcn!CachedBytes(none) = 0
  BY <1>1, <1>2, <1>3
<1> QED
  BY <1>4 DEF none

\* Where something is kept there is a file that is kept, and the oldest of them.
LEMMA OldestIsCached ==
    ASSUME NEW list \in Seq(RcnEntry), Rcn!CachedBytes(list) # 0
    PROVE  Rcn!OldestCached(list) \in 1..Len(list)
<1> DEFINE N == Len(list)
<1>0. N \in Nat /\ DOMAIN list = 1..N
  OBVIOUS
<1>1. \E n \in 1..N : list[n].cached
  <2> SUFFICES ASSUME \A n \in 1..N : ~list[n].cached PROVE FALSE
    OBVIOUS
  <2>1. PICK u : Sums(list, u) /\ Rcn!CachedBytes(list) = u[N]
    BY BytesAreSums
  <2> DEFINE S == {n \in 0..N : u[n] = 0}
  <2>2. 0 \in S
    BY <1>0, <2>1 DEF Sums
  <2>3. ASSUME NEW n \in 1..N, n - 1 \in S PROVE n \in S
    <3>1. Takes(list[n]) = 0
      BY Zenon DEF Takes
    <3>2. u[n] = u[n - 1] + Takes(list[n]) /\ u[n - 1] = 0 /\ n \in 0..N
      BY <2>1, <2>3 DEF Sums
    <3> QED
      BY <3>1, <3>2
  <2> HIDE DEF S, N
  <2>4. \A n \in 0..N : n \in S
    BY <1>0, <2>2, <2>3, ByInduction
  <2> QED
    BY <1>0, <2>1, <2>4 DEF S
<1> HIDE DEF N
<1> DEFINE T == {m \in Nat : m < N /\ list[N - m].cached}
<1>2. T \in SUBSET Nat /\ T # {}
  <2>1. PICK n \in 1..N : list[n].cached
    BY <1>1
  <2>2. N - n \in Nat /\ N - n < N /\ N - (N - n) = n
    BY <1>0
  <2> QED
    BY <2>1, <2>2
<1>3. PICK m \in T : \A k \in T : m <= k
  <2> HIDE DEF T
  <2> QED
    BY <1>2, LeastNatural
<1>4. N - m \in 1..N /\ list[N - m].cached
  BY <1>0, <1>3
<1>5. ASSUME NEW k \in 1..N, list[k].cached PROVE k <= N - m
  <2>1. N - k \in Nat /\ N - k < N /\ N - (N - k) = k
    BY <1>0
  <2>2. N - k \in T
    BY <1>5, <2>1
  <2>3. m \in Nat /\ m <= N - k
    BY <1>3, <2>2
  <2> QED
    BY <1>0, <2>1, <2>3
<1> HIDE DEF T
<1>6. \E n \in DOMAIN list : list[n].cached /\ \A k \in DOMAIN list : list[k].cached => k <= n
  BY <1>0, <1>4, <1>5
<1> QED
  BY <1>0, <1>6 DEF Rcn!OldestCached, N

\* A file, and a name, is in a list once.
Once(list) ==
    \A m, n \in 1..Len(list) : list[m].id = list[n].id \/ list[m].name = list[n].name => m = n
RcnIds(list) == {list[n].id : n \in 1..Len(list)}
\* What is left of a list when only some places stay.
Left(new, list, places) ==
    /\ new \in Seq(RcnEntry) /\ Once(new) /\ Len(new) <= Len(list)
    /\ \A m \in 1..Len(new) : \E n \in places : new[m] = list[n]
    /\ \A n \in places : \E m \in 1..Len(new) : new[m] = list[n]

\* A filter leaves files of the list, in their order, which take no more than it.
LEMMA FilterLeaves ==
    ASSUME NEW list \in Seq(RcnEntry), Once(list), NEW places, places \subseteq 1..Len(list)
    PROVE  /\ Left(Rcn!Filtered(list, places), list, places)
           /\ Rcn!CachedBytes(Rcn!Filtered(list, places)) <= Rcn!CachedBytes(list)
<1> DEFINE N == Len(list)
<1>0. N \in Nat
  OBVIOUS
<1>1. PICK u : Sieves(list, places, u) /\ Rcn!Filtered(list, places) = u[N]
  BY FilteredIsSieved
<1>2. PICK v : Sums(list, v) /\ Rcn!CachedBytes(list) = v[N]
  BY BytesAreSums
<1>3. \A n \in 0..N : u[n] \in Seq(RcnEntry) /\ v[n] \in Nat
  BY <1>1, <1>2 DEF Sieves, Sums
<1> DEFINE Some(n) == places \cap (1..n)
           S == {n \in 0..N : Left(u[n], list, Some(n)) /\ Len(u[n]) <= n
                              /\ Rcn!CachedBytes(u[n]) <= v[n]}
<1>4. 0 \in S
  <2>1. u[0] = <<>> /\ v[0] = 0 /\ Some(0) = {}
    BY <1>1, <1>2 DEF Sieves, Sums
  <2>2. Left(<<>>, list, {})
    BY <1>0 DEF Left, Once
  <2>3. Len(u[0]) = 0
    BY <2>1
  <2>4. Rcn!CachedBytes(u[0]) = 0
    BY <2>1, BytesOfNone
  <2> QED
    BY <1>0, <2>1, <2>2, <2>3, <2>4
<1>5. ASSUME NEW n \in 1..N, n - 1 \in S PROVE n \in S
  <2> DEFINE old == u[n - 1]
             e == list[n]
  <2>1. /\ Left(old, list, Some(n - 1)) /\ Len(old) <= n - 1 /\ Rcn!CachedBytes(old) <= v[n - 1]
        /\ old \in Seq(RcnEntry) /\ e \in RcnEntry /\ n \in 0..N /\ n - 1 \in 0..N
    BY <1>0, <1>3, <1>5
  <2>2. v[n] = v[n - 1] + Takes(e) /\ Takes(e) \in Nat /\ v[n - 1] \in Nat /\ Rcn!CachedBytes(old) \in Nat
    <3>1. \A x \in RcnEntry : Takes(x) \in Nat
      BY StoresAssumption DEF Takes, RcnEntry
    <3> QED
      BY <1>2, <1>3, <2>1, <3>1, BytesAre DEF Sums
  <2>3. u[n] = IF n \in places THEN Append(old, e) ELSE old
    BY <1>1 DEF Sieves
  <2>4. Some(n) = IF n \in places THEN Some(n - 1) \cup {n} ELSE Some(n - 1)
    BY <1>0
  <2>5. CASE n \notin places
    <3>1. u[n] = old /\ Some(n) = Some(n - 1)
      BY <2>3, <2>4, <2>5
    <3>2. Rcn!CachedBytes(u[n]) <= v[n] /\ Len(u[n]) <= n
      BY <2>1, <2>2, <3>1
    <3> HIDE DEF Some, old
    <3> QED
      BY <2>1, <3>1, <3>2
  <2>6. CASE n \in places
    <3> DEFINE M == Len(old)
               now == Append(old, e)
    <3>1. /\ M \in Nat /\ now \in Seq(RcnEntry) /\ Len(now) = M + 1 /\ now[M + 1] = e
          /\ \A m \in 1..M : now[m] = old[m]
      BY <2>1
    <3>2. Rcn!CachedBytes(now) = Rcn!CachedBytes(old) + Takes(e)
      BY <2>1, BytesAppend
    <3>3. \A m \in 1..M : old[m].id # e.id /\ old[m].name # e.name
      <4> SUFFICES ASSUME NEW m \in 1..M PROVE old[m].id # e.id /\ old[m].name # e.name
        OBVIOUS
      <4>1. PICK k \in Some(n - 1) : old[m] = list[k]
        BY <2>1 DEF Left
      <4>2. k \in 1..N /\ k # n
        BY <1>0, <4>1
      <4> QED
        BY <4>1, <4>2 DEF Once
    <3>4. Once(old)
      BY <2>1 DEF Left
    <3> HIDE DEF now, M
    <3>5. Once(now)
      <4> SUFFICES ASSUME NEW a \in 1..Len(now), NEW b \in 1..Len(now),
                          now[a].id = now[b].id \/ now[a].name = now[b].name
                   PROVE  a = b
        BY DEF Once
      <4>1. a \in 1..M \/ a = M + 1
        BY <3>1
      <4>2. b \in 1..M \/ b = M + 1
        BY <3>1
      <4>3. CASE a \in 1..M /\ b \in 1..M
        BY <3>1, <3>4, <4>3 DEF Once, M
      <4>4. CASE a \in 1..M /\ b = M + 1
        BY <3>1, <3>3, <4>4
      <4>5. CASE a = M + 1 /\ b \in 1..M
        BY <3>1, <3>3, <4>5
      <4> QED
        BY <4>1, <4>2, <4>3, <4>4, <4>5
    <3>6. u[n] = now /\ Some(n) = Some(n - 1) \cup {n}
      BY <2>3, <2>4, <2>6 DEF now
    <3>7. Len(now) <= n /\ n <= N /\ Rcn!CachedBytes(now) <= v[n]
      BY <1>0, <2>1, <2>2, <3>1, <3>2 DEF M
    <3>8. Left(now, list, Some(n - 1) \cup {n})
      <4>1. \A m \in 1..Len(now) : \E k \in Some(n - 1) \cup {n} : now[m] = list[k]
        <5> SUFFICES ASSUME NEW m \in 1..Len(now) PROVE \E k \in Some(n - 1) \cup {n} : now[m] = list[k]
          OBVIOUS
        <5>1. CASE m = M + 1
          BY <3>1, <5>1
        <5>2. CASE m # M + 1
          <6>1. m \in 1..M
            BY <3>1, <5>2
          <6> QED
            BY <2>1, <3>1, <6>1 DEF Left, M
        <5> QED
          BY <5>1, <5>2
      <4>2. \A k \in Some(n - 1) \cup {n} : \E m \in 1..Len(now) : now[m] = list[k]
        <5> SUFFICES ASSUME NEW k \in Some(n - 1) \cup {n} PROVE \E m \in 1..Len(now) : now[m] = list[k]
          OBVIOUS
        <5>1. CASE k = n
          <6>1. M + 1 \in 1..Len(now)
            BY <3>1
          <6> QED
            BY <3>1, <5>1, <6>1
        <5>2. CASE k # n
          <6>1. PICK m \in 1..M : old[m] = list[k]
            BY <2>1, <5>2 DEF Left, M
          <6>2. m \in 1..Len(now)
            BY <3>1
          <6> QED
            BY <3>1, <6>1, <6>2
        <5> QED
          BY <5>1, <5>2
      <4>3. Len(now) <= Len(list)
        BY <1>0, <3>1, <3>7
      <4> HIDE DEF Some
      <4> QED
        BY <3>1, <3>5, <4>1, <4>2, <4>3 DEF Left
    <3> HIDE DEF Some
    <3> QED
      BY <2>1, <3>6, <3>7, <3>8
  <2> QED
    BY <2>5, <2>6
<1>6. N \in S
  <2> HIDE DEF S, N
  <2>1. \A n \in 0..N : n \in S
    BY <1>0, <1>4, <1>5, ByInduction
  <2> QED
    BY <1>0, <2>1
<1>7. Some(N) = places
  BY <1>0
<1> QED
  BY <1>1, <1>2, <1>6, <1>7


\* What goes, as far as its content: the files at the places that do not stay.
LEMMA LeftMatches ==
    ASSUME NEW list \in Seq(RcnEntry), Once(list), NEW places, places \subseteq 1..Len(list),
           NEW new, Left(new, list, places)
    PROVE  /\ RcnIds(new) \subseteq RcnIds(list)
           /\ Rcn!CachedIds(new) = Rcn!CachedIds(list) \ {list[n].id : n \in (1..Len(list)) \ places}
<1> DEFINE Gone == {list[n].id : n \in (1..Len(list)) \ places}
<1>0. DOMAIN list = 1..Len(list) /\ DOMAIN new = 1..Len(new)
  BY DEF Left
<1>1. RcnIds(new) \subseteq RcnIds(list)
  <2> SUFFICES ASSUME NEW m \in 1..Len(new) PROVE new[m].id \in RcnIds(list)
    BY DEF RcnIds
  <2>1. PICK n \in places : new[m] = list[n]
    BY DEF Left
  <2> QED
    BY <2>1 DEF RcnIds
<1>2. ASSUME NEW i \in Rcn!CachedIds(new) PROVE i \in Rcn!CachedIds(list) /\ i \notin Gone
  <2>1. PICK m \in 1..Len(new) : new[m].cached /\ new[m].id = i
    BY <1>0, <1>2 DEF Rcn!CachedIds
  <2>2. PICK n \in places : new[m] = list[n]
    BY <2>1 DEF Left
  <2>3. n \in 1..Len(list) /\ list[n].cached /\ list[n].id = i
    BY <2>1, <2>2
  <2>4. i \in Rcn!CachedIds(list)
    BY <1>0, <2>3 DEF Rcn!CachedIds
  <2>5. \A k \in 1..Len(list) : list[k].id = i => k = n
    BY <2>3 DEF Once
  <2> QED
    BY <2>2, <2>4, <2>5
<1>3. ASSUME NEW i \in Rcn!CachedIds(list), i \notin Gone PROVE i \in Rcn!CachedIds(new)
  <2>1. PICK n \in 1..Len(list) : list[n].cached /\ list[n].id = i
    BY <1>0, <1>3 DEF Rcn!CachedIds
  <2>2. n \in places
    BY <1>3, <2>1
  <2>3. PICK m \in 1..Len(new) : new[m] = list[n]
    BY <2>2 DEF Left
  <2> QED
    BY <1>0, <2>1, <2>3 DEF Rcn!CachedIds
<1> HIDE DEF Gone
<1> QED
  BY <1>1, <1>2, <1>3 DEF Gone

RcnSteps == {"queued", "dupes", "put", "trim", "uncache", "remove", "clear", "persist", "done"}
RcnDeletes == {"dupes", "trim", "uncache", "remove", "clear"}
RcnCalls == [op : {"record", "remove", "clear", "none"}, name : FileNames \cup {Rcn!NoName},
             size : Nat, id : Nat, step : RcnSteps, work : Seq(Nat)]
\* A record is the call that its id names.
CallTrue(call, n) == call.op = "record" => call.id = n /\ call.name \in FileNames /\ call.size \in FileSizes
Matched(list, b, c) == Rcn!CachedIds(list) \ c = b \ c
Small(list) == Len(list) <= FilesListed /\ Rcn!CachedBytes(list) <= FileBytes
Unnamed(list, name) == \A n \in 1..Len(list) : list[n].name # name
\* What a call takes out of the list when the contents have been deleted.
Leaves(list, call, n) ==
    \/ call.step = "dupes" /\ list[n].name = call.name
    \/ call.step = "trim" /\ n > FilesListed
    \/ call.step = "uncache" /\ list[n].id = call.work[1]
    \/ call.step = "remove" /\ list[n].id = call.id
    \/ call.step = "clear"
Doomed(list, call) == {list[n].id : n \in {k \in 1..Len(list) : Leaves(list, call, k)}}
InWork(work) == {work[k] : k \in 1..Len(work)}
\* Between two deletions the others are as they are shown, and those that are still
\* kept are about to be deleted.
Half(list, call, b, c) ==
    /\ InWork(call.work) \subseteq Doomed(list, call)
    /\ (Rcn!CachedIds(list) \ c) \ Doomed(list, call) = (b \ c) \ Doomed(list, call)
    /\ (b \ c) \cap Doomed(list, call) \subseteq InWork(call.work)
Holds(list, call, b, c) ==
    /\ call.step = "put" => Matched(list, b, c) /\ Unnamed(list, call.name)
    /\ call.step = "persist" => Matched(list, b, c) /\ Small(list)
    /\ call.step \in RcnDeletes => call.work # <<>> /\ Half(list, call, b, c)
    /\ call.step = "uncache" => Len(list) <= FilesListed /\ Len(call.work) = 1
    /\ call.step = "remove" => Small(list)
    /\ call.step \in {"dupes", "put", "trim", "uncache"} => call.op = "record"
\* Only a call that deletes has something to delete.
NoWork(call) == call.step \notin RcnDeletes => call.work = <<>>
\* What a step of a call may leave, when the files i are in the list before it.
Right(r, call, ids, b, c) ==
    /\ r.list \in Seq(RcnEntry) /\ Once(r.list) /\ r.call \in RcnCalls
    /\ r.call.op = call.op /\ r.call.id = call.id /\ r.call.name = call.name /\ r.call.size = call.size
    /\ NoWork(r.call) /\ r.call.step # "queued" /\ r.call.step # "done" /\ Holds(r.list, r.call, b, c)
    /\ RcnIds(r.list) \subseteq ids \cup (IF r.call.step \in {"dupes", "put"} THEN {} ELSE {call.id})
    /\ call.op # "record" => RcnIds(r.list) \subseteq ids

\* A call at another step.
LEMMA AtIs ==
    ASSUME NEW call \in RcnCalls, NEW step \in RcnSteps, NEW work \in Seq(Nat)
    PROVE  /\ Rcn!At(call, step, work) \in RcnCalls /\ Rcn!At(call, step, work).op = call.op
           /\ Rcn!At(call, step, work).name = call.name /\ Rcn!At(call, step, work).size = call.size
           /\ Rcn!At(call, step, work).id = call.id /\ Rcn!At(call, step, work).step = step
           /\ Rcn!At(call, step, work).work = work
<1> DEFINE r == Rcn!At(call, step, work)
           Works == Seq(Nat)
           Names == FileNames \cup {Rcn!NoName}
           Ops == {"record", "remove", "clear", "none"}
<1>1. call \in [op : Ops, name : Names, size : Nat, id : Nat, step : RcnSteps, work : Works]
  BY DEF RcnCalls
<1>2. work \in Works
  OBVIOUS
<1> HIDE DEF Works, Names, Ops
<1>3. /\ r \in [op : Ops, name : Names, size : Nat, id : Nat, step : RcnSteps, work : Works]
      /\ r.op = call.op /\ r.name = call.name /\ r.size = call.size
      /\ r.id = call.id /\ r.step = step /\ r.work = work
  BY <1>1, <1>2 DEF Rcn!At
<1> HIDE DEF r
<1>4. r \in RcnCalls
  BY <1>3 DEF RcnCalls, Works, Names, Ops
<1> QED
  BY <1>3, <1>4 DEF r

\* The ids of a list, in its order.
LEMMA IdsOfIs ==
    ASSUME NEW list \in Seq(RcnEntry)
    PROVE  /\ Rcn!IdsOf(list) \in Seq(Nat) /\ Len(Rcn!IdsOf(list)) = Len(list)
           /\ \A n \in 1..Len(list) : Rcn!IdsOf(list)[n] = list[n].id
           /\ InWork(Rcn!IdsOf(list)) = RcnIds(list)
<1> DEFINE N == Len(list)
           f == [n \in 1..N |-> list[n].id]
<1>1. N \in Nat /\ DOMAIN list = 1..N
  OBVIOUS
<1>2. \A n \in 1..N : list[n].id \in Nat
  <2>1. \A e \in RcnEntry : e.id \in Nat
    BY DEF RcnEntry
  <2> QED
    BY <2>1
<1>3. Rcn!IdsOf(list) = f
  BY <1>1 DEF Rcn!IdsOf
<1> HIDE DEF N
<1>4. f \in Seq(Nat) /\ Len(f) = N /\ \A n \in 1..N : f[n] = list[n].id
  BY <1>1, <1>2
<1> HIDE DEF f
<1> QED
  BY <1>3, <1>4 DEF N, InWork, RcnIds

\* A list that is short enough is stored, or the oldest content goes first.
LEMMA FittedHolds ==
    ASSUME NEW list \in Seq(RcnEntry), Once(list), NEW call \in RcnCalls, call.op = "record",
           NEW b, NEW c, Matched(list, b, c), Len(list) <= FilesListed
    PROVE  /\ Right(Rcn!Fitted(list, call), call, RcnIds(list), b, c)
           /\ Rcn!Fitted(list, call).call.step \notin {"dupes", "put"}
<1> DEFINE r == Rcn!Fitted(list, call)
<1>1. CASE Rcn!CachedBytes(list) > FileBytes
  <2> DEFINE o == Rcn!OldestCached(list)
             work == <<list[o].id>>
             k == Rcn!At(call, "uncache", work)
  <2>1. o \in 1..Len(list)
    <3>1. Rcn!CachedBytes(list) # 0
      BY <1>1, BytesAre, StoresAssumption
    <3> QED
      BY <3>1, OldestIsCached
  <2> HIDE DEF o
  <2>2. list[o] \in RcnEntry /\ list[o].id \in Nat
    <3>1. list[o] \in RcnEntry
      BY <2>1
    <3> QED
      BY <3>1 DEF RcnEntry
  <2>3. work \in Seq(Nat) /\ Len(work) = 1 /\ work[1] = list[o].id /\ InWork(work) = {list[o].id} /\ work # <<>>
    BY <2>2 DEF InWork
  <2> HIDE DEF work
  <2>4. /\ k \in RcnCalls /\ k.op = call.op /\ k.name = call.name /\ k.size = call.size
        /\ k.id = call.id /\ k.step = "uncache" /\ k.work = work
    <3>1. "uncache" \in RcnSteps
      BY DEF RcnSteps
    <3> QED
      BY <2>3, <3>1, AtIs
  <2>5. r.list = list /\ r.call = k
    BY <1>1 DEF Rcn!Fitted, work, o
  <2> HIDE DEF k, r
  <2>6. Doomed(list, k) = {list[o].id}
    BY <2>1, <2>3, <2>4 DEF Doomed, Leaves
  <2>7. Half(list, k, b, c)
    BY <2>3, <2>4, <2>6 DEF Half, Matched
  <2>8. Holds(list, k, b, c)
    BY <2>3, <2>4, <2>7 DEF Holds
  <2>9. NoWork(k)
    BY <2>4 DEF NoWork, RcnDeletes
  <2> QED
    BY <2>4, <2>5, <2>8, <2>9 DEF Right, r
<1>2. CASE ~(Rcn!CachedBytes(list) > FileBytes)
  <2> DEFINE work == <<>>
             k == Rcn!At(call, "persist", work)
  <2>1. work \in Seq(Nat)
    OBVIOUS
  <2>2. r.list = list /\ r.call = k
    BY <1>2 DEF Rcn!Fitted
  <2> HIDE DEF work
  <2>3. /\ k \in RcnCalls /\ k.op = call.op /\ k.name = call.name /\ k.size = call.size
        /\ k.id = call.id /\ k.step = "persist" /\ k.work = work
    <3>1. "persist" \in RcnSteps
      BY DEF RcnSteps
    <3> QED
      BY <2>1, <3>1, AtIs
  <2> HIDE DEF k, r
  <2>6. NoWork(k)
    BY <2>3 DEF NoWork, work
  <2>4. Rcn!CachedBytes(list) <= FileBytes
    BY <1>2, BytesAre, StoresAssumption
  <2>5. Holds(list, k, b, c)
    BY <2>3, <2>4 DEF Holds, Small, RcnDeletes
  <2> QED
    BY <2>2, <2>3, <2>5, <2>6 DEF Right, r
<1> QED
  BY <1>1, <1>2

\* A list that is cut to its limit keeps its newest files.
LEMMA CutLeaves ==
    ASSUME NEW list \in Seq(RcnEntry), Once(list)
    PROVE  LET cut == IF Len(list) > FilesListed THEN SubSeq(list, 1, FilesListed) ELSE list IN
           Left(cut, list, {n \in 1..Len(list) : ~(n > FilesListed)}) /\ Len(cut) <= FilesListed
<1> DEFINE N == Len(list)
           P == {n \in 1..N : ~(n > FilesListed)}
           new == IF N > FilesListed THEN SubSeq(list, 1, FilesListed) ELSE list
<1>1. N \in Nat /\ FilesListed \in Nat
  BY StoresAssumption
<1>2. /\ new \in Seq(RcnEntry) /\ Len(new) \in Nat /\ Len(new) <= N /\ Len(new) <= FilesListed
      /\ (\A n \in 1..Len(new) : n \in P /\ new[n] = list[n]) /\ (\A n \in P : n \in 1..Len(new))
  <2>1. CASE N > FilesListed
    <3> DEFINE s == SubSeq(list, 1, FilesListed)
    <3>1. s \in Seq(RcnEntry) /\ Len(s) = FilesListed /\ \A n \in 1..FilesListed : s[n] = list[n]
      BY <1>1, <2>1
    <3>2. new = s
      BY <2>1
    <3> HIDE DEF s, new, N
    <3> QED
      BY <1>1, <2>1, <3>1, <3>2
  <2>2. CASE ~(N > FilesListed)
    <3>1. new = list
      BY <2>2
    <3> HIDE DEF new
    <3> QED
      BY <1>1, <2>2, <3>1
  <2> QED
    BY <2>1, <2>2
<1> HIDE DEF new, N
<1>3. Once(new)
  <2>1. \A n \in 1..Len(new) : n \in 1..Len(list)
    BY <1>2 DEF P, N
  <2> QED
    BY <1>2, <2>1 DEF Once
<1>4. Left(new, list, P)
  BY <1>2, <1>3 DEF Left, N
<1> QED
  BY <1>2, <1>4 DEF new, N

\* What is right for fewer ids in the list is right for more.
LEMMA RightMore ==
    ASSUME NEW r, NEW call, NEW ids, NEW more, NEW b, NEW c, Right(r, call, more, b, c),
           call.op = "record", r.call.step \notin {"dupes", "put"}, more \subseteq ids \cup {call.id}
    PROVE  Right(r, call, ids, b, c)
BY DEF Right

\* A file that is put on top of the others, of which none has its name.
LEMMA AddedHolds ==
    ASSUME NEW list \in Seq(RcnEntry), Once(list), NEW call \in RcnCalls, call.op = "record",
           call.name \in FileNames, call.size \in FileSizes, Unnamed(list, call.name),
           call.id \notin RcnIds(list), NEW b, NEW c, Matched(list, b, c), NEW cached \in BOOLEAN,
           NEW now, now = IF cached THEN b \cup {call.id} ELSE b
    PROVE  Right(Rcn!Added(list, call, cached), call, RcnIds(list), now, c)
<1> DEFINE e == [id |-> call.id, name |-> call.name, size |-> call.size, cached |-> cached]
           longer == <<e>> \o list
           N == Len(list)
           ids == RcnIds(list) \cup {call.id}
           r == Rcn!Added(list, call, cached)
<1>0. N \in Nat /\ FilesListed \in Nat /\ DOMAIN list = 1..N
  BY StoresAssumption
<1>1. e \in RcnEntry /\ e.id = call.id /\ e.name = call.name /\ e.cached = cached
  BY DEF RcnEntry, RcnCalls
<1>2. r = IF Len(longer) > FilesListed
          THEN [list |-> longer,
                call |-> Rcn!At(call, "trim", Rcn!IdsOf(SubSeq(longer, FilesListed + 1, Len(longer))))]
          ELSE Rcn!Trimmed(longer, call)
  BY DEF Rcn!Added
<1> HIDE DEF e
<1>3. /\ longer \in Seq(RcnEntry) /\ Len(longer) = N + 1 /\ longer[1] = e
      /\ (\A n \in 1..N : longer[n + 1] = list[n] /\ n + 1 \in 1..Len(longer))
      /\ (\A n \in 2..Len(longer) : n - 1 \in 1..N /\ longer[n] = list[n - 1])
      /\ DOMAIN longer = 1..Len(longer) /\ 1 \in 1..Len(longer)
  BY <1>0, <1>1
<1> HIDE DEF longer, r
<1>4. \A n \in 1..N : list[n].id # e.id /\ list[n].name # e.name
  BY <1>1 DEF RcnIds, Unnamed
<1>5. Once(longer)
  <2> SUFFICES ASSUME NEW m \in 1..Len(longer), NEW n \in 1..Len(longer),
                      longer[m].id = longer[n].id \/ longer[m].name = longer[n].name
               PROVE  m = n
    BY DEF Once
  <2>1. m = 1 \/ m \in 2..Len(longer)
    BY <1>0, <1>3
  <2>2. n = 1 \/ n \in 2..Len(longer)
    BY <1>0, <1>3
  <2>3. CASE m = 1 /\ n \in 2..Len(longer)
    BY <1>3, <1>4, <2>3
  <2>4. CASE n = 1 /\ m \in 2..Len(longer)
    BY <1>3, <1>4, <2>4
  <2>5. CASE m \in 2..Len(longer) /\ n \in 2..Len(longer)
    <3>1. m - 1 \in 1..N /\ n - 1 \in 1..N /\ longer[m] = list[m - 1] /\ longer[n] = list[n - 1]
      BY <1>3, <2>5
    <3>2. m - 1 = n - 1
      BY <3>1 DEF Once
    <3> QED
      BY <1>0, <1>3, <2>5, <3>2
  <2> QED
    BY <2>1, <2>2, <2>3, <2>4, <2>5
<1>6. RcnIds(longer) = ids
  <2>1. \A n \in 1..Len(longer) : longer[n].id \in ids
    <3> SUFFICES ASSUME NEW n \in 1..Len(longer) PROVE longer[n].id \in ids
      OBVIOUS
    <3>1. n = 1 \/ n \in 2..Len(longer)
      BY <1>0, <1>3
    <3> QED
      BY <1>1, <1>3, <3>1 DEF RcnIds
  <2>2. \A i \in ids : \E n \in 1..Len(longer) : longer[n].id = i
    BY <1>1, <1>3 DEF RcnIds
  <2> HIDE DEF ids
  <2> QED
    BY <2>1, <2>2 DEF RcnIds
<1>7. Rcn!CachedIds(longer) = IF cached THEN Rcn!CachedIds(list) \cup {call.id} ELSE Rcn!CachedIds(list)
  <2>1. \A i : i \in Rcn!CachedIds(longer) <=> \E n \in 1..Len(longer) : longer[n].cached /\ longer[n].id = i
    BY <1>3 DEF Rcn!CachedIds
  <2>2. \A i : i \in Rcn!CachedIds(list) <=> \E n \in 1..N : list[n].cached /\ list[n].id = i
    BY <1>0 DEF Rcn!CachedIds
  <2>3. \A n \in 1..Len(longer) : n = 1 \/ n \in 2..Len(longer)
    BY <1>0, <1>3
  <2>4. ASSUME NEW i \in Rcn!CachedIds(longer) PROVE i \in Rcn!CachedIds(list) \/ (cached /\ i = call.id)
    <3>1. PICK n \in 1..Len(longer) : longer[n].cached /\ longer[n].id = i
      BY <2>1, <2>4
    <3>2. CASE n = 1
      BY <1>1, <1>3, <3>1, <3>2
    <3>3. CASE n \in 2..Len(longer)
      BY <1>3, <2>2, <3>1, <3>3
    <3> QED
      BY <2>3, <3>2, <3>3
  <2>5. ASSUME NEW i \in Rcn!CachedIds(list) PROVE i \in Rcn!CachedIds(longer)
    <3>1. PICK n \in 1..N : list[n].cached /\ list[n].id = i
      BY <2>2, <2>5
    <3> QED
      BY <1>3, <2>1, <3>1
  <2>6. cached => call.id \in Rcn!CachedIds(longer)
    BY <1>1, <1>3, <2>1
  <2> QED
    BY <2>4, <2>5, <2>6
<1>8. Matched(longer, now, c)
  BY <1>7 DEF Matched
<1>9. CASE Len(longer) > FilesListed
  <2> DEFINE tail == SubSeq(longer, FilesListed + 1, Len(longer))
             work == Rcn!IdsOf(tail)
             k == Rcn!At(call, "trim", work)
  <2>1. /\ tail \in Seq(RcnEntry) /\ Len(tail) = N + 1 - FilesListed
        /\ \A n \in 1..(N + 1 - FilesListed) : tail[n] = longer[FilesListed + n]
    <3> HIDE DEF N
    <3>1. \A n \in (FilesListed + 1)..(N + 1) : longer[n] \in RcnEntry
      BY <1>0, <1>3
    <3>2. FilesListed + 1 \in Int /\ N + 1 \in Int /\ FilesListed + 1 <= N + 1 /\ Len(longer) = N + 1
      BY <1>0, <1>3, <1>9
    <3> DEFINE t == SubSeq(longer, FilesListed + 1, N + 1)
    <3>3. /\ t \in Seq(RcnEntry) /\ Len(t) = (N + 1) - (FilesListed + 1) + 1
          /\ \A n \in 1..(N + 1) - (FilesListed + 1) + 1 : t[n] = longer[FilesListed + 1 + n - 1]
      BY <3>1, <3>2, SubSeqProperties
    <3>4. t = tail /\ (N + 1) - (FilesListed + 1) + 1 = N + 1 - FilesListed
      BY <1>0, <3>2
    <3> HIDE DEF t, tail
    <3>5. ASSUME NEW n \in 1..(N + 1 - FilesListed) PROVE tail[n] = longer[FilesListed + n]
      <4>1. FilesListed + 1 + n - 1 = FilesListed + n
        BY <1>0
      <4> QED
        BY <3>3, <3>4, <4>1
    <3> QED
      BY <3>3, <3>4, <3>5
  <2> HIDE DEF tail
  <2>2. work \in Seq(Nat) /\ work # <<>> /\ InWork(work) = RcnIds(tail)
    <3>1. work \in Seq(Nat) /\ Len(work) = Len(tail) /\ InWork(work) = RcnIds(tail)
      BY <2>1, IdsOfIs
    <3>2. Len(work) # 0
      BY <1>0, <1>3, <1>9, <2>1, <3>1
    <3> QED
      BY <3>1, <3>2
  <2> HIDE DEF work
  <2>3. "trim" \in RcnSteps
    BY DEF RcnSteps
  <2>4. /\ k \in RcnCalls /\ k.op = call.op /\ k.name = call.name /\ k.size = call.size
        /\ k.id = call.id /\ k.step = "trim" /\ k.work = work
    BY <2>2, <2>3, AtIs
  <2>5. r.list = longer /\ r.call = k
    BY <1>2, <1>9 DEF work, tail
  <2> HIDE DEF k
  <2>6. Doomed(longer, k) \subseteq RcnIds(tail) /\ RcnIds(tail) \subseteq Doomed(longer, k)
    <3>0. RcnIds(tail) \subseteq Doomed(longer, k)
      <4> SUFFICES ASSUME NEW n \in 1..Len(tail) PROVE tail[n].id \in Doomed(longer, k)
        BY DEF RcnIds
      <4>1. FilesListed + n \in 1..Len(longer) /\ FilesListed + n > FilesListed /\ tail[n] = longer[FilesListed + n]
        BY <1>0, <1>3, <1>9, <2>1
      <4> QED
        BY <2>4, <4>1 DEF Doomed, Leaves
    <3> SUFFICES ASSUME NEW n \in 1..Len(longer), n > FilesListed PROVE longer[n].id \in RcnIds(tail)
      BY <2>4, <3>0 DEF Doomed, Leaves
    <3>1. n - FilesListed \in 1..(N + 1 - FilesListed) /\ FilesListed + (n - FilesListed) = n
      BY <1>0, <1>3
    <3>2. tail[n - FilesListed] = longer[n] /\ n - FilesListed \in 1..Len(tail)
      BY <2>1, <3>1
    <3> QED
      BY <3>2 DEF RcnIds
  <2>7. Half(longer, k, now, c)
    BY <1>8, <2>2, <2>4, <2>6 DEF Half, Matched
  <2>8. Holds(longer, k, now, c)
    BY <2>2, <2>4, <2>7 DEF Holds
  <2>9. NoWork(k)
    BY <2>4 DEF NoWork, RcnDeletes
  <2> QED
    BY <1>3, <1>5, <1>6, <2>4, <2>5, <2>8, <2>9 DEF Right, r
<1>10. CASE ~(Len(longer) > FilesListed)
  <2>1. r = Rcn!Fitted(longer, call)
    BY <1>2, <1>10 DEF Rcn!Trimmed
  <2>2. Len(longer) <= FilesListed
    BY <1>0, <1>3, <1>10
  <2>3. Right(r, call, RcnIds(longer), now, c) /\ r.call.step \notin {"dupes", "put"}
    BY <1>3, <1>5, <1>8, <2>1, <2>2, FittedHolds
  <2> QED
    BY <1>6, <2>3, RightMore DEF r
<1> QED
  BY <1>9, <1>10 DEF r

\* A name that is recorded again replaces the file that had it.
LEMMA DedupedHolds ==
    ASSUME NEW list \in Seq(RcnEntry), Once(list), NEW call \in RcnCalls, call.op = "record",
           call.name \in FileNames, call.size \in FileSizes, call.id \notin RcnIds(list), NEW b, NEW c,
           (Rcn!CachedIds(list) \ {list[n].id : n \in {k \in 1..Len(list) : list[k].name = call.name}}) \ c
              = b \ c
    PROVE  Right(Rcn!Deduped(list, call), call, RcnIds(list), b, c)
<1> DEFINE P == {n \in 1..Len(list) : list[n].name # call.name}
           G == {list[n].id : n \in {k \in 1..Len(list) : list[k].name = call.name}}
           H == {list[n].id : n \in (1..Len(list)) \ P}
           rest == Rcn!Filtered(list, P)
           r == Rcn!Deduped(list, call)
           none == <<>>
<1>1. r = IF call.size \in 1..FileBytes THEN [list |-> rest, call |-> Rcn!At(call, "put", none)]
          ELSE Rcn!Added(rest, call, FALSE)
  <2>1. DOMAIN list = 1..Len(list)
    OBVIOUS
  <2> QED
    BY <2>1 DEF Rcn!Deduped
<1>2. G = H
  OBVIOUS
<1>3. P \subseteq 1..Len(list)
  OBVIOUS
<1>4. \A n \in P : list[n].name # call.name
  OBVIOUS
<1>5. (Rcn!CachedIds(list) \ G) \ c = b \ c
  OBVIOUS
<1>6. none \in Seq(Nat)
  OBVIOUS
<1> HIDE DEF P, r, none, G
<1>7. Left(rest, list, P)
  BY <1>3, FilterLeaves
<1> HIDE DEF rest
<1>8. RcnIds(rest) \subseteq RcnIds(list) /\ Rcn!CachedIds(rest) = Rcn!CachedIds(list) \ H
  BY <1>3, <1>7, LeftMatches
<1> HIDE DEF H
<1>9. Matched(rest, b, c)
  BY <1>2, <1>5, <1>8 DEF Matched
<1>10. rest \in Seq(RcnEntry) /\ Once(rest)
  BY <1>7 DEF Left
<1>11. Unnamed(rest, call.name)
  <2> SUFFICES ASSUME NEW m \in 1..Len(rest) PROVE rest[m].name # call.name
    BY DEF Unnamed
  <2>1. PICK n \in P : rest[m] = list[n]
    BY <1>7 DEF Left
  <2> QED
    BY <1>4, <2>1
<1>12. CASE call.size \in 1..FileBytes
  <2> DEFINE k == Rcn!At(call, "put", none)
  <2>1. "put" \in RcnSteps
    BY DEF RcnSteps
  <2>2. /\ k \in RcnCalls /\ k.op = call.op /\ k.name = call.name /\ k.size = call.size
        /\ k.id = call.id /\ k.step = "put" /\ k.work = none
    BY <1>6, <2>1, AtIs
  <2>3. r.list = rest /\ r.call = k
    BY <1>1, <1>12
  <2> HIDE DEF k
  <2>4. Holds(rest, k, b, c)
    BY <1>9, <1>11, <2>2 DEF Holds, RcnDeletes
  <2>5. NoWork(k)
    BY <2>2 DEF NoWork, none
  <2> QED
    BY <1>8, <1>10, <2>2, <2>3, <2>4, <2>5 DEF Right, r
<1>13. CASE call.size \notin 1..FileBytes
  <2>1. r = Rcn!Added(rest, call, FALSE)
    BY <1>1, <1>13
  <2>2. call.id \notin RcnIds(rest)
    BY <1>8
  <2> DEFINE no == FALSE
  <2>3. no \in BOOLEAN /\ b = IF no THEN b \cup {call.id} ELSE b
    OBVIOUS
  <2>4. r = Rcn!Added(rest, call, no)
    BY <2>1
  <2> HIDE DEF no
  <2>5. Right(r, call, RcnIds(rest), b, c)
    BY <1>9, <1>10, <1>11, <2>2, <2>3, <2>4, AddedHolds
  <2> QED
    BY <1>8, <2>5 DEF Right, r
<1> QED
  BY <1>12, <1>13 DEF r


\* A list that needs no more deletions is stored.
LEMMA EmptiedHolds ==
    ASSUME NEW new \in Seq(RcnEntry), Once(new), NEW call \in RcnCalls, NEW b, NEW c,
           Matched(new, b, c), Small(new), NEW ids, RcnIds(new) \subseteq ids
    PROVE  Right(Rcn!Emptied(new, call), call, ids, b, c)
<1> DEFINE none == <<>>
           k == Rcn!At(call, "persist", none)
           r == Rcn!Emptied(new, call)
<1>1. none \in Seq(Nat)
  OBVIOUS
<1>2. r.list = new /\ r.call = k
  BY DEF Rcn!Emptied
<1> HIDE DEF none, r
<1>3. "persist" \in RcnSteps
  BY DEF RcnSteps
<1>4. /\ k \in RcnCalls /\ k.op = call.op /\ k.name = call.name /\ k.size = call.size
      /\ k.id = call.id /\ k.step = "persist" /\ k.work = none
  BY <1>1, <1>3, AtIs
<1> HIDE DEF k
<1>5. Holds(new, k, b, c)
  BY <1>4 DEF Holds, RcnDeletes
<1>6. NoWork(k)
  BY <1>4 DEF NoWork, none
<1> QED
  BY <1>2, <1>4, <1>5, <1>6 DEF Right, r

\* Content that is taken away is no longer counted.
LEMMA UncachedHolds ==
    ASSUME NEW list \in Seq(RcnEntry), Once(list), NEW x,
           NEW new, new = [n \in DOMAIN list |-> IF list[n].id = x THEN [list[n] EXCEPT !.cached = FALSE]
                                                 ELSE list[n]]
    PROVE  /\ new \in Seq(RcnEntry) /\ Once(new) /\ Len(new) = Len(list)
           /\ RcnIds(new) = RcnIds(list) /\ Rcn!CachedIds(new) = Rcn!CachedIds(list) \ {x}
<1> DEFINE N == Len(list)
           Entry(n) == IF list[n].id = x THEN [list[n] EXCEPT !.cached = FALSE] ELSE list[n]
           f == [n \in 1..N |-> Entry(n)]
<1>1. N \in Nat /\ DOMAIN list = 1..N
  OBVIOUS
<1>2. ASSUME NEW e \in RcnEntry
      PROVE  /\ [e EXCEPT !.cached = FALSE] \in RcnEntry /\ [e EXCEPT !.cached = FALSE].id = e.id
             /\ [e EXCEPT !.cached = FALSE].name = e.name /\ ~[e EXCEPT !.cached = FALSE].cached
  BY DEF RcnEntry
<1>3. \A n \in 1..N : /\ Entry(n) \in RcnEntry /\ Entry(n).id = list[n].id /\ Entry(n).name = list[n].name
                      /\ Entry(n).cached <=> (list[n].id # x /\ list[n].cached)
  <2> SUFFICES ASSUME NEW n \in 1..N
               PROVE  /\ Entry(n) \in RcnEntry /\ Entry(n).id = list[n].id /\ Entry(n).name = list[n].name
                      /\ Entry(n).cached <=> (list[n].id # x /\ list[n].cached)
    OBVIOUS
  <2>1. list[n] \in RcnEntry
    OBVIOUS
  <2>2. CASE list[n].id = x
    <3>1. Entry(n) = [list[n] EXCEPT !.cached = FALSE]
      BY <2>2
    <3> HIDE DEF Entry
    <3>2. /\ Entry(n) \in RcnEntry /\ Entry(n).id = list[n].id /\ Entry(n).name = list[n].name
          /\ ~Entry(n).cached
      BY <1>2, <2>1, <3>1
    <3> QED
      BY <2>2, <3>2
  <2>3. CASE list[n].id # x
    <3>1. Entry(n) = list[n]
      BY <2>3
    <3> HIDE DEF Entry
    <3> QED
      BY <2>1, <2>3, <3>1
  <2> QED
    BY <2>2, <2>3
<1>4. new = f
  BY <1>1
<1> HIDE DEF Entry, N
<1>5. new \in Seq(RcnEntry) /\ Len(new) = N /\ \A n \in 1..N : new[n] = Entry(n)
  <2>1. f \in [1..N -> RcnEntry] /\ \A n \in 1..N : f[n] = Entry(n)
    BY <1>3
  <2> HIDE DEF f
  <2>2. f \in Seq(RcnEntry) /\ Len(f) = N
    BY <1>1, <2>1
  <2> QED
    BY <1>4, <2>1, <2>2
<1> HIDE DEF f
<1>6. DOMAIN new = 1..N
  BY <1>5
<1>7. Once(new)
  BY <1>3, <1>5 DEF Once, N
<1>8. RcnIds(new) = RcnIds(list)
  <2>1. \A n \in 1..N : new[n].id = list[n].id
    BY <1>3, <1>5
  <2>2. \A i : i \in RcnIds(new) <=> \E n \in 1..N : new[n].id = i
    BY <1>5 DEF RcnIds
  <2>3. \A i : i \in RcnIds(list) <=> \E n \in 1..N : list[n].id = i
    BY DEF RcnIds, N
  <2>4. \A i : i \in RcnIds(new) <=> i \in RcnIds(list)
    BY <2>1, <2>2, <2>3
  <2> QED
    BY <2>4
<1>9. \A i : i \in Rcn!CachedIds(new) <=> \E n \in 1..N : new[n].cached /\ new[n].id = i
  BY <1>6 DEF Rcn!CachedIds
<1>10. \A i : i \in Rcn!CachedIds(list) <=> \E n \in 1..N : list[n].cached /\ list[n].id = i
  BY <1>1 DEF Rcn!CachedIds
<1>11. ASSUME NEW i PROVE i \in Rcn!CachedIds(new) <=> i \in Rcn!CachedIds(list) \ {x}
  <2>1. ASSUME i \in Rcn!CachedIds(new) PROVE i \in Rcn!CachedIds(list) \ {x}
    <3>1. PICK n \in 1..N : new[n].cached /\ new[n].id = i
      BY <1>9, <2>1
    <3>2. list[n].id = i /\ i # x /\ list[n].cached
      BY <1>3, <1>5, <3>1
    <3> QED
      BY <1>10, <3>2
  <2>2. ASSUME i \in Rcn!CachedIds(list) \ {x} PROVE i \in Rcn!CachedIds(new)
    <3>1. PICK n \in 1..N : list[n].cached /\ list[n].id = i
      BY <1>10, <2>2
    <3>2. new[n].id = i /\ new[n].cached
      BY <1>3, <1>5, <2>2, <3>1
    <3> QED
      BY <1>9, <3>2
  <2> QED
    BY <2>1, <2>2
<1> QED
  BY <1>5, <1>7, <1>8, <1>11 DEF N

\* A call goes on when the last of its deletions is answered.
LEMMA ResumedHolds ==
    ASSUME NEW list \in Seq(RcnEntry), Once(list), NEW call \in RcnCalls, call.step \in RcnDeletes,
           NEW b, NEW c, (Rcn!CachedIds(list) \ Doomed(list, call)) \ c = b \ c,
           call.step \in {"dupes", "trim", "uncache"} => call.op = "record",
           call.step = "uncache" => Len(list) <= FilesListed /\ Len(call.work) = 1,
           call.step = "remove" => Small(list),
           call.op = "record" => call.name \in FileNames /\ call.size \in FileSizes,
           call.step = "dupes" => call.id \notin RcnIds(list)
    PROVE  Right(Rcn!Resumed(list, call), call, RcnIds(list), b, c)
<1> DEFINE r == Rcn!Resumed(list, call)
           N == Len(list)
<1>0. N \in Nat /\ DOMAIN list = 1..N /\ FilesListed \in Nat
  BY StoresAssumption
<1>1. CASE call.step = "dupes"
  <2>1. r = Rcn!Deduped(list, call)
    BY <1>1 DEF Rcn!Resumed
  <2>2. Doomed(list, call) = {list[n].id : n \in {k \in 1..Len(list) : list[k].name = call.name}}
    BY <1>1 DEF Doomed, Leaves
  <2> HIDE DEF r
  <2>3. Right(r, call, RcnIds(list), b, c)
    BY <1>1, <2>1, <2>2, DedupedHolds
  <2> QED
    BY <2>3 DEF r
<1>2. CASE call.step = "trim"
  <2> DEFINE new == IF Len(list) > FilesListed THEN SubSeq(list, 1, FilesListed) ELSE list
             P == {n \in 1..Len(list) : ~(n > FilesListed)}
  <2>1. r = Rcn!Fitted(new, call)
    BY <1>2 DEF Rcn!Resumed, Rcn!Trimmed
  <2>2. Doomed(list, call) = {list[n].id : n \in (1..Len(list)) \ P}
    BY <1>2 DEF Doomed, Leaves
  <2>3. Left(new, list, P) /\ Len(new) <= FilesListed
    BY CutLeaves
  <2>4. P \subseteq 1..Len(list)
    OBVIOUS
  <2> HIDE DEF r, new, P
  <2>5. RcnIds(new) \subseteq RcnIds(list) /\ Rcn!CachedIds(new) = Rcn!CachedIds(list) \ Doomed(list, call)
    BY <2>2, <2>3, <2>4, LeftMatches
  <2>6. Matched(new, b, c)
    BY <2>5 DEF Matched
  <2>7. new \in Seq(RcnEntry) /\ Once(new)
    BY <2>3 DEF Left
  <2>8. Right(r, call, RcnIds(new), b, c)
    BY <1>2, <2>1, <2>3, <2>6, <2>7, FittedHolds
  <2>9. Right(r, call, RcnIds(list), b, c)
    BY <2>5, <2>8 DEF Right
  <2> QED
    BY <2>9 DEF r
<1>3. CASE call.step = "uncache"
  <2> DEFINE x == Head(call.work)
             new == [n \in DOMAIN list |-> IF list[n].id = x THEN [list[n] EXCEPT !.cached = FALSE]
                                           ELSE list[n]]
  <2>1. r = Rcn!Fitted(new, call)
    BY <1>3 DEF Rcn!Resumed
  <2>2. x = call.work[1]
    <3>1. call.work \in Seq(Nat)
      BY DEF RcnCalls
    <3> QED
      BY <1>3, <3>1
  <2> HIDE DEF r, x
  <2>3. /\ new \in Seq(RcnEntry) /\ Once(new) /\ Len(new) = Len(list)
        /\ RcnIds(new) = RcnIds(list) /\ Rcn!CachedIds(new) = Rcn!CachedIds(list) \ {x}
    BY UncachedHolds
  <2> HIDE DEF new
  <2>4. Rcn!CachedIds(list) \ {x} = Rcn!CachedIds(list) \ Doomed(list, call)
    <3>1. Doomed(list, call) = {list[n].id : n \in {k \in 1..N : list[k].id = x}}
      BY <1>3, <2>2 DEF Doomed, Leaves
    <3>2. \A i \in Rcn!CachedIds(list) : \E n \in 1..N : list[n].id = i
      BY <1>0 DEF Rcn!CachedIds
    <3> QED
      BY <3>1, <3>2
  <2>5. Matched(new, b, c)
    BY <2>3, <2>4 DEF Matched
  <2>6. Right(r, call, RcnIds(list), b, c)
    BY <1>3, <2>1, <2>3, <2>5, FittedHolds
  <2> QED
    BY <2>6 DEF r
<1>4. CASE call.step = "remove"
  <2> DEFINE P == {n \in 1..Len(list) : list[n].id # call.id}
             new == Rcn!Filtered(list, P)
  <2>1. r = Rcn!Emptied(new, call)
    BY <1>0, <1>4 DEF Rcn!Resumed
  <2>2. Doomed(list, call) = {list[n].id : n \in (1..Len(list)) \ P}
    BY <1>4 DEF Doomed, Leaves
  <2>3. P \subseteq 1..Len(list)
    OBVIOUS
  <2> HIDE DEF r, P
  <2>4. Left(new, list, P) /\ Rcn!CachedBytes(new) <= Rcn!CachedBytes(list)
    BY <2>3, FilterLeaves
  <2> HIDE DEF new
  <2>5. RcnIds(new) \subseteq RcnIds(list) /\ Rcn!CachedIds(new) = Rcn!CachedIds(list) \ Doomed(list, call)
    BY <2>2, <2>3, <2>4, LeftMatches
  <2>6. Matched(new, b, c)
    BY <2>5 DEF Matched
  <2>7. new \in Seq(RcnEntry) /\ Once(new) /\ Len(new) <= Len(list)
    BY <2>4 DEF Left
  <2>8. Small(new)
    <3>1. /\ Rcn!CachedBytes(new) \in Nat /\ Rcn!CachedBytes(list) \in Nat /\ FileBytes \in Nat
          /\ Len(new) \in Nat
      BY <2>7, BytesAre, StoresAssumption
    <3>2. Len(list) <= FilesListed /\ Rcn!CachedBytes(list) <= FileBytes
      BY <1>4 DEF Small
    <3> HIDE DEF N
    <3> QED
      BY <1>0, <2>4, <2>7, <3>1, <3>2 DEF Small, N
  <2>9. Right(r, call, RcnIds(list), b, c)
    BY <2>1, <2>5, <2>6, <2>7, <2>8, EmptiedHolds
  <2> QED
    BY <2>9 DEF r
<1>5. CASE call.step = "clear"
  <2> DEFINE none == <<>>
  <2>1. r = Rcn!Emptied(none, call)
    BY <1>5 DEF Rcn!Resumed
  <2>2. none \in Seq(RcnEntry) /\ Once(none) /\ Len(none) = 0
    BY DEF Once
  <2>3. RcnIds(none) = {} /\ Rcn!CachedIds(none) = {}
    BY DEF RcnIds, Rcn!CachedIds
  <2>4. Rcn!CachedBytes(none) = 0
    BY BytesOfNone
  <2> HIDE DEF none, r
  <2>5. Rcn!CachedIds(list) \subseteq Doomed(list, call)
    BY <1>0, <1>5 DEF Rcn!CachedIds, Doomed, Leaves
  <2>6. Matched(none, b, c)
    BY <2>3, <2>5 DEF Matched
  <2>7. Small(none)
    BY <2>2, <2>4, StoresAssumption DEF Small
  <2>8. Right(r, call, RcnIds(list), b, c)
    BY <2>1, <2>2, <2>3, <2>6, <2>7, EmptiedHolds
  <2> QED
    BY <2>8 DEF r
<1> QED
  BY <1>1, <1>2, <1>3, <1>4, <1>5 DEF RcnDeletes


\* What a call does before its first await: from a list at rest.
LEMMA FirstHolds ==
    ASSUME NEW list \in Seq(RcnEntry), Once(list), NEW call \in RcnCalls, call.op # "none",
           NEW b, NEW c, Matched(list, b, c), Small(list),
           call.op = "record" => /\ call.name \in FileNames /\ call.size \in FileSizes
                                 /\ call.id \notin RcnIds(list)
    PROVE  \/ Rcn!First(list, call).list = list /\ Rcn!First(list, call).call = Rcn!Done
           \/ Right(Rcn!First(list, call), call, RcnIds(list), b, c)
<1> DEFINE r == Rcn!First(list, call)
           N == Len(list)
<1>0. N \in Nat /\ DOMAIN list = 1..N
  OBVIOUS
\* A call that has something to delete first.
<1>1. ASSUME NEW step \in {"dupes", "remove", "clear"}, NEW work \in Seq(Nat), work # <<>>,
             NEW k, k = Rcn!At(call, step, work), r.list = list, r.call = k,
             Doomed(list, k) = InWork(work), step = "dupes" => call.op = "record"
      PROVE  Right(r, call, RcnIds(list), b, c)
  <2>1. step \in RcnSteps
    BY DEF RcnSteps
  <2>2. /\ k \in RcnCalls /\ k.op = call.op /\ k.name = call.name /\ k.size = call.size
        /\ k.id = call.id /\ k.step = step /\ k.work = work
    BY <1>1, <2>1, AtIs
  <2> HIDE DEF r
  <2>3. Half(list, k, b, c)
    BY <1>1, <2>2 DEF Half, Matched
  <2>4. Holds(list, k, b, c)
    BY <1>1, <2>2, <2>3 DEF Holds
  <2>5. NoWork(k)
    BY <1>1, <2>2 DEF NoWork, RcnDeletes
  <2> QED
    BY <1>1, <2>2, <2>4, <2>5 DEF Right
<1>2. CASE call.op = "record"
  <2> DEFINE P == {n \in DOMAIN list : list[n].name = call.name}
             Q == {n \in 1..N : list[n].name = call.name}
             dupes == Rcn!Filtered(list, P)
             work == Rcn!IdsOf(dupes)
             k == Rcn!At(call, "dupes", work)
  <2>1. P = Q /\ Q \subseteq 1..N
    BY <1>0
  <2>2. r = IF dupes = <<>> THEN Rcn!Deduped(list, call) ELSE [list |-> list, call |-> k]
    BY <1>2 DEF Rcn!First
  <2>3. Doomed(list, k) = {list[n].id : n \in Q}
    <3>2. k.step = "dupes" /\ k.name = call.name
      <4>1. DOMAIN call = {"op", "name", "size", "id", "step", "work"}
        BY DEF RcnCalls
      <4> HIDE DEF work
      <4> QED
        BY <4>1 DEF Rcn!At
    <3> HIDE DEF k, P
    <3> QED
      BY <3>2 DEF Doomed, Leaves
  <2> HIDE DEF r, P
  <2>4. Left(dupes, list, Q)
    BY <2>1, FilterLeaves
  <2> HIDE DEF dupes
  <2>5. CASE dupes = <<>>
    <3>1. Len(dupes) = 0
      BY <2>5
    <3>2. \A n \in 1..N : list[n].name # call.name
      BY <2>4, <3>1 DEF Left
    <3>3. {list[n].id : n \in {j \in 1..Len(list) : list[j].name = call.name}} = {}
      BY <3>2
    <3>4. (Rcn!CachedIds(list) \ {list[n].id : n \in {j \in 1..Len(list) : list[j].name = call.name}}) \ c
            = b \ c
      BY <3>3 DEF Matched
    <3>5. r = Rcn!Deduped(list, call)
      BY <2>2, <2>5
    <3>6. Right(r, call, RcnIds(list), b, c)
      BY <1>2, <3>4, <3>5, DedupedHolds
    <3> QED
      BY <3>6 DEF r
  <2>6. CASE dupes # <<>>
    <3>1. r.list = list /\ r.call = k
      BY <2>2, <2>6
    <3>2. dupes \in Seq(RcnEntry)
      BY <2>4 DEF Left
    <3>3. work \in Seq(Nat) /\ Len(work) = Len(dupes) /\ InWork(work) = RcnIds(dupes)
      BY <3>2, IdsOfIs
    <3>4. work # <<>>
      BY <2>6, <3>2, <3>3
    <3>5. {list[n].id : n \in Q} = RcnIds(dupes)
      <4>1. {list[n].id : n \in Q} \subseteq RcnIds(dupes)
        BY <2>4 DEF Left, RcnIds
      <4> SUFFICES ASSUME NEW m \in 1..Len(dupes) PROVE dupes[m].id \in {list[n].id : n \in Q}
        BY <4>1 DEF RcnIds
      <4>2. PICK n \in Q : dupes[m] = list[n]
        BY <2>4 DEF Left
      <4> QED
        BY <4>2
    <3> HIDE DEF work, Q
    <3>6. Right(r, call, RcnIds(list), b, c)
      BY <1>1, <1>2, <2>3, <3>1, <3>3, <3>4, <3>5
    <3> QED
      BY <3>6 DEF r
  <2> QED
    BY <2>5, <2>6
<1>3. CASE call.op = "remove"
  <2>1. CASE \E n \in DOMAIN list : list[n].id = call.id
    <3> DEFINE work == <<call.id>>
               k == Rcn!At(call, "remove", work)
    <3>1. call.id \in Nat
      BY DEF RcnCalls
    <3>2. work \in Seq(Nat) /\ work # <<>> /\ InWork(work) = {call.id}
      BY <3>1 DEF InWork
    <3>3. r.list = list /\ r.call = k
      BY <1>3, <2>1 DEF Rcn!First
    <3> HIDE DEF work
    <3>4. "remove" \in RcnSteps
      BY DEF RcnSteps
    <3>5. k.step = "remove" /\ k.id = call.id
      BY <3>2, <3>4, AtIs
    <3> HIDE DEF k
    <3>6. Doomed(list, k) = {call.id}
      BY <1>0, <2>1, <3>5 DEF Doomed, Leaves
    <3> HIDE DEF r
    <3>7. Right(r, call, RcnIds(list), b, c)
      BY <1>1, <3>2, <3>3, <3>6 DEF k
    <3> QED
      BY <3>7 DEF r
  <2>2. CASE ~\E n \in DOMAIN list : list[n].id = call.id
    BY <1>3, <2>2 DEF Rcn!First
  <2> QED
    BY <2>1, <2>2
<1>4. CASE call.op = "clear"
  <2>1. CASE list = <<>>
    <3>1. r = Rcn!Emptied(list, call)
      BY <1>4, <2>1 DEF Rcn!First
    <3> HIDE DEF r
    <3>2. Right(r, call, RcnIds(list), b, c)
      BY <3>1, EmptiedHolds
    <3> QED
      BY <3>2 DEF r
  <2>2. CASE list # <<>>
    <3> DEFINE work == Rcn!IdsOf(list)
               k == Rcn!At(call, "clear", work)
    <3>1. r.list = list /\ r.call = k
      BY <1>4, <2>2 DEF Rcn!First
    <3>2. work \in Seq(Nat) /\ Len(work) = N /\ InWork(work) = RcnIds(list)
      BY IdsOfIs
    <3>3. work # <<>>
      BY <2>2, <3>2
    <3> HIDE DEF work, r
    <3>6. "clear" \in RcnSteps
      BY DEF RcnSteps
    <3>7. k.step = "clear"
      BY <3>2, <3>6, AtIs
    <3> HIDE DEF k
    <3>4. Doomed(list, k) = RcnIds(list)
      BY <3>7 DEF Doomed, Leaves, RcnIds
    <3>5. Right(r, call, RcnIds(list), b, c)
      BY <1>1, <3>1, <3>2, <3>3, <3>4 DEF k
    <3> QED
      BY <3>5 DEF r
  <2> QED
    BY <2>1, <2>2
<1> QED
  BY <1>2, <1>3, <1>4 DEF RcnCalls

\* What one deletion leaves: the others of the call, or a list to be changed.
Fewer(list, call, b, c) ==
    /\ Len(call.work) > 1 =>
          /\ Tail(call.work) \in Seq(Nat) /\ Tail(call.work) # <<>>
          /\ InWork(Tail(call.work)) \subseteq Doomed(list, call)
          /\ (Rcn!CachedIds(list) \ c) \ Doomed(list, call) = (b \ c) \ Doomed(list, call)
          /\ (b \ c) \cap Doomed(list, call) \subseteq InWork(Tail(call.work))
    /\ ~(Len(call.work) > 1) => (Rcn!CachedIds(list) \ Doomed(list, call)) \ c = b \ c

\* A deletion that is answered, or refused, leaves the other contents as they were.
LEMMA DropsOne ==
    ASSUME NEW list, NEW call \in RcnCalls, NEW b, NEW c, call.work # <<>>, Half(list, call, b, c),
           NEW nb, NEW nc,
           \/ nb = b \ {Head(call.work)} /\ nc = c
           \/ nb = b /\ nc = c \cup {Head(call.work)}
    PROVE  Fewer(list, call, nb, nc)
<1> DEFINE w == call.work
           h == Head(w)
           D == Doomed(list, call)
           C == Rcn!CachedIds(list)
<1>1. w \in Seq(Nat) /\ w # <<>>
  BY DEF RcnCalls
<1>2. /\ InWork(w) \subseteq D /\ (C \ c) \ D = (b \ c) \ D
      /\ (b \ c) \cap D \subseteq InWork(w)
  BY DEF Half
<1>3. /\ h \in InWork(w) /\ Len(w) \in Nat
      /\ Len(w) > 1 => /\ Tail(w) \in Seq(Nat) /\ Tail(w) # <<>> /\ InWork(Tail(w)) \subseteq InWork(w)
                       /\ InWork(w) \subseteq InWork(Tail(w)) \cup {h}
      /\ ~(Len(w) > 1) => InWork(w) = {h}
  <2> HIDE DEF w
  <2> DEFINE t == Tail(w)
             m == Len(w)
  <2>1. /\ t \in Seq(Nat) /\ m \in Nat \ {0} /\ Len(t) = m - 1 /\ h = w[1]
        /\ \A i \in 1..Len(t) : t[i] = w[i + 1]
    BY <1>1
  <2>2. h \in InWork(w) /\ (~(m > 1) => InWork(w) = {h})
    BY <2>1 DEF InWork
  <2> HIDE DEF t, m, h
  <2>3. ASSUME m > 1 PROVE t # <<>> /\ InWork(t) \subseteq InWork(w) /\ InWork(w) \subseteq InWork(t) \cup {h}
    <3>1. Len(t) # 0
      BY <2>1, <2>3
    <3>2. t # <<>>
      BY <3>1
    <3>3. \A i \in 1..Len(t) : i + 1 \in 1..Len(w) /\ t[i] = w[i + 1]
      BY <2>1 DEF m
    <3>4. \A i \in 1..Len(w) : i = 1 \/ (i - 1 \in 1..Len(t) /\ t[i - 1] = w[i])
      BY <2>1 DEF m
    <3>5. InWork(t) \subseteq InWork(w)
      BY <3>3 DEF InWork
    <3>6. InWork(w) \subseteq InWork(t) \cup {h}
      <4> SUFFICES ASSUME NEW i \in 1..Len(w), w[i] # h PROVE \E j \in 1..Len(t) : t[j] = w[i]
        BY DEF InWork
      <4> QED
        BY <2>1, <3>4
    <3> QED
      BY <3>2, <3>5, <3>6
  <2> QED
    BY <2>1, <2>2, <2>3 DEF t, m
<1>4. (nb = b \ {h} /\ nc = c) \/ (nb = b /\ nc = c \cup {h})
  OBVIOUS
<1> HIDE DEF h, D, C, w
<1>5. h \in D /\ nb \ nc = (b \ c) \ {h} /\ (C \ nc) \ D = (C \ c) \ D
  BY <1>2, <1>3, <1>4
<1>6. Len(w) > 1 => /\ Tail(w) \in Seq(Nat) /\ Tail(w) # <<>> /\ InWork(Tail(w)) \subseteq D
                    /\ (C \ nc) \ D = (nb \ nc) \ D /\ (nb \ nc) \cap D \subseteq InWork(Tail(w))
  BY <1>2, <1>3, <1>5
<1>7. ~(Len(w) > 1) => (C \ D) \ nc = nb \ nc
  BY <1>2, <1>3, <1>5
<1> QED
  BY <1>6, <1>7 DEF w, D, C, Fewer


\* The list of recent files. A call that is under way stands as its step says, the calls
\* before it are done and those after it wait; an id is in a list only when its call has
\* put it there, and the list that is stored may be read at any time. All this until a
\* call begins before the list was read.
RcnTyped ==
    /\ rcnEntries \in Seq(RcnEntry) /\ Once(rcnEntries) /\ rcnCalls \in Seq(RcnCalls)
    /\ rcnStored \in Seq(RcnEntry) /\ Once(rcnStored) /\ Small(rcnStored)
    /\ \A n \in 1..Len(rcnCalls) : CallTrue(rcnCalls[n], n)
    /\ \A n \in 1..Len(rcnCalls) :
          NoWork(rcnCalls[n]) /\ (rcnCalls[n].step = "done" \/ rcnCalls[n].op # "none")
Going(n) == rcnCalls[n].step \notin {"queued", "done"}
InTurn ==
    \A k, n \in 1..Len(rcnCalls) : k < n /\ rcnCalls[n].step # "queued" => rcnCalls[k].step = "done"
Given(i) == i \in 1..Len(rcnCalls) /\ rcnCalls[i].step \notin {"queued", "dupes", "put"}
IdsAreGiven == \A i \in RcnIds(rcnEntries) \cup RcnIds(rcnStored) : Given(i)
Reading == Rcn!Settled /\ rcnLoading.list = rcnStored /\ Matched(rcnStored, rcnBlobs, rcnCut)
AtRest ==
    /\ Small(rcnEntries) /\ Matched(rcnEntries, rcnBlobs, rcnCut)
    /\ rcnRefused \/ rcnStored = rcnEntries
RcnTrue ==
    /\ RcnTyped /\ InTurn /\ IdsAreGiven
    /\ rcnLoading.pending => Reading
    /\ ~rcnLoading.pending /\ Rcn!Settled => AtRest
    /\ \A n \in 1..Len(rcnCalls) : Going(n) => Holds(rcnEntries, rcnCalls[n], rcnBlobs, rcnCut)
RcnInv == rcnCrossed \/ RcnTrue

\* Nothing is under way.
LEMMA SettledIs ==
    ASSUME RcnTyped
    PROVE  Rcn!Settled <=> \A n \in 1..Len(rcnCalls) : ~Going(n)
<1>1. DOMAIN rcnCalls = 1..Len(rcnCalls)
  BY DEF RcnTyped
<1> QED
  BY <1>1 DEF Rcn!Settled, Going

\* A call that is over has nothing left to do;
LEMMA DoneIs ==
    Rcn!Done \in RcnCalls /\ Rcn!Done.step = "done" /\ Rcn!Done.op = "none" /\ NoWork(Rcn!Done)
<1> DEFINE work == <<>>
           name == Rcn!NoName
           k == [op |-> "none", name |-> name, size |-> 0, id |-> 0, step |-> "queued", work |-> work]
           d == [op |-> "none", name |-> name, size |-> 0, id |-> 0, step |-> "done", work |-> work]
<1>1. work \in Seq(Nat) /\ "done" \in RcnSteps
  BY DEF RcnSteps
<1>2. Rcn!Done = [k EXCEPT !.step = "done"]
  BY DEF Rcn!Done, Rcn!Call
<1> HIDE DEF work, name
<1>3. Rcn!Done = d
  BY <1>2
<1>4. d \in RcnCalls
  BY <1>1 DEF RcnCalls, name
<1>5. NoWork(d)
  BY DEF NoWork, work
<1> QED
  BY <1>3, <1>4, <1>5

\* one that was made has all of it to do.
LEMMA CallIs ==
    ASSUME NEW op \in {"record", "remove", "clear"}, NEW name \in FileNames \cup {Rcn!NoName},
           NEW size \in Nat, NEW id \in Nat
    PROVE  /\ Rcn!Call(op, name, size, id) \in RcnCalls /\ Rcn!Call(op, name, size, id).step = "queued"
           /\ Rcn!Call(op, name, size, id).op = op /\ Rcn!Call(op, name, size, id).name = name
           /\ Rcn!Call(op, name, size, id).size = size /\ Rcn!Call(op, name, size, id).id = id
           /\ NoWork(Rcn!Call(op, name, size, id))
<1> DEFINE work == <<>>
           k == [op |-> op, name |-> name, size |-> size, id |-> id, step |-> "queued", work |-> work]
<1>1. work \in Seq(Nat) /\ "queued" \in RcnSteps
  BY DEF RcnSteps
<1>2. Rcn!Call(op, name, size, id) = k
  BY DEF Rcn!Call
<1> HIDE DEF work
<1>3. k \in RcnCalls
  BY <1>1 DEF RcnCalls
<1>4. NoWork(k)
  BY DEF NoWork, work
<1> QED
  BY <1>2, <1>3, <1>4

\* A call that is asked for waits.
LEMMA AsksTrue ==
    ASSUME RcnTrue, NEW call \in RcnCalls, call.step = "queued", call.op # "none", NoWork(call),
           CallTrue(call, Len(rcnCalls) + 1), rcnCalls' = Append(rcnCalls, call),
           UNCHANGED <<rcnEntries, rcnStored, rcnBlobs, rcnLoading, rcnRefused, rcnCut>>
    PROVE  RcnTrue'
<1> DEFINE N == Len(rcnCalls)
<1>1. /\ N \in Nat /\ rcnCalls' \in Seq(RcnCalls) /\ Len(rcnCalls') = N + 1 /\ rcnCalls'[N + 1] = call
      /\ \A n \in 1..N : rcnCalls'[n] = rcnCalls[n]
  BY AppendIs DEF RcnTrue, RcnTyped
<1>2. \A n \in 1..Len(rcnCalls') : n \in 1..N \/ n = N + 1
  BY <1>1
<1>3. \A n \in 1..N : n \in 1..Len(rcnCalls')
  BY <1>1
<1> HIDE DEF N
<1>4. RcnTyped'
  BY <1>1, <1>2 DEF RcnTrue, RcnTyped, N
<1>5. \A n \in 1..Len(rcnCalls') : Going(n)' => n \in 1..N /\ Going(n) /\ rcnCalls'[n] = rcnCalls[n]
  BY <1>1, <1>2 DEF Going
<1>6. \A n \in 1..N : Going(n) => Going(n)'
  BY <1>1 DEF Going
<1>7. Rcn!Settled' <=> Rcn!Settled
  <2>1. RcnTyped
    BY DEF RcnTrue
  <2>2. Rcn!Settled <=> \A n \in 1..N : ~Going(n)
    BY <2>1, SettledIs DEF N
  <2>3. Rcn!Settled' <=> \A n \in 1..Len(rcnCalls') : ~Going(n)'
    <3>1. DOMAIN rcnCalls' = 1..Len(rcnCalls')
      BY <1>1
    <3> QED
      BY <3>1 DEF Rcn!Settled, Going
  <2> QED
    BY <1>3, <1>5, <1>6, <2>2, <2>3
<1>8. InTurn'
  <2> SUFFICES ASSUME NEW k \in 1..Len(rcnCalls'), NEW n \in 1..Len(rcnCalls'), k < n,
                      rcnCalls'[n].step # "queued"
               PROVE  rcnCalls'[k].step = "done"
    BY DEF InTurn
  <2>1. n \in 1..N
    BY <1>1, <1>2
  <2>2. k \in 1..N
    BY <1>1, <1>2, <2>1
  <2> QED
    BY <1>1, <2>1, <2>2 DEF RcnTrue, InTurn, N
<1>9. IdsAreGiven'
  BY <1>1, <1>3 DEF RcnTrue, IdsAreGiven, Given, N, RcnIds
<1>10. (rcnLoading.pending => Reading)' /\ (~rcnLoading.pending /\ Rcn!Settled => AtRest)'
  BY <1>7 DEF RcnTrue, Reading, AtRest, Small, Matched
<1>11. (\A n \in 1..Len(rcnCalls) : Going(n) => Holds(rcnEntries, rcnCalls[n], rcnBlobs, rcnCut))'
  BY <1>5 DEF RcnTrue, N
<1> QED
  BY <1>4, <1>8, <1>9, <1>10, <1>11 DEF RcnTrue

\* The call whose turn it is goes on; when it has ended the list is at rest.
LEMMA CallGoes ==
    ASSUME RcnTrue, ~rcnLoading.pending, NEW n \in 1..Len(rcnCalls), rcnCalls[n].step # "done",
           \A k \in 1..Len(rcnCalls) : k < n => rcnCalls[k].step = "done",
           NEW call \in RcnCalls, call.step # "queued", CallTrue(call, n), NoWork(call),
           call.step = "done" \/ call.op # "none",
           rcnCalls' = [rcnCalls EXCEPT ![n] = call], UNCHANGED rcnLoading,
           rcnEntries' \in Seq(RcnEntry), Once(rcnEntries)',
           rcnStored' \in Seq(RcnEntry), Once(rcnStored)', Small(rcnStored)',
           RcnIds(rcnEntries') \cup RcnIds(rcnStored') \subseteq
             RcnIds(rcnEntries) \cup RcnIds(rcnStored)
               \cup (IF call.step \in {"dupes", "put"} THEN {} ELSE {n}),
           call.step \in {"dupes", "put"} => rcnCalls[n].step \in {"queued", "dupes", "put"},
           call.step # "done" => Holds(rcnEntries', call, rcnBlobs', rcnCut'),
           call.step = "done" => AtRest'
    PROVE  RcnTrue'
<1> DEFINE N == Len(rcnCalls)
<1>1. /\ N \in Nat /\ rcnCalls' \in Seq(RcnCalls) /\ Len(rcnCalls') = N /\ rcnCalls'[n] = call
      /\ \A k \in 1..N : k # n => rcnCalls'[k] = rcnCalls[k]
  BY DEF RcnTrue, RcnTyped
<1>2. \A k \in 1..N : k > n => rcnCalls[k].step = "queued"
  BY DEF RcnTrue, InTurn
<1>3. \A k \in 1..N : k # n => ~Going(k)' /\ ~Going(k)
  <2>1. \A k \in 1..N : k # n => k < n \/ k > n
    BY <1>1
  <2> QED
    BY <1>1, <1>2, <2>1 DEF Going
<1>4. Going(n)' <=> call.step # "done"
  BY <1>1 DEF Going
<1>5. Rcn!Settled' <=> call.step = "done"
  <2>1. DOMAIN rcnCalls' = 1..N
    BY <1>1
  <2> HIDE DEF N
  <2>2. Rcn!Settled' <=> \A k \in 1..N : ~Going(k)'
    BY <2>1 DEF Rcn!Settled, Going
  <2>3. n \in 1..N
    BY DEF N
  <2> QED
    BY <1>3, <1>4, <2>2, <2>3
<1>6. RcnTyped'
  BY <1>1 DEF RcnTrue, RcnTyped
<1>7. InTurn'
  <2> SUFFICES ASSUME NEW k \in 1..N, NEW m \in 1..N, k < m, rcnCalls'[m].step # "queued"
               PROVE  rcnCalls'[k].step = "done"
    BY <1>1 DEF InTurn
  <2>1. m <= n
    BY <1>1, <1>2
  <2>2. k < n /\ k # n
    BY <1>1, <2>1
  <2> QED
    BY <1>1, <2>2
<1>8. IdsAreGiven'
  <2> SUFFICES ASSUME NEW i \in RcnIds(rcnEntries') \cup RcnIds(rcnStored') PROVE Given(i)'
    BY DEF IdsAreGiven, RcnIds
  <2>1. CASE i = n
    <3>1. CASE call.step \in {"dupes", "put"}
      <4>1. i \in RcnIds(rcnEntries) \cup RcnIds(rcnStored)
        BY <3>1
      <4>2. Given(i)
        BY <4>1 DEF RcnTrue, IdsAreGiven
      <4> QED
        BY <2>1, <3>1, <4>2 DEF Given
    <3>2. CASE call.step \notin {"dupes", "put"}
      BY <1>1, <2>1, <3>2 DEF Given
    <3> QED
      BY <3>1, <3>2
  <2>2. CASE i # n
    <3>1. i \in RcnIds(rcnEntries) \cup RcnIds(rcnStored)
      BY <2>2
    <3>2. Given(i)
      BY <3>1 DEF RcnTrue, IdsAreGiven
    <3> QED
      BY <1>1, <2>2, <3>2 DEF Given
  <2> QED
    BY <2>1, <2>2
<1>9. (~rcnLoading.pending /\ Rcn!Settled => AtRest)' /\ (rcnLoading.pending => Reading)'
  BY <1>5
<1>10. (\A k \in 1..Len(rcnCalls) : Going(k) => Holds(rcnEntries, rcnCalls[k], rcnBlobs, rcnCut))'
  BY <1>1, <1>3, <1>4
<1> QED
  BY <1>6, <1>7, <1>8, <1>9, <1>10 DEF RcnTrue

\* The same, of what a step is shown to leave.
LEMMA RightGoes ==
    ASSUME RcnTrue, ~rcnLoading.pending, NEW n \in 1..Len(rcnCalls), rcnCalls[n].step # "done",
           \A k \in 1..Len(rcnCalls) : k < n => rcnCalls[k].step = "done",
           NEW r, Rcn!Goes(n, r), Right(r, rcnCalls[n], RcnIds(rcnEntries), rcnBlobs', rcnCut'),
           r.call.step \in {"dupes", "put"} => rcnCalls[n].step \in {"queued", "dupes", "put"},
           UNCHANGED <<rcnLoading, rcnStored>>
    PROVE  RcnTrue'
<1> DEFINE old == rcnCalls[n]
           call == r.call
<1>1. old \in RcnCalls /\ CallTrue(old, n) /\ old.op # "none"
  BY DEF RcnTrue, RcnTyped
<1>2. rcnEntries' = r.list /\ rcnCalls' = [rcnCalls EXCEPT ![n] = call]
  BY DEF Rcn!Goes
<1>3. /\ r.list \in Seq(RcnEntry) /\ Once(r.list) /\ call \in RcnCalls
      /\ call.op = old.op /\ call.id = old.id /\ call.name = old.name /\ call.size = old.size
      /\ NoWork(call) /\ call.step # "queued" /\ call.step # "done"
      /\ Holds(r.list, call, rcnBlobs', rcnCut')
      /\ RcnIds(r.list) \subseteq RcnIds(rcnEntries)
           \cup (IF call.step \in {"dupes", "put"} THEN {} ELSE {old.id})
      /\ old.op # "record" => RcnIds(r.list) \subseteq RcnIds(rcnEntries)
  BY DEF Right
<1>4. CallTrue(call, n)
  BY <1>1, <1>3 DEF CallTrue
<1>5. RcnIds(r.list) \subseteq RcnIds(rcnEntries) \cup (IF call.step \in {"dupes", "put"} THEN {} ELSE {n})
  BY <1>1, <1>3 DEF CallTrue
<1>6. rcnStored' = rcnStored /\ rcnStored \in Seq(RcnEntry) /\ Once(rcnStored) /\ Small(rcnStored)
  BY DEF RcnTrue, RcnTyped
<1>7. rcnStored' \in Seq(RcnEntry) /\ Once(rcnStored)' /\ Small(rcnStored)' /\ Once(rcnEntries)'
      /\ rcnEntries' \in Seq(RcnEntry)
  BY <1>2, <1>3, <1>6 DEF Once, Small
<1>8. RcnIds(rcnEntries') \cup RcnIds(rcnStored') \subseteq
             RcnIds(rcnEntries) \cup RcnIds(rcnStored)
               \cup (IF call.step \in {"dupes", "put"} THEN {} ELSE {n})
  BY <1>2, <1>5, <1>6
<1>9. Holds(rcnEntries', call, rcnBlobs', rcnCut') /\ call.op # "none"
  BY <1>1, <1>2, <1>3
<1> HIDE DEF call
<1> QED
  BY <1>2, <1>3, <1>4, <1>7, <1>8, <1>9, CallGoes DEF call


\* Only a call that has no file yet goes on to store one.
LEMMA ResumedStep ==
    ASSUME NEW list, NEW call \in RcnCalls, call.step \in RcnDeletes, call.step # "dupes"
    PROVE  Rcn!Resumed(list, call).call.step \notin {"dupes", "put"}
<1>1. DOMAIN call = {"op", "name", "size", "id", "step", "work"}
  BY DEF RcnCalls
<1>2. \A l : Rcn!Fitted(l, call).call.step \in {"uncache", "persist"}
  <2> SUFFICES ASSUME NEW l PROVE Rcn!Fitted(l, call).call.step \in {"uncache", "persist"}
    OBVIOUS
  <2> DEFINE work == <<l[Rcn!OldestCached(l)].id>>
             none == <<>>
  <2>1. Rcn!Fitted(l, call).call = Rcn!At(call, "uncache", work) \/ Rcn!Fitted(l, call).call = Rcn!At(call, "persist", none)
    BY DEF Rcn!Fitted
  <2> HIDE DEF work, none
  <2> QED
    BY <1>1, <2>1 DEF Rcn!At
<1>3. \A l : Rcn!Emptied(l, call).call.step = "persist"
  <2> DEFINE none == <<>>
  <2>1. \A l : Rcn!Emptied(l, call).call = Rcn!At(call, "persist", none)
    BY DEF Rcn!Emptied
  <2> HIDE DEF none
  <2> QED
    BY <1>1, <2>1 DEF Rcn!At
<1>4. CASE call.step = "trim"
  BY <1>2, <1>4 DEF Rcn!Resumed, Rcn!Trimmed
<1>5. CASE call.step = "uncache"
  BY <1>2, <1>5 DEF Rcn!Resumed
<1>6. CASE call.step \in {"remove", "clear"}
  BY <1>3, <1>6 DEF Rcn!Resumed
<1> QED
  BY <1>4, <1>5, <1>6 DEF RcnDeletes

\* A call that is under way has the turn, and the list has been read.
LEMMA GoingHasTurn ==
    ASSUME RcnTrue, NEW n \in 1..Len(rcnCalls), Going(n)
    PROVE  /\ ~rcnLoading.pending /\ rcnCalls[n].step # "done" /\ rcnCalls[n] \in RcnCalls
           /\ \A k \in 1..Len(rcnCalls) : k < n => rcnCalls[k].step = "done"
           /\ Holds(rcnEntries, rcnCalls[n], rcnBlobs, rcnCut)
           /\ rcnEntries \in Seq(RcnEntry) /\ Once(rcnEntries) /\ CallTrue(rcnCalls[n], n)
           /\ rcnCalls[n].step \in {"dupes", "put"} => n \notin RcnIds(rcnEntries)
<1>1. rcnCalls[n] \in RcnCalls /\ Holds(rcnEntries, rcnCalls[n], rcnBlobs, rcnCut) /\ RcnTyped
  BY DEF RcnTrue, RcnTyped
<1>2. ~Rcn!Settled
  BY <1>1, SettledIs
<1>3. ~rcnLoading.pending
  BY <1>2 DEF RcnTrue, Reading
<1>4. \A k \in 1..Len(rcnCalls) : k < n => rcnCalls[k].step = "done"
  BY DEF RcnTrue, InTurn, Going
<1>5. rcnCalls[n].step \in {"dupes", "put"} => n \notin RcnIds(rcnEntries)
  BY DEF RcnTrue, IdsAreGiven, Given
<1> QED
  BY <1>1, <1>3, <1>4, <1>5 DEF Going, RcnTyped

\* A call begins.
LEMMA BeginsTrue ==
    ASSUME RcnTrue, NEW n \in 1..Len(rcnCalls), Rcn!Begin(n)
    PROVE  RcnInv'
<1> DEFINE call == rcnCalls[n]
           r == Rcn!First(rcnEntries, call)
<1>1. /\ call.step = "queued" /\ (\A k \in 1..(n - 1) : rcnCalls[k].step = "done")
      /\ Rcn!Goes(n, r) /\ rcnCrossed' = (rcnCrossed \/ rcnLoading.pending)
      /\ UNCHANGED <<rcnStored, rcnBlobs, rcnLoading, rcnRefused, rcnCut>>
  BY DEF Rcn!Begin, Rcn!Turn
<1>2. CASE rcnLoading.pending
  BY <1>1, <1>2 DEF RcnInv
<1>3. CASE ~rcnLoading.pending
  <2>0. RcnTyped /\ Len(rcnCalls) \in Nat
    BY DEF RcnTrue, RcnTyped
  <2>1. \A k \in 1..Len(rcnCalls) : k < n => rcnCalls[k].step = "done"
    BY <1>1, <2>0
  <2>2. \A k \in 1..Len(rcnCalls) : ~Going(k)
    <3> SUFFICES ASSUME NEW k \in 1..Len(rcnCalls) PROVE ~Going(k)
      OBVIOUS
    <3>1. k < n \/ k = n \/ n < k
      BY <2>0
    <3>2. n < k => rcnCalls[k].step = "queued"
      BY <1>1 DEF RcnTrue, InTurn
    <3> QED
      BY <1>1, <2>1, <3>1, <3>2 DEF Going
  <2>3. AtRest
    BY <1>3, <2>0, <2>2, SettledIs DEF RcnTrue
  <2>4. call \in RcnCalls /\ call.op # "none" /\ CallTrue(call, n) /\ call.step # "done"
    BY <1>1, <2>0 DEF RcnTyped
  <2>5. n \notin RcnIds(rcnEntries)
    BY <1>1 DEF RcnTrue, IdsAreGiven, Given
  <2>6. /\ rcnEntries \in Seq(RcnEntry) /\ Once(rcnEntries) /\ Matched(rcnEntries, rcnBlobs, rcnCut)
        /\ Small(rcnEntries) /\ (rcnRefused \/ rcnStored = rcnEntries)
    BY <2>0, <2>3 DEF RcnTyped, AtRest
  <2> HIDE DEF r
  <2>7. \/ r.list = rcnEntries /\ r.call = Rcn!Done
        \/ Right(r, call, RcnIds(rcnEntries), rcnBlobs, rcnCut)
    BY <2>4, <2>5, <2>6, FirstHolds DEF r, CallTrue
  <2>8. CASE r.list = rcnEntries /\ r.call = Rcn!Done
    <3>1. rcnEntries' = rcnEntries /\ rcnCalls' = [rcnCalls EXCEPT ![n] = Rcn!Done]
      BY <1>1, <2>8 DEF Rcn!Goes
    <3>2. /\ Rcn!Done \in RcnCalls /\ Rcn!Done.step = "done" /\ NoWork(Rcn!Done)
          /\ CallTrue(Rcn!Done, n)
      BY DoneIs DEF CallTrue
    <3>3. AtRest'
      BY <1>1, <2>3, <3>1 DEF AtRest, Small, Matched
    <3>4. /\ rcnEntries' \in Seq(RcnEntry) /\ Once(rcnEntries)'
          /\ rcnStored' \in Seq(RcnEntry) /\ Once(rcnStored)' /\ Small(rcnStored)'
      BY <1>1, <2>0, <3>1 DEF RcnTyped, Once, Small
    <3>5. RcnIds(rcnEntries') \cup RcnIds(rcnStored') \subseteq
             RcnIds(rcnEntries) \cup RcnIds(rcnStored)
               \cup (IF Rcn!Done.step \in {"dupes", "put"} THEN {} ELSE {n})
      BY <1>1, <3>1
    <3> DEFINE d == Rcn!Done
    <3>6. RcnTrue'
      <4>1. rcnCalls' = [rcnCalls EXCEPT ![n] = d] /\ d \in RcnCalls /\ d.step = "done" /\ NoWork(d)
            /\ CallTrue(d, n) /\ RcnIds(rcnEntries') \cup RcnIds(rcnStored') \subseteq
             RcnIds(rcnEntries) \cup RcnIds(rcnStored)
               \cup (IF d.step \in {"dupes", "put"} THEN {} ELSE {n})
        BY <3>1, <3>2, <3>5
      <4> HIDE DEF d, call
      <4>2. rcnCalls[n].step # "done"
        BY <2>4 DEF call
      <4> QED
        BY <1>1, <1>3, <2>1, <3>3, <3>4, <4>1, <4>2, CallGoes
    <3> QED
      BY <3>6 DEF RcnInv
  <2>9. CASE Right(r, call, RcnIds(rcnEntries), rcnBlobs, rcnCut)
    <3>1. Right(r, call, RcnIds(rcnEntries), rcnBlobs', rcnCut')
      BY <1>1, <2>9
    <3>2. RcnTrue'
      BY <1>1, <1>3, <2>1, <2>4, <3>1, RightGoes
    <3> QED
      BY <3>2 DEF RcnInv
  <2> QED
    BY <2>7, <2>8, <2>9
<1> QED
  BY <1>2, <1>3

\* A deletion is answered.
LEMMA DropsTrue ==
    ASSUME RcnTrue, NEW n \in 1..Len(rcnCalls), Rcn!Dropped(n)
    PROVE  RcnTrue'
<1> DEFINE call == rcnCalls[n]
           h == Head(call.work)
           r == Rcn!Resumed(rcnEntries, call)
<1>1. call.work # <<>> /\ UNCHANGED <<rcnStored, rcnLoading, rcnRefused>>
  BY DEF Rcn!Dropped
<1>2. \/ rcnBlobs' = rcnBlobs \ {h} /\ rcnCut' = rcnCut
      \/ rcnBlobs' = rcnBlobs /\ rcnCut' = rcnCut \cup {h}
  BY DEF Rcn!Dropped
<1>3. call.step \in RcnDeletes /\ Going(n)
  <2>1. NoWork(call)
    BY DEF RcnTrue, RcnTyped
  <2> QED
    BY <1>1, <2>1 DEF NoWork, Going, RcnDeletes
<1>4. /\ ~rcnLoading.pending /\ call.step # "done" /\ call \in RcnCalls
      /\ \A k \in 1..Len(rcnCalls) : k < n => rcnCalls[k].step = "done"
      /\ Holds(rcnEntries, call, rcnBlobs, rcnCut)
      /\ rcnEntries \in Seq(RcnEntry) /\ Once(rcnEntries) /\ CallTrue(call, n)
      /\ call.step \in {"dupes", "put"} => n \notin RcnIds(rcnEntries)
  BY <1>3, GoingHasTurn
<1>5. /\ Len(call.work) > 1 =>
           /\ Tail(call.work) \in Seq(Nat) /\ Tail(call.work) # <<>>
           /\ InWork(Tail(call.work)) \subseteq Doomed(rcnEntries, call)
           /\ (Rcn!CachedIds(rcnEntries) \ rcnCut') \ Doomed(rcnEntries, call)
                = (rcnBlobs' \ rcnCut') \ Doomed(rcnEntries, call)
           /\ (rcnBlobs' \ rcnCut') \cap Doomed(rcnEntries, call) \subseteq InWork(Tail(call.work))
      /\ ~(Len(call.work) > 1) =>
           (Rcn!CachedIds(rcnEntries) \ Doomed(rcnEntries, call)) \ rcnCut' = rcnBlobs' \ rcnCut'
  <2>1. Half(rcnEntries, call, rcnBlobs, rcnCut)
    BY <1>3, <1>4 DEF Holds
  <2>2. call \in RcnCalls /\ call.work # <<>>
    BY <1>1, <1>4
  <2> DEFINE b == rcnBlobs'
             c == rcnCut'
  <2>3. (b = rcnBlobs \ {h} /\ c = rcnCut) \/ (b = rcnBlobs /\ c = rcnCut \cup {h})
    BY <1>2
  <2> HIDE DEF call, b, c
  <2> QED
    <3>1. Fewer(rcnEntries, call, b, c)
      BY <2>1, <2>2, <2>3, DropsOne
    <3> QED
      BY <3>1 DEF b, c, Fewer
<1>6. CASE Len(call.work) > 1
  <2> DEFINE t == Tail(call.work)
             k == [call EXCEPT !.work = t]
  <2>1. rcnCalls' = [rcnCalls EXCEPT ![n] = k] /\ rcnEntries' = rcnEntries
    BY <1>6 DEF Rcn!Dropped
  <2>2. /\ t \in Seq(Nat) /\ t # <<>> /\ InWork(t) \subseteq Doomed(rcnEntries, call)
        /\ (Rcn!CachedIds(rcnEntries) \ rcnCut') \ Doomed(rcnEntries, call)
             = (rcnBlobs' \ rcnCut') \ Doomed(rcnEntries, call)
        /\ (rcnBlobs' \ rcnCut') \cap Doomed(rcnEntries, call) \subseteq InWork(t)
    BY <1>5, <1>6
  <2> HIDE DEF t
  <2>3. /\ k \in RcnCalls /\ k.op = call.op /\ k.name = call.name /\ k.size = call.size
        /\ k.id = call.id /\ k.step = call.step /\ k.work = t
    <3> DEFINE Works == Seq(Nat)
               Names == FileNames \cup {Rcn!NoName}
               Ops == {"record", "remove", "clear", "none"}
    <3>1. call \in [op : Ops, name : Names, size : Nat, id : Nat, step : RcnSteps, work : Works]
      BY <1>4 DEF RcnCalls
    <3>2. t \in Works
      BY <2>2
    <3> HIDE DEF Works, Names, Ops, call
    <3>3. /\ k \in [op : Ops, name : Names, size : Nat, id : Nat, step : RcnSteps, work : Works]
          /\ k.op = call.op /\ k.name = call.name /\ k.size = call.size
          /\ k.id = call.id /\ k.step = call.step /\ k.work = t
      BY <3>1, <3>2
    <3> HIDE DEF k
    <3> QED
      BY <3>3 DEF RcnCalls, Works, Names, Ops
  <2> HIDE DEF k
  <2>4. call.step # "uncache"
    <3>1. call.step = "uncache" => Len(call.work) = 1
      BY <1>4 DEF Holds
    <3> DEFINE m == Len(call.work)
    <3>2. (call.step = "uncache" => m = 1) /\ m > 1
      BY <1>6, <3>1
    <3> HIDE DEF call, m
    <3> QED
      BY <3>2
  <2>5. Doomed(rcnEntries, k) = Doomed(rcnEntries, call)
    BY <2>3, <2>4 DEF Doomed, Leaves
  <2>6. Half(rcnEntries, k, rcnBlobs', rcnCut')
    BY <2>2, <2>3, <2>5 DEF Half
  <2>7. Holds(rcnEntries, k, rcnBlobs', rcnCut')
    BY <1>3, <1>4, <2>2, <2>3, <2>4, <2>6 DEF Holds, RcnDeletes
  <2>8. CallTrue(k, n) /\ NoWork(k) /\ k.step # "queued" /\ k.step # "done" /\ k.op # "none"
    <3>1. call.op # "none"
      BY <1>4 DEF RcnTrue, RcnTyped
    <3> QED
      BY <1>3, <1>4, <2>3, <3>1 DEF CallTrue, NoWork, RcnDeletes
  <2>9. /\ rcnEntries' \in Seq(RcnEntry) /\ Once(rcnEntries)'
        /\ rcnStored' \in Seq(RcnEntry) /\ Once(rcnStored)' /\ Small(rcnStored)'
    BY <1>1, <1>4, <2>1 DEF RcnTrue, RcnTyped, Once, Small
  <2>10. RcnIds(rcnEntries') \cup RcnIds(rcnStored') \subseteq
             RcnIds(rcnEntries) \cup RcnIds(rcnStored)
               \cup (IF k.step \in {"dupes", "put"} THEN {} ELSE {n})
    BY <1>1, <2>1
  <2>11. /\ Holds(rcnEntries', k, rcnBlobs', rcnCut')
         /\ k.step \in {"dupes", "put"} => rcnCalls[n].step \in {"queued", "dupes", "put"}
    BY <2>1, <2>3, <2>7
  <2> HIDE DEF call
  <2>12. rcnCalls[n].step # "done"
    BY <1>4 DEF call
  <2> QED
    BY <1>1, <1>4, <2>1, <2>3, <2>8, <2>9, <2>10, <2>11, <2>12, CallGoes
<1>7. CASE ~(Len(call.work) > 1)
  <2>1. Rcn!Goes(n, r)
    BY <1>7 DEF Rcn!Dropped
  <2> HIDE DEF r
  <2>2. Right(r, call, RcnIds(rcnEntries), rcnBlobs', rcnCut')
    <3>1. /\ call.step \in {"dupes", "trim", "uncache"} => call.op = "record"
          /\ call.step = "uncache" => Len(rcnEntries) <= FilesListed /\ Len(call.work) = 1
          /\ call.step = "remove" => Small(rcnEntries)
      BY <1>4 DEF Holds
    <3>2. /\ call.op = "record" => call.name \in FileNames /\ call.size \in FileSizes
          /\ call.step = "dupes" => call.id \notin RcnIds(rcnEntries)
      BY <1>4, <3>1 DEF CallTrue
    <3>3. (Rcn!CachedIds(rcnEntries) \ Doomed(rcnEntries, call)) \ rcnCut' = rcnBlobs' \ rcnCut'
      BY <1>5, <1>7
    <3> HIDE DEF call
    <3> QED
      BY <1>3, <1>4, <3>1, <3>2, <3>3, ResumedHolds DEF r
  <2>3. r.call.step \in {"dupes", "put"} => call.step \in {"queued", "dupes", "put"}
    <3>1. CASE call.step = "dupes"
      BY <3>1
    <3>2. CASE call.step # "dupes"
      <4>1. r.call.step \notin {"dupes", "put"}
        BY <1>3, <1>4, <3>2, ResumedStep DEF r
      <4> QED
        BY <4>1
    <3> QED
      BY <3>1, <3>2
  <2> HIDE DEF call
  <2>4. rcnCalls[n].step # "done" /\ Right(r, rcnCalls[n], RcnIds(rcnEntries), rcnBlobs', rcnCut')
        /\ (r.call.step \in {"dupes", "put"} => rcnCalls[n].step \in {"queued", "dupes", "put"})
    BY <1>4, <2>2, <2>3 DEF call
  <2> QED
    BY <1>1, <1>4, <2>1, <2>4, RightGoes
<1> QED
  BY <1>6, <1>7


\* A content is kept, or the store refuses it.
LEMMA PutsTrue ==
    ASSUME RcnTrue, NEW n \in 1..Len(rcnCalls), Rcn!Put(n)
    PROVE  RcnTrue'
<1> DEFINE call == rcnCalls[n]
<1>1. call.step = "put" /\ Going(n) /\ UNCHANGED <<rcnStored, rcnLoading, rcnRefused, rcnCut>>
  BY DEF Rcn!Put, Going
<1>2. /\ ~rcnLoading.pending /\ call.step # "done" /\ call \in RcnCalls
      /\ \A k \in 1..Len(rcnCalls) : k < n => rcnCalls[k].step = "done"
      /\ Holds(rcnEntries, call, rcnBlobs, rcnCut)
      /\ rcnEntries \in Seq(RcnEntry) /\ Once(rcnEntries) /\ CallTrue(call, n)
      /\ n \notin RcnIds(rcnEntries)
  BY <1>1, GoingHasTurn
<1>3. /\ Matched(rcnEntries, rcnBlobs, rcnCut) /\ Unnamed(rcnEntries, call.name) /\ call.op = "record"
      /\ call.id = n /\ call.name \in FileNames /\ call.size \in FileSizes
  BY <1>1, <1>2 DEF Holds, CallTrue
<1>4. PICK kept \in BOOLEAN : /\ rcnBlobs' = IF kept THEN rcnBlobs \cup {call.id} ELSE rcnBlobs
                              /\ Rcn!Goes(n, Rcn!Added(rcnEntries, call, kept))
  BY DEF Rcn!Put
<1> DEFINE r == Rcn!Added(rcnEntries, call, kept)
           now == rcnBlobs'
<1>5. now = IF kept THEN rcnBlobs \cup {call.id} ELSE rcnBlobs
  BY <1>4
<1> HIDE DEF call, now
<1>6. Right(Rcn!Added(rcnEntries, call, kept), call, RcnIds(rcnEntries), now, rcnCut)
  <2>1. call \in RcnCalls /\ call.id \notin RcnIds(rcnEntries)
    BY <1>2, <1>3
  <2> QED
    BY <1>2, <1>3, <1>5, <2>1, AddedHolds
<1> HIDE DEF r
<1>7. Right(r, rcnCalls[n], RcnIds(rcnEntries), rcnBlobs', rcnCut') /\ Rcn!Goes(n, r)
  BY <1>1, <1>4, <1>6 DEF r, now, call
<1>8. rcnCalls[n].step = "put" /\ rcnCalls[n].step # "done"
  BY <1>1 DEF call
<1> QED
  BY <1>1, <1>2, <1>7, <1>8, RightGoes

\* The list is stored as it is then, or the store refuses it.
LEMMA PersistsTrue ==
    ASSUME RcnTrue, NEW n \in 1..Len(rcnCalls), Rcn!Persist(n)
    PROVE  RcnTrue'
<1> DEFINE d == Rcn!Done
<1>1. /\ rcnCalls[n].step = "persist" /\ Going(n) /\ rcnCalls' = [rcnCalls EXCEPT ![n] = d]
      /\ UNCHANGED <<rcnEntries, rcnBlobs, rcnLoading, rcnCut>>
  BY DEF Rcn!Persist, Going
<1>2. /\ ~rcnLoading.pending /\ rcnCalls[n].step # "done"
      /\ \A k \in 1..Len(rcnCalls) : k < n => rcnCalls[k].step = "done"
      /\ Holds(rcnEntries, rcnCalls[n], rcnBlobs, rcnCut)
      /\ rcnEntries \in Seq(RcnEntry) /\ Once(rcnEntries)
  BY <1>1, GoingHasTurn
<1>3. Matched(rcnEntries, rcnBlobs, rcnCut) /\ Small(rcnEntries)
  BY <1>1, <1>2 DEF Holds
<1>4. (rcnStored' = rcnEntries) \/ (rcnStored' = rcnStored /\ rcnRefused')
  <2>1. PICK kept \in BOOLEAN : /\ rcnStored' = IF kept THEN rcnEntries ELSE rcnStored
                                /\ rcnRefused' = ~kept
    BY DEF Rcn!Persist
  <2>2. CASE kept
    BY <2>1, <2>2
  <2>3. CASE ~kept
    <3>1. rcnRefused'
      BY <2>1, <2>3, Zenon
    <3> QED
      BY <2>1, <2>3, <3>1
  <2> QED
    BY <2>2, <2>3
<1>5. AtRest'
  BY <1>1, <1>3, <1>4 DEF AtRest, Small, Matched
<1>6. /\ rcnEntries' \in Seq(RcnEntry) /\ Once(rcnEntries)'
      /\ rcnStored' \in Seq(RcnEntry) /\ Once(rcnStored)' /\ Small(rcnStored)'
  <2>1. rcnStored \in Seq(RcnEntry) /\ Once(rcnStored) /\ Small(rcnStored)
    BY DEF RcnTrue, RcnTyped
  <2> QED
    BY <1>1, <1>2, <1>3, <1>4, <2>1 DEF Once, Small
<1>7. d \in RcnCalls /\ d.step = "done" /\ NoWork(d) /\ CallTrue(d, n)
  BY DoneIs DEF CallTrue
<1> HIDE DEF d
<1>8. RcnIds(rcnEntries') \cup RcnIds(rcnStored') \subseteq
             RcnIds(rcnEntries) \cup RcnIds(rcnStored)
               \cup (IF d.step \in {"dupes", "put"} THEN {} ELSE {n})
  BY <1>1, <1>4
<1> QED
  BY <1>1, <1>2, <1>5, <1>6, <1>7, <1>8, CallGoes

\* A page that is closed leaves what is stored; what was under way is taken in the cut.
LEMMA ClosesTrue ==
    ASSUME RcnTrue, Rcn!Close
    PROVE  RcnTrue'
<1> DEFINE d == Rcn!Done
           none == <<>>
           N == Len(rcnCalls)
<1>0. RcnTyped /\ N \in Nat /\ DOMAIN rcnCalls = 1..N
  BY DEF RcnTrue, RcnTyped
<1>1. /\ rcnCalls' = [n \in DOMAIN rcnCalls |-> d] /\ rcnEntries' = none
      /\ rcnLoading'.pending /\ rcnLoading'.list = rcnStored
      /\ rcnStored' = rcnStored /\ rcnBlobs' = rcnBlobs
      /\ rcnCut' = IF Rcn!Settled /\ ~rcnRefused THEN rcnCut
                   ELSE rcnCut \cup (Rcn!CachedIds(rcnStored) \ rcnBlobs)
                               \cup (rcnBlobs \ Rcn!CachedIds(rcnStored))
  BY DEF Rcn!Close
<1>2. d \in RcnCalls /\ d.step = "done" /\ NoWork(d) /\ d.op = "none"
  BY DoneIs
<1>3. none \in Seq(RcnEntry) /\ Once(none) /\ RcnIds(none) = {}
  BY DEF Once, RcnIds
<1> HIDE DEF d, none
<1>4. /\ rcnCalls' \in Seq(RcnCalls) /\ Len(rcnCalls') = N /\ DOMAIN rcnCalls' = 1..N
      /\ \A n \in 1..N : rcnCalls'[n] = d
  <2> DEFINE f == [n \in 1..N |-> d]
  <2>1. rcnCalls' = f
    BY <1>0, <1>1
  <2> HIDE DEF N
  <2>2. f \in Seq(RcnCalls) /\ Len(f) = N /\ DOMAIN f = 1..N /\ \A n \in 1..N : f[n] = d
    BY <1>0, <1>2
  <2> HIDE DEF f
  <2> QED
    BY <2>1, <2>2
<1>5. RcnTyped'
  BY <1>0, <1>1, <1>2, <1>3, <1>4 DEF RcnTyped, CallTrue, Once, Small
<1>6. Rcn!Settled' /\ InTurn' /\ (\A n \in 1..Len(rcnCalls') : ~Going(n)')
  BY <1>2, <1>4 DEF Rcn!Settled, InTurn, Going
<1>7. IdsAreGiven'
  <2> SUFFICES ASSUME NEW i \in RcnIds(rcnStored) PROVE Given(i)'
    BY <1>1, <1>3 DEF IdsAreGiven
  <2>1. Given(i)
    BY DEF RcnTrue, IdsAreGiven
  <2> QED
    BY <1>2, <1>4, <2>1 DEF Given
<1>8. Matched(rcnStored, rcnBlobs, rcnCut')
  <2>1. CASE Rcn!Settled /\ ~rcnRefused
    <3>1. rcnCut' = rcnCut
      BY <1>1, <2>1
    <3>2. Matched(rcnStored, rcnBlobs, rcnCut)
      BY <2>1 DEF RcnTrue, Reading, AtRest
    <3> QED
      BY <3>1, <3>2
  <2>2. CASE ~(Rcn!Settled /\ ~rcnRefused)
    <3>1. rcnCut' = rcnCut \cup (Rcn!CachedIds(rcnStored) \ rcnBlobs)
                           \cup (rcnBlobs \ Rcn!CachedIds(rcnStored))
      BY <1>1, <2>2
    <3> QED
      BY <3>1 DEF Matched
  <2> QED
    BY <2>1, <2>2
<1>9. Reading'
  BY <1>1, <1>6, <1>8 DEF Reading, Matched
<1>10. (rcnLoading.pending => Reading)' /\ (~rcnLoading.pending /\ Rcn!Settled => AtRest)'
  BY <1>1, <1>9
<1>11. (\A n \in 1..Len(rcnCalls) : Going(n) => Holds(rcnEntries, rcnCalls[n], rcnBlobs, rcnCut))'
  BY <1>6
<1> QED
  BY <1>5, <1>6, <1>7, <1>10, <1>11 DEF RcnTrue

\* The list that was read is at rest.
LEMMA LoadsTrue ==
    ASSUME RcnTrue, Rcn!Loaded
    PROVE  RcnTrue'
<1>1. /\ rcnLoading.pending /\ rcnEntries' = rcnLoading.list /\ ~rcnLoading'.pending
      /\ UNCHANGED <<rcnStored, rcnBlobs, rcnCalls, rcnRefused, rcnCut>>
  BY DEF Rcn!Loaded, Rcn!NotLoading
<1>2. Reading /\ RcnTyped
  BY <1>1 DEF RcnTrue
<1>3. rcnEntries' = rcnStored
  BY <1>1, <1>2 DEF Reading
<1>4. RcnTyped'
  BY <1>1, <1>2, <1>3 DEF RcnTyped, Once, Small
<1>5. \A n \in 1..Len(rcnCalls') : ~Going(n)'
  <2>1. \A n \in 1..Len(rcnCalls) : ~Going(n)
    BY <1>2, SettledIs DEF Reading
  <2> QED
    BY <1>1, <2>1 DEF Going
<1>6. InTurn' /\ IdsAreGiven'
  BY <1>1, <1>3 DEF RcnTrue, InTurn, IdsAreGiven, Given, RcnIds
<1>7. AtRest'
  BY <1>1, <1>2, <1>3 DEF AtRest, Reading, RcnTyped, Small, Matched
<1>8. (rcnLoading.pending => Reading)' /\ (~rcnLoading.pending /\ Rcn!Settled => AtRest)'
  BY <1>1, <1>7
<1>9. (\A n \in 1..Len(rcnCalls) : Going(n) => Holds(rcnEntries, rcnCalls[n], rcnBlobs, rcnCut))'
  BY <1>5
<1> QED
  BY <1>4, <1>6, <1>8, <1>9 DEF RcnTrue

\* Changes that are asked for.
LEMMA CallsTrue ==
    ASSUME RcnTrue,
           \/ \E name \in FileNames, size \in FileSizes : Rcn!Record(name, size)
           \/ \E n \in DOMAIN rcnEntries : Rcn!Remove(rcnEntries[n].id)
           \/ Rcn!Clear
    PROVE  RcnTrue'
<1>0. Len(rcnCalls) + 1 \in Nat /\ 0 \in Nat /\ rcnEntries \in Seq(RcnEntry)
  BY DEF RcnTrue, RcnTyped
<1>1. ASSUME NEW name \in FileNames, NEW size \in FileSizes, Rcn!Record(name, size) PROVE RcnTrue'
  <2> DEFINE id == Len(rcnCalls) + 1
             call == Rcn!Call("record", name, size, id)
  <2>1. /\ call \in RcnCalls /\ call.step = "queued" /\ call.op = "record" /\ call.name = name
        /\ call.size = size /\ call.id = id /\ NoWork(call)
    BY <1>0, CallIs, StoresAssumption
  <2>2. /\ rcnCalls' = Append(rcnCalls, call)
        /\ UNCHANGED <<rcnEntries, rcnStored, rcnBlobs, rcnLoading, rcnRefused, rcnCut>>
    BY <1>1 DEF Rcn!Record
  <2> HIDE DEF call
  <2>3. CallTrue(call, Len(rcnCalls) + 1)
    BY <2>1 DEF CallTrue
  <2> QED
    BY <2>1, <2>2, <2>3, AsksTrue
<1>2. ASSUME NEW n \in DOMAIN rcnEntries, Rcn!Remove(rcnEntries[n].id) PROVE RcnTrue'
  <2> DEFINE id == rcnEntries[n].id
             name == Rcn!NoName
             zero == 0
             call == Rcn!Call("remove", name, zero, id)
  <2>1. id \in Nat /\ name \in FileNames \cup {Rcn!NoName} /\ zero \in Nat
    <3>1. rcnEntries[n] \in RcnEntry
      BY <1>0
    <3> QED
      BY <3>1 DEF RcnEntry
  <2>2. /\ rcnCalls' = Append(rcnCalls, call)
        /\ UNCHANGED <<rcnEntries, rcnStored, rcnBlobs, rcnLoading, rcnRefused, rcnCut>>
    BY <1>2 DEF Rcn!Remove
  <2> HIDE DEF id, name, zero
  <2>3. call \in RcnCalls /\ call.step = "queued" /\ call.op = "remove" /\ NoWork(call)
    BY <2>1, CallIs
  <2> HIDE DEF call
  <2>4. CallTrue(call, Len(rcnCalls) + 1)
    BY <2>3 DEF CallTrue
  <2> QED
    BY <2>2, <2>3, <2>4, AsksTrue
<1>3. CASE Rcn!Clear
  <2> DEFINE name == Rcn!NoName
             zero == 0
             call == Rcn!Call("clear", name, zero, zero)
  <2>1. name \in FileNames \cup {Rcn!NoName} /\ zero \in Nat
    OBVIOUS
  <2>2. /\ rcnCalls' = Append(rcnCalls, call)
        /\ UNCHANGED <<rcnEntries, rcnStored, rcnBlobs, rcnLoading, rcnRefused, rcnCut>>
    BY <1>3 DEF Rcn!Clear
  <2> HIDE DEF name, zero
  <2>3. call \in RcnCalls /\ call.step = "queued" /\ call.op = "clear" /\ NoWork(call)
    BY <2>1, CallIs
  <2> HIDE DEF call
  <2>4. CallTrue(call, Len(rcnCalls) + 1)
    BY <2>3 DEF CallTrue
  <2> QED
    BY <2>2, <2>3, <2>4, AsksTrue
<1> QED
  BY <1>1, <1>2, <1>3

\* No file is listed at first, until the list was read.
LEMMA RcnBegins == ASSUME Rcn!Init PROVE RcnInv
<1> DEFINE none == <<>>
<1>1. /\ rcnEntries = none /\ rcnStored = none /\ rcnCalls = none /\ ~rcnLoading.pending
      /\ rcnBlobs = {} /\ rcnCut = {}
  BY DEF Rcn!Init, Rcn!NotLoading
<1>2. none \in Seq(RcnEntry) /\ none \in Seq(RcnCalls) /\ Len(none) = 0
  OBVIOUS
<1>3. Rcn!CachedBytes(none) = 0 /\ Rcn!CachedIds(none) = {} /\ RcnIds(none) = {}
  BY BytesOfNone DEF Rcn!CachedIds, RcnIds
<1> HIDE DEF none
<1>4. Once(none) /\ Small(none) /\ Matched(none, rcnBlobs, rcnCut)
  BY <1>1, <1>2, <1>3, StoresAssumption DEF Once, Small, Matched
<1>5. RcnTyped /\ InTurn /\ IdsAreGiven /\ AtRest
  BY <1>1, <1>2, <1>3, <1>4 DEF RcnTyped, InTurn, IdsAreGiven, AtRest
<1>6. \A n \in 1..Len(rcnCalls) : Going(n) => Holds(rcnEntries, rcnCalls[n], rcnBlobs, rcnCut)
  BY <1>1, <1>2
<1> QED
  BY <1>1, <1>5, <1>6 DEF RcnInv, RcnTrue

\* Every step keeps the invariant of the recent files;
LEMMA RcnKeeps == ASSUME RcnInv, Rcn!Next PROVE RcnInv'
<1>1. CASE rcnCrossed
  <2>1. rcnCrossed'
    BY <1>1 DEF Rcn!Next, Rcn!Record, Rcn!Remove, Rcn!Clear, Rcn!Close, Rcn!Loaded, Rcn!Begin,
                Rcn!Dropped, Rcn!Put, Rcn!Persist
  <2> QED
    BY <2>1 DEF RcnInv
<1>2. CASE ~rcnCrossed
  <2>1. RcnTrue /\ DOMAIN rcnCalls = 1..Len(rcnCalls)
    BY <1>2 DEF RcnInv, RcnTrue, RcnTyped
  <2>2. CASE \/ \E name \in FileNames, size \in FileSizes : Rcn!Record(name, size)
             \/ \E n \in DOMAIN rcnEntries : Rcn!Remove(rcnEntries[n].id)
             \/ Rcn!Clear
    BY <2>1, <2>2, CallsTrue DEF RcnInv
  <2>3. CASE Rcn!Close \/ Rcn!Loaded
    BY <2>1, <2>3, ClosesTrue, LoadsTrue DEF RcnInv
  <2>4. ASSUME NEW n \in 1..Len(rcnCalls), Rcn!Begin(n) \/ Rcn!Dropped(n) \/ Rcn!Put(n) \/ Rcn!Persist(n)
        PROVE  RcnInv'
    BY <2>1, <2>4, BeginsTrue, DropsTrue, PutsTrue, PersistsTrue DEF RcnInv
  <2> QED
    BY <2>1, <2>2, <2>3, <2>4 DEF Rcn!Next
<1> QED
  BY <1>1, <1>2

\* which promises what the run checks,
LEMMA RcnPromises == ASSUME RcnInv PROVE Rcn!ListIsStored /\ Rcn!CacheIsCounted
<1> SUFFICES ASSUME Rcn!Rests PROVE Rcn!ListIsStored /\ Rcn!CacheIsCounted
  BY DEF Rcn!ListIsStored, Rcn!CacheIsCounted
<1>1. RcnTrue /\ AtRest
  BY DEF Rcn!Rests, RcnInv, RcnTrue
<1>2. DOMAIN rcnEntries = 1..Len(rcnEntries) /\ Once(rcnEntries)
  BY <1>1 DEF RcnTrue, RcnTyped
<1>3. \A m, n \in DOMAIN rcnEntries : rcnEntries[m].name = rcnEntries[n].name => m = n
  BY <1>2 DEF Once
<1>4. Rcn!ListIsStored
  BY <1>1, <1>3 DEF Rcn!ListIsStored, AtRest
<1>5. Rcn!CacheIsCounted
  BY <1>1 DEF Rcn!CacheIsCounted, AtRest, Small, Matched
<1> QED
  BY <1>4, <1>5

\* and is kept when nothing changes.
LEMMA MapStays == ASSUME MapInv, UNCHANGED Map!vars PROVE MapInv'
<1> USE DEF MapInv, Map!vars
<1>1. MapShown'
  BY MapImagesStay
<1>2. MapTyped' /\ MapBound'
  BY MapCacheStays
<1>3. MapLoads' /\ Map!PendingIsLoading'
  BY DEF MapLoads, Map!PendingIsLoading
<1> QED
  BY <1>1, <1>2, <1>3

\* and is kept when nothing changes.
LEMMA RcnStays == ASSUME RcnInv, UNCHANGED Rcn!vars PROVE RcnInv'
<1>1. UNCHANGED <<rcnEntries, rcnStored, rcnBlobs, rcnCalls, rcnLoading, rcnRefused, rcnCrossed, rcnCut>>
  BY DEF Rcn!vars
<1>2. RcnTrue => RcnTrue'
  BY <1>1 DEF RcnTrue, RcnTyped, InTurn, IdsAreGiven, Given, Going, Reading, AtRest, Rcn!Settled, CallTrue
<1> QED
  BY <1>1, <1>2 DEF RcnInv

\* What is drawn is of the basemap that is shown or of one with its id, a tile that is
\* pending is being loaded, and the store of tiles holds no more than its limit and what
\* was stored since it was last swept (engine.ts, cache.ts). While no call is under way
\* the list of recent files is the one that is stored, unless the store refused it, and
\* what is kept of the files is what the list counts, within the budget, but for what a
\* closed page or a refused deletion left; all until a call begins before the list was
\* read (store.ts). For any number of basemaps, tiles, files and calls.
THEOREM CachesStayCurrent == Map!Spec /\ Rcn!Spec => []CachesAreCurrent
<1>1. Map!Init => MapInv
  BY MapBegins
<1>2. MapInv /\ [Map!Next]_(Map!vars) => MapInv'
  BY MapKeeps, MapStays
<1>3. Rcn!Init => RcnInv
  BY RcnBegins
<1>4. RcnInv /\ [Rcn!Next]_(Rcn!vars) => RcnInv'
  BY RcnKeeps, RcnStays
<1>5. MapInv /\ RcnInv => CachesAreCurrent
  BY MapPromises, RcnPromises DEF CachesAreCurrent
<1> QED
  BY <1>1, <1>2, <1>3, <1>4, <1>5, PTL DEF Map!Spec, Rcn!Spec
=============================================================================
