---------------------------- MODULE SecretStore ----------------------------
(***************************************************************************)
(* src/src/core/secrets/secret-store.ts over a key-value store, and the    *)
(* way App.tsx uses it for the key of the map provider. Every operation is *)
(* asynchronous; a step here ends at an await of the code, so operations   *)
(* that overlap interleave as they do there, and the page may be closed    *)
(* between any two steps. A key stands for a passphrase and a salt.        *)
(***************************************************************************)
EXTENDS Naturals, FiniteSets

CONSTANTS
    Ids,         \* names of secrets
    Calls,       \* operations that may be under way at once (bound)
    MaxKeys,     \* vaults ever seeded (bound)
    MaxCloses    \* closings of the page (bound)

Keys == 1..MaxKeys
None == 0                       \* no key, no vault, no record
Idle == [op |-> "idle", at |-> "-", id |-> None, key |-> None, ids |-> {}, todo |-> {}]

VARIABLES
    vault,     \* the key of the stored verifier, None without a vault
    secrets,   \* the key each stored record is encrypted under, None for no record
    index,     \* the stored index
    key,       \* #key
    calls,     \* the operations under way
    seeded,    \* keys made so far
    closes,
    risked,    \* (history) a new vault met another operation, or its operation was cut short
    mixed      \* (history) two operations that write the index met, or one was cut short

vars == <<vault, secrets, index, key, calls, seeded, closes, risked, mixed>>

Ops == {"idle", "unlock", "set", "clear", "wipe", "rekey"}
TypeOK ==
    /\ vault \in Keys \cup {None} /\ key \in Keys \cup {None}
    /\ secrets \in [Ids -> Keys \cup {None}] /\ index \subseteq Ids
    /\ \A c \in Calls : /\ calls[c].op \in Ops /\ calls[c].id \in Ids \cup {None}
                        /\ calls[c].key \in Keys \cup {None}
                        /\ calls[c].ids \subseteq Ids /\ calls[c].todo \subseteq Ids
    /\ seeded \in 0..MaxKeys /\ closes \in 0..MaxCloses /\ risked \in BOOLEAN /\ mixed \in BOOLEAN

Init ==
    /\ vault = None /\ secrets = [i \in Ids |-> None] /\ index = {} /\ key = None
    /\ calls = [c \in Calls |-> Idle] /\ seeded = 0 /\ closes = 0 /\ risked = FALSE /\ mixed = FALSE

-----------------------------------------------------------------------------
Replaces == {"rekey", "wipe"}           \* replace or remove the vault
Indexes == {"set", "clear", "wipe", "rekey"}
UnderWay(c) == calls[c].op # "idle"
Seeds(c) == calls[c].op \in Replaces \/ calls[c].at = "seed"

Go(c, call) == calls' = [calls EXCEPT ![c] = call]
Ends(c) == Go(c, Idle)
At(c, op, at) == calls[c].op = op /\ calls[c].at = at

\* What the history notes when c begins an operation or goes on to seed a vault.
Meets(c, call) ==
    LET others == {d \in Calls \ {c} : UnderWay(d)} IN
    /\ risked' = (risked \/ \E d \in others : Seeds(d) \/ call.op \in Replaces \/ call.at = "seed")
    /\ mixed' = (mixed \/ (call.op \in Indexes /\ \E d \in others : calls[d].op \in Indexes))
\* Nothing is begun once both are noted, since every property is excused then (bound).
Begin(c, call) == ~UnderWay(c) /\ ~(risked /\ mixed) /\ Go(c, call) /\ Meets(c, call)
Noted == UNCHANGED <<seeded, closes>>

\* unlock(): reads the vault, and either seeds one or checks the passphrase.
Unlock(c) ==
    /\ Begin(c, [Idle EXCEPT !.op = "unlock", !.at = "read"])
    /\ UNCHANGED <<vault, secrets, index, key>> /\ Noted
UnlockRead(c) ==
    /\ At(c, "unlock", "read")
    /\ LET call == [calls[c] EXCEPT !.at = IF vault = None THEN "seed" ELSE "verify", !.key = vault] IN
       Go(c, call) /\ Meets(c, call)
    /\ UNCHANGED <<vault, secrets, index, key>> /\ Noted
Unlocked(c, right) ==
    /\ At(c, "unlock", "verify")
    /\ key' = IF right THEN calls[c].key ELSE key
    /\ Ends(c) /\ UNCHANGED <<vault, secrets, index, risked, mixed>> /\ Noted

Lock == /\ key # None /\ key' = None
        /\ risked' = (risked \/ \E c \in Calls : calls[c].op = "rekey")
        /\ UNCHANGED <<vault, secrets, index, calls, mixed>> /\ Noted

\* #seedVault: the record of the new vault first, the key in memory after it.
SeedStore(c) ==
    /\ calls[c].at = "seed" /\ seeded < MaxKeys
    /\ seeded' = seeded + 1 /\ vault' = seeded + 1
    /\ Go(c, [calls[c] EXCEPT !.at = "seeded", !.key = seeded + 1])
    /\ UNCHANGED <<secrets, index, key, closes, risked, mixed>>
SeedDone(c) ==
    /\ calls[c].at = "seeded" /\ key' = calls[c].key
    /\ Go(c, IF calls[c].op = "rekey" /\ calls[c].todo # {}
             THEN [calls[c] EXCEPT !.at = "rewrite"] ELSE Idle)
    /\ UNCHANGED <<vault, secrets, index, risked, mixed>> /\ Noted

\* set(): encrypts with the key of now, stores, then adds to the index it reads.
Set(c, i) ==
    /\ key # None
    /\ Begin(c, [Idle EXCEPT !.op = "set", !.at = "store", !.id = i, !.key = key])
    /\ UNCHANGED <<vault, secrets, index, key>> /\ Noted
SetStore(c) ==
    /\ calls[c].at = "store" /\ secrets' = [secrets EXCEPT ![calls[c].id] = calls[c].key]
    /\ Go(c, [calls[c] EXCEPT !.at = "index"])
    /\ UNCHANGED <<vault, index, key, risked, mixed>> /\ Noted
\* Mutant: rekey() ends after one secret.
StoredOnce(c) == Idle
\* the loop of rekey() goes on to the next secret, or ends.
Stored(c) == IF calls[c].op = "rekey" /\ calls[c].todo # {}
             THEN [calls[c] EXCEPT !.at = "rewrite", !.id = None] ELSE Idle
\* Mutant: the id is not added to the index.
AddNothing(c) ==
    /\ calls[c].at = "index" /\ Go(c, Stored(c))
    /\ UNCHANGED <<vault, secrets, index, key, risked, mixed>> /\ Noted
AddRead(c) ==
    /\ calls[c].at = "index"
    /\ Go(c, IF calls[c].id \in index THEN Stored(c)
             ELSE [calls[c] EXCEPT !.at = "save", !.ids = index \cup {calls[c].id}])
    /\ UNCHANGED <<vault, secrets, index, key, risked, mixed>> /\ Noted
AddSave(c) ==
    /\ calls[c].at = "save" /\ index' = calls[c].ids /\ Go(c, Stored(c))
    /\ UNCHANGED <<vault, secrets, key, risked, mixed>> /\ Noted

\* clear(id)
Clear(c, i) ==
    /\ Begin(c, [Idle EXCEPT !.op = "clear", !.at = "del", !.id = i])
    /\ UNCHANGED <<vault, secrets, index, key>> /\ Noted
ClearDel(c) ==
    /\ At(c, "clear", "del") /\ secrets' = [secrets EXCEPT ![calls[c].id] = None]
    /\ Go(c, [calls[c] EXCEPT !.at = "unlist"])
    /\ UNCHANGED <<vault, index, key, risked, mixed>> /\ Noted
ClearRead(c) ==
    /\ At(c, "clear", "unlist") /\ Go(c, [calls[c] EXCEPT !.at = "unsave", !.ids = index \ {calls[c].id}])
    /\ UNCHANGED <<vault, secrets, index, key, risked, mixed>> /\ Noted
ClearSave(c) ==
    /\ At(c, "clear", "unsave") /\ index' = calls[c].ids /\ Ends(c)
    /\ UNCHANGED <<vault, secrets, key, risked, mixed>> /\ Noted

\* clear(): every listed secret, then the index, then the vault and the key.
Wipe(c) ==
    /\ Begin(c, [Idle EXCEPT !.op = "wipe", !.at = "list"])
    /\ UNCHANGED <<vault, secrets, index, key>> /\ Noted
WipeList(c) ==
    /\ At(c, "wipe", "list") /\ Go(c, [calls[c] EXCEPT !.at = "each", !.todo = index])
    /\ UNCHANGED <<vault, secrets, index, key, risked, mixed>> /\ Noted
WipeEach(c) ==
    /\ At(c, "wipe", "each")
    /\ \E i \in calls[c].todo :
        /\ secrets' = [secrets EXCEPT ![i] = None]
        /\ Go(c, [calls[c] EXCEPT !.todo = @ \ {i}])
    /\ UNCHANGED <<vault, index, key, risked, mixed>> /\ Noted
WipeIndex(c) ==
    /\ At(c, "wipe", "each") /\ calls[c].todo = {} /\ index' = {}
    /\ Go(c, [calls[c] EXCEPT !.at = "vault"])
    /\ UNCHANGED <<vault, secrets, key, risked, mixed>> /\ Noted
\* Mutant: the key stays in memory.
WipeVaultOnly(c) ==
    /\ At(c, "wipe", "vault") /\ vault' = None /\ Ends(c)
    /\ UNCHANGED <<secrets, index, key, risked, mixed>> /\ Noted
WipeVault(c) ==
    /\ At(c, "wipe", "vault") /\ vault' = None /\ key' = None /\ Ends(c)
    /\ UNCHANGED <<secrets, index, risked, mixed>> /\ Noted

\* rekey(): reads every listed secret with the old key, seeds a vault, sets each again.
Rekey(c) ==
    /\ key # None
    /\ Begin(c, [Idle EXCEPT !.op = "rekey", !.at = "list"])
    /\ UNCHANGED <<vault, secrets, index, key>> /\ Noted
RekeyList(c) ==
    /\ At(c, "rekey", "list") /\ Go(c, [calls[c] EXCEPT !.at = "read", !.ids = index])
    /\ UNCHANGED <<vault, secrets, index, key, risked, mixed>> /\ Noted
\* get() of the next one: requires the key, and fails when the record has another.
RekeyRead(c) ==
    /\ At(c, "rekey", "read")
    /\ \E i \in calls[c].ids :
        Go(c, IF key = None \/ secrets[i] \notin {None, key} THEN Idle
              ELSE [calls[c] EXCEPT !.ids = @ \ {i},
                                    !.todo = IF secrets[i] = None THEN @ ELSE @ \cup {i}])
    /\ UNCHANGED <<vault, secrets, index, key, risked, mixed>> /\ Noted
RekeyTurn(c) ==
    /\ At(c, "rekey", "read") /\ calls[c].ids = {} /\ Go(c, [calls[c] EXCEPT !.at = "seed"])
    /\ UNCHANGED <<vault, secrets, index, key, risked, mixed>> /\ Noted
RekeySet(c) ==
    /\ At(c, "rekey", "rewrite")
    /\ \E i \in calls[c].todo :
        Go(c, IF key = None THEN Idle
              ELSE [calls[c] EXCEPT !.at = "store", !.id = i, !.key = key, !.todo = @ \ {i}])
    /\ UNCHANGED <<vault, secrets, index, key, risked, mixed>> /\ Noted

\* The page is closed: what is stored remains.
Close ==
    /\ closes < MaxCloses /\ closes' = closes + 1
    /\ key' = None /\ calls' = [c \in Calls |-> Idle]
    /\ risked' = (risked \/ \E c \in Calls : Seeds(c))
    /\ mixed' = (mixed \/ \E c \in Calls : calls[c].op \in Indexes)
    /\ UNCHANGED <<vault, secrets, index, seeded>>

Step(c) ==
    \/ UnlockRead(c) \/ \E right \in BOOLEAN : Unlocked(c, right)
    \/ SeedStore(c) \/ SeedDone(c) \/ SetStore(c) \/ AddRead(c) \/ AddSave(c)
    \/ ClearDel(c) \/ ClearRead(c) \/ ClearSave(c)
    \/ WipeList(c) \/ WipeEach(c) \/ WipeIndex(c) \/ WipeVault(c)
    \/ RekeyList(c) \/ RekeyRead(c) \/ RekeyTurn(c) \/ RekeySet(c)
Next ==
    \/ \E c \in Calls : \/ Unlock(c) \/ Wipe(c) \/ Rekey(c) \/ Step(c)
                        \/ \E i \in Ids : Set(c, i) \/ Clear(c, i)
    \/ Lock \/ Close
Spec == Init /\ [][Next]_vars

-----------------------------------------------------------------------------
Resealing == \E c \in Calls : calls[c].op \in Replaces
Writing == \E c \in Calls : calls[c].op \in Indexes

\* A stored secret can be read with the vault that is stored, whatever is unlocked,
\* set, cleared, locked and closed in between: only a new vault that meets another
\* operation or is cut short loses one, or a list of secrets that is not whole.
SecretsReadable == risked \/ mixed \/ Resealing \/ \A i \in Ids : secrets[i] \in {None, vault}

\* When nothing is under way the index lists what is stored, unless two writers of
\* the index met or one was cut short: an unlisted secret is neither rekeyed nor wiped.
IndexComplete == mixed \/ Writing \/ index = {i \in Ids : secrets[i] # None}

\* The key in memory is the vault's, or nothing, while no new vault is under way.
KeyIsTheVaults == risked \/ (\E c \in Calls : Seeds(c) \/ calls[c].at = "seeded")
                         \/ key \in {None, vault}

\* An inductive invariant. What a call holds in each stage of its operation;
Ats == {"-", "read", "verify", "seed", "seeded", "store", "index", "save", "del", "unlist",
        "unsave", "list", "each", "vault", "rewrite"}
IsCall(call) ==
    /\ call \in [op : Ops, at : Ats, id : Ids \cup {None}, key : Keys \cup {None},
                 ids : SUBSET Ids, todo : SUBSET Ids]
    /\ call.op = "idle" => call.at = "-"
    /\ call.op = "unlock" => call.at \in {"read", "verify", "seed", "seeded"}
    /\ call.op = "set" => call.at \in {"store", "index", "save"}
    /\ call.op = "clear" => call.at \in {"del", "unlist", "unsave"}
    /\ call.op = "wipe" => call.at \in {"list", "each", "vault"}
    /\ call.op = "rekey" => call.at \in {"list", "read", "seed", "seeded", "rewrite",
                                         "store", "index", "save"}
    /\ call.at \in {"store", "index", "save", "del", "unlist", "unsave"} => call.id \in Ids
    /\ call.at = "store" => call.key # None
Staged ==
    /\ calls \in [Calls -> [op : Ops, at : Ats, id : Ids \cup {None}, key : Keys \cup {None},
                            ids : SUBSET Ids, todo : SUBSET Ids]]
    /\ \A c \in Calls : IsCall(calls[c])
\* a call that replaces the vault is alone, unless that is noted, and so is a writer;
Alone == \A c, d \in Calls : c # d /\ Seeds(c) => ~UnderWay(d)
OneWriter == \A c, d \in Calls : c # d /\ calls[c].op \in Indexes => calls[d].op \notin Indexes
\* the keys that calls keep are the vault's, and so is the key in memory, but where the
\* new vault of rekey() waits for it;
CallKey(c) ==
    /\ calls[c].at \in {"verify", "seeded", "store"} => calls[c].key = vault
    /\ calls[c].op = "unlock" /\ calls[c].at = "seed" => vault = None
    /\ calls[c].op = "rekey" => vault # None /\ (calls[c].at # "seeded" => key = vault)
KeysAreTheVaults ==
    /\ key \in {None, vault} \/ \E c \in Calls : At(c, "rekey", "seeded")
    /\ \A c \in Calls : CallKey(c)
\* what is stored is what the index will list when its writer is done;
Kept == {i \in Ids : secrets[i] # None}
CallIndex(c) == calls[c].op \in Indexes =>
    /\ calls[c].at = "index" => Kept = index \cup {calls[c].id}
    /\ calls[c].at \in {"save", "unsave"} => Kept = calls[c].ids
    /\ calls[c].at = "unlist" => Kept = index \ {calls[c].id}
    /\ calls[c].at = "each" => Kept = calls[c].todo
    /\ calls[c].at = "vault" => Kept = {} /\ index = {}
    /\ calls[c].at \in {"store", "del", "list", "read", "seed", "seeded", "rewrite"} => Kept = index
    /\ calls[c].op = "rekey" => calls[c].todo \subseteq Kept
    /\ At(c, "rekey", "read") => Kept = calls[c].todo \cup calls[c].ids
    /\ At(c, "rekey", "seed") \/ At(c, "rekey", "seeded") => Kept = calls[c].todo
IndexWillBe == (Writing \/ index = Kept) /\ \A c \in Calls : CallIndex(c)
\* and what the new vault does not read, rekey() has yet to store again.
Owed(c) == IF calls[c].op # "rekey" THEN {}
           ELSE CASE calls[c].at \in {"seeded", "rewrite", "index", "save"} -> calls[c].todo
                  [] calls[c].at = "store" -> calls[c].todo \cup {calls[c].id}
                  [] OTHER -> {}
Readable == \A i \in Ids : secrets[i] \in {None, vault} \/ \E c \in Calls : i \in Owed(c)
Inv ==
    /\ TypeOK /\ Staged
    /\ risked \/ (Alone /\ KeysAreTheVaults)
    /\ mixed \/ (OneWriter /\ IndexWillBe)
    /\ risked \/ mixed \/ Readable
=============================================================================
