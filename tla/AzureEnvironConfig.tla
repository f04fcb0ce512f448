------------------------- MODULE AzureEnvironConfig -------------------------
(***************************************************************************)
(* The Azure environ's configuration and its cached storage-account key   *)
(* (src/unnamed/part_001).  Every field of azureEnviron is read through a *)
(* locked shallow copy (getSnapshot) or written under the lock            *)
(* (SetConfig).  getStorageContext fills the key on demand with an        *)
(* optimistic read-copy-update: snapshot, query Azure without the lock,   *)
(* then, under the lock, write the key back only if the configuration is *)
(* still the one snapshotted.                                              *)
(*                                                                         *)
(* A configuration is a pointer: SetConfig always installs a new one      *)
(* (newConfig), so configurations are numbered and compared by number.   *)
(* Only the storage account name of a configuration matters here, and a  *)
(* key is identified with the account it belongs to.                      *)
(***************************************************************************)
EXTENDS Naturals, Sequences

CONSTANTS
    Account,      \* storage account names a configuration may carry
    Caller,       \* goroutines calling getStorageContext
    NoKey,        \* the empty key ""
    MaxConfigs    \* bound on the configurations SetConfig installs

ASSUME NoKey \notin Account /\ MaxConfigs \in Nat \ {0}

VARIABLES
    configs,            \* configs[n]: account of the n-th configuration
    ecfg,               \* env.ecfg: number of the current configuration
    storageAccountKey,  \* env.storageAccountKey
    pc,                 \* caller's position in getStorageContext
    snap,               \* caller's snapshot: [cfg, key]
    queried,            \* the key queryStorageAccountKey returned
    ctx                 \* the StorageContext returned: [account, key]

vars == <<configs, ecfg, storageAccountKey, pc, snap, queried, ctx>>

Key == Account \cup {NoKey}
\* A StorageContext always carries a non-empty key.
Ctx   == [account : Account, key : Account]
NoCtx == [account |-> NoKey, key |-> NoKey]

TypeOK ==
    /\ configs \in Seq(Account) /\ Len(configs) \in 1..MaxConfigs
    /\ ecfg \in 1..Len(configs)
    /\ storageAccountKey \in Key
    /\ pc \in [Caller -> {"idle", "snapped", "queried", "done"}]
    /\ snap \in [Caller -> [cfg : 1..Len(configs), key : Key]]
    /\ queried \in [Caller -> Key]
    /\ ctx \in [Caller -> Ctx \cup {NoCtx}]

-----------------------------------------------------------------------------

\* NewEnviron: SetConfig on a fresh environ, so no key yet.
Init ==
    /\ configs \in {<<acc>> : acc \in Account}
    /\ ecfg = 1
    /\ storageAccountKey = NoKey
    /\ pc = [t \in Caller |-> "idle"]
    /\ snap = [t \in Caller |-> [cfg |-> 1, key |-> NoKey]]
    /\ queried = [t \in Caller |-> NoKey]
    /\ ctx = [t \in Caller |-> NoCtx]

\* The account of the configuration numbered n (ecfg.storageAccountName()).
StorageAccountName(n) == configs[n]

\* Mutant: the key kept across a reconfiguration.
SetConfigKeepKey(acc) ==
    /\ Len(configs) < MaxConfigs
    /\ configs' = Append(configs, acc)
    /\ ecfg' = Len(configs) + 1
    /\ UNCHANGED <<storageAccountKey, pc, snap, queried, ctx>>

\* SetConfig: under the lock, install the new configuration and reset the
\* key, which may not be appropriate for it.
SetConfig(acc) ==
    /\ Len(configs) < MaxConfigs
    /\ configs' = Append(configs, acc)
    /\ ecfg' = Len(configs) + 1
    /\ storageAccountKey' = NoKey
    /\ UNCHANGED <<pc, snap, queried, ctx>>

\* getStorageContext, first part: take a snapshot.  With a key in it the
\* context is built from the snapshot at once; without one the key must
\* be fetched (updateStorageAccountKey).
GetStorageContext(t) ==
    /\ pc[t] \in {"idle", "done"}
    /\ snap' = [snap EXCEPT ![t] = [cfg |-> ecfg, key |-> storageAccountKey]]
    /\ IF storageAccountKey # NoKey
       THEN /\ pc' = [pc EXCEPT ![t] = "done"]
            /\ ctx' = [ctx EXCEPT ![t] = [account |-> StorageAccountName(ecfg),
                                          key     |-> storageAccountKey]]
       ELSE /\ pc' = [pc EXCEPT ![t] = "snapped"]
            /\ ctx' = [ctx EXCEPT ![t] = NoCtx]
    /\ UNCHANGED <<configs, ecfg, storageAccountKey, queried>>

\* extractStorageKey: the primary key, or else the secondary one.
ExtractStorageKey(keys) ==
    IF keys.primary # NoKey THEN keys.primary ELSE keys.secondary

\* Mutant: the "no keys available" check dropped.
QueryStorageAccountKeyNoEmptyCheck(t) ==
    /\ pc[t] = "snapped"
    /\ \E keys \in [primary : {StorageAccountName(ecfg), NoKey},
                    secondary : {StorageAccountName(ecfg), NoKey}] :
          /\ pc' = [pc EXCEPT ![t] = "queried"]
          /\ queried' = [queried EXCEPT ![t] = ExtractStorageKey(keys)]
    /\ UNCHANGED <<configs, ecfg, storageAccountKey, snap, ctx>>

\* queryStorageAccountKey: reads the account name from a fresh snapshot,
\* not the caller's, asks Azure for its keys, and fails when Azure fails
\* or the account has no key.
QueryStorageAccountKey(t) ==
    /\ pc[t] = "snapped"
    /\ \/ \E keys \in [primary : {StorageAccountName(ecfg), NoKey},
                       secondary : {StorageAccountName(ecfg), NoKey}] :
             /\ ExtractStorageKey(keys) # NoKey
             /\ pc' = [pc EXCEPT ![t] = "queried"]
             /\ queried' = [queried EXCEPT ![t] = ExtractStorageKey(keys)]
       \/ /\ pc' = [pc EXCEPT ![t] = "idle"]
          /\ UNCHANGED queried
    /\ UNCHANGED <<configs, ecfg, storageAccountKey, snap, ctx>>

\* Mutant: the write-back without the conflict check.
UpdateStorageAccountKeyNoCheck(t) ==
    /\ pc[t] = "queried"
    /\ storageAccountKey' = queried[t]
    /\ pc' = [pc EXCEPT ![t] = "done"]
    /\ ctx' = [ctx EXCEPT ![t] = [account |-> StorageAccountName(snap[t].cfg),
                                  key     |-> queried[t]]]
    /\ UNCHANGED <<configs, ecfg, snap, queried>>

\* updateStorageAccountKey's critical section: if the environment was
\* reconfigured since the snapshot, fail; otherwise cache the key, and
\* getStorageContext builds its context from the snapshot's account.
UpdateStorageAccountKey(t) ==
    /\ pc[t] = "queried"
    /\ \/ /\ ecfg # snap[t].cfg
          /\ pc' = [pc EXCEPT ![t] = "idle"]
          /\ UNCHANGED <<storageAccountKey, ctx>>
       \/ /\ ecfg = snap[t].cfg
          /\ storageAccountKey' = queried[t]
          /\ pc' = [pc EXCEPT ![t] = "done"]
          /\ ctx' = [ctx EXCEPT ![t] =
                       [account |-> StorageAccountName(snap[t].cfg),
                        key     |-> queried[t]]]
    /\ UNCHANGED <<configs, ecfg, snap, queried>>

Next ==
    \/ \E acc \in Account : SetConfig(acc)
    \/ \E t \in Caller :
          \/ GetStorageContext(t)
          \/ QueryStorageAccountKey(t)
          \/ UpdateStorageAccountKey(t)

Spec == Init /\ [][Next]_vars

-----------------------------------------------------------------------------
(* Properties                                                              *)

\* The cached key always belongs to the current configuration's account:
\* SetConfig resets it, and a key fetched under an older configuration is
\* never written back after a reconfiguration.
CachedKeyMatchesConfig ==
    storageAccountKey \in {NoKey, StorageAccountName(ecfg)}

\* Every StorageContext getStorageContext returns pairs an account with
\* that account's key, even though the account it queries is read from a
\* later snapshot than the account it returns.
ContextKeyMatchesAccount ==
    \A t \in Caller : pc[t] = "done" => ctx[t].key = ctx[t].account

=============================================================================
