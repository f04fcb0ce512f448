--------------------------- MODULE AzureArchCache ----------------------------
(***************************************************************************)
(* The Azure environ's cache of supported architectures                   *)
(* (SupportedArchitectures, src/unnamed/part_001), filled on first use    *)
(* under archMutex from the image metadata of the configuration's region  *)
(* and image stream, next to SetConfig, which installs a new              *)
(* configuration under the environ's own lock.                            *)
(*                                                                         *)
(* The architectures found for a configuration are identified with its   *)
(* image stream: two configurations differ here only by their stream.    *)
(* Whether the provider's Validate (not in src/) lets a reconfiguration   *)
(* change the stream is left open: SetConfig may install any stream.      *)
(***************************************************************************)
EXTENDS Naturals, Sequences

CONSTANTS
    Stream,       \* image streams a configuration may name
    Caller,       \* goroutines calling SupportedArchitectures
    Nil,          \* the nil slice: nothing cached
    Err,          \* the error common.SupportedArchitectures may return
    NoCaller,     \* archMutex is free
    MaxConfigs    \* bound on the configurations SetConfig installs

ASSUME {Nil, Err} \cap Stream = {} /\ NoCaller \notin Caller
ASSUME MaxConfigs \in Nat \ {0}

VARIABLES
    configs,                 \* configs[n]: image stream of the n-th configuration
    ecfg,                    \* env.ecfg: number of the current configuration
    supportedArchitectures,  \* env.supportedArchitectures
    archMutex,               \* the caller holding env.archMutex
    apc,                     \* caller's position: "idle" | "querying" | "done"
    snap,                    \* caller's snapshot of ecfg
    ret,                     \* what the caller's last call returned
    during                   \* configurations current during the caller's call

vars == <<configs, ecfg, supportedArchitectures, archMutex, apc, snap, ret,
          during>>

-----------------------------------------------------------------------------

\* NewEnviron: one configuration, nothing cached.
Init ==
    /\ configs \in {<<s>> : s \in Stream}
    /\ ecfg = 1
    /\ supportedArchitectures = Nil
    /\ archMutex = NoCaller
    /\ apc = [t \in Caller |-> "idle"]
    /\ snap = [t \in Caller |-> 1]
    /\ ret = [t \in Caller |-> Nil]
    /\ during = [t \in Caller |-> {}]

\* SetConfig: under the environ's lock, install the new configuration; the
\* storage key is reset, supportedArchitectures is not.
SetConfig(s) ==
    /\ Len(configs) < MaxConfigs
    /\ configs' = Append(configs, s)
    /\ ecfg' = Len(configs) + 1
    /\ during' = [t \in Caller |->
                    IF apc[t] = "querying" THEN during[t] \cup {Len(configs) + 1}
                    ELSE during[t]]
    /\ UNCHANGED <<supportedArchitectures, archMutex, apc, snap, ret>>

\* Mutant: the cache checked without taking archMutex.
SupportedArchitecturesNoLock(t) ==
    /\ apc[t] \in {"idle", "done"}
    /\ during' = [during EXCEPT ![t] = {ecfg}]
    /\ IF supportedArchitectures # Nil
       THEN /\ ret' = [ret EXCEPT ![t] = supportedArchitectures]
            /\ apc' = [apc EXCEPT ![t] = "done"]
            /\ UNCHANGED snap
       ELSE /\ snap' = [snap EXCEPT ![t] = ecfg]
            /\ apc' = [apc EXCEPT ![t] = "querying"]
            /\ UNCHANGED ret
    /\ UNCHANGED <<configs, ecfg, supportedArchitectures, archMutex>>

\* SupportedArchitectures, up to the query: take archMutex; a cached
\* answer is returned at once (and the deferred Unlock runs); otherwise
\* take a snapshot of the configuration and keep the lock for the query.
SupportedArchitectures(t) ==
    /\ apc[t] \in {"idle", "done"}
    /\ archMutex = NoCaller
    /\ during' = [during EXCEPT ![t] = {ecfg}]
    /\ IF supportedArchitectures # Nil
       THEN /\ ret' = [ret EXCEPT ![t] = supportedArchitectures]
            /\ apc' = [apc EXCEPT ![t] = "done"]
            /\ UNCHANGED <<snap, archMutex>>
       ELSE /\ snap' = [snap EXCEPT ![t] = ecfg]
            /\ apc' = [apc EXCEPT ![t] = "querying"]
            /\ archMutex' = t
            /\ UNCHANGED ret
    /\ UNCHANGED <<configs, ecfg, supportedArchitectures>>

\* common.SupportedArchitectures for the snapshot's region and stream; its
\* result, nil on error, is stored in the cache and returned, and the
\* lock is released.
QuerySupportedArchitectures(t) ==
    /\ apc[t] = "querying"
    /\ \E r \in {configs[snap[t]], Err} :
          /\ supportedArchitectures' = IF r = Err THEN Nil ELSE r
          /\ ret' = [ret EXCEPT ![t] = r]
    /\ apc' = [apc EXCEPT ![t] = "done"]
    /\ archMutex' = IF archMutex = t THEN NoCaller ELSE archMutex
    /\ UNCHANGED <<configs, ecfg, snap, during>>

Next ==
    \/ \E s \in Stream : SetConfig(s)
    \/ \E t \in Caller :
          \/ SupportedArchitectures(t)
          \/ QuerySupportedArchitectures(t)

Spec == Init /\ [][Next]_vars

-----------------------------------------------------------------------------
(* Properties                                                              *)

\* Once SupportedArchitectures has cached an answer, no later step replaces
\* it: archMutex, held across the check and the query, lets only one
\* caller fill the cache, even when a reconfiguration comes between two
\* callers' snapshots.
CacheFilledOnce ==
    [][supportedArchitectures # Nil =>
         supportedArchitectures' = supportedArchitectures]_vars

\* Every answer SupportedArchitectures returns is the architectures of a
\* configuration that was current during the call, as SetConfig's reset
\* of the storage key does for the key ("it may not be appropriate for the
\* new config").
ReturnsCurrentArchitectures ==
    \A t \in Caller :
        apc[t] = "done" /\ ret[t] # Err =>
            ret[t] \in {configs[n] : n \in during[t]}

=============================================================================
