----------------------- MODULE AzureEnvironLifecycle ------------------------
(***************************************************************************)
(* Bootstrap and Destroy of an Azure environment (src/unnamed/part_001),  *)
(* each run by the client one Azure call at a time, against the state     *)
(* server's provisioner, which keeps creating cloud services while the    *)
(* environment is up.  Azure is the state: the environment's affinity     *)
(* group, virtual network, cloud services and the storage that marks it   *)
(* bootstrapped.  Azure refuses to delete a network in use (by services,  *)
(* or for a while after they are deleted) and an affinity group that      *)
(* still holds a network or services; any call may also fail outright.    *)
(***************************************************************************)
EXTENDS Naturals

CONSTANTS
    Service,       \* cloud service names of the environment
    StateServer,   \* the service Bootstrap's state server instance lives in
    MaxAttempts    \* attempts of deleteVnetAttempt (30s total, 1s delay)

ASSUME StateServer \in Service /\ MaxAttempts \in Nat \ {0}

VARIABLES
    ag,         \* the affinity group exists
    vnet,       \* the virtual network exists
    services,   \* the environment's cloud services
    lag,        \* Azure still holds references to the network
    stored,     \* the environment's storage holds its bootstrap state
    used,       \* service names the provisioner has used
    op,         \* the client command running: "idle" | "bootstrap" | "destroy"
    step,       \* the position in it
    listed,     \* Destroy: the listed services not yet deleted
    snapshot,   \* Destroy: every service it listed
    attempts,   \* deleteVirtualNetwork: attempts made
    last        \* the outcome of the last command: [op, ok]

azureVars  == <<ag, vnet, services, lag, stored>>
clientVars == <<op, step, listed, snapshot, attempts, last>>
vars       == <<azureVars, used, clientVars>>

InUse == services # {} \/ lag

\* A command returns: the client is idle again with its outcome.
Return(ok) ==
    /\ last' = [op |-> op, ok |-> ok]
    /\ op' = "idle" /\ step' = "none"

-----------------------------------------------------------------------------
(* Bootstrap                                                               *)

\* createAffinityGroup: a conflict (the group exists) is tolerated.
BootstrapCreateAffinityGroup ==
    /\ op = "idle"
    /\ \/ /\ ag' = TRUE
          /\ op' = "bootstrap" /\ step' = "vnet"
          /\ UNCHANGED last
       \/ /\ last' = [op |-> "bootstrap", ok |-> FALSE]
          /\ UNCHANGED <<ag, op, step>>
    /\ UNCHANGED <<vnet, services, lag, stored, used, listed, snapshot, attempts>>

\* createVirtualNetwork: "already exists" is tolerated; any other error
\* returns, and the deferred deleteAffinityGroup runs.
BootstrapCreateVirtualNetwork ==
    /\ op = "bootstrap" /\ step = "vnet"
    /\ \/ /\ vnet' = TRUE
          /\ step' = "common"
       \/ /\ step' = "cleanAg"
          /\ UNCHANGED vnet
    /\ UNCHANGED <<ag, services, lag, stored, used, op, listed, snapshot,
                   attempts, last>>

\* common.Bootstrap: refuses an environment whose storage says it is
\* bootstrapped, may fail, or starts the state server and records it.
\* On error the deferred deleteVirtualNetwork, then deleteAffinityGroup,
\* run.
CommonBootstrap ==
    /\ op = "bootstrap" /\ step = "common"
    /\ \/ /\ ~stored
          /\ services' = services \cup {StateServer}
          /\ stored' = TRUE
          /\ Return(TRUE)
          /\ UNCHANGED attempts
       \/ /\ step' = "cleanVnet" /\ attempts' = 0
          /\ UNCHANGED <<services, stored, op, last>>
    /\ UNCHANGED <<ag, vnet, lag, used, listed, snapshot>>

-----------------------------------------------------------------------------
(* deleteVirtualNetwork and deleteAffinityGroup, for both commands         *)

\* Where each command goes after deleting the network and the group.
AfterVnet == IF op = "bootstrap" THEN "cleanAg" ELSE "ag"

\* Mutant: the attempt strategy started afresh on every "in use".
DeleteVirtualNetworkRestartAttempts ==
    /\ step \in {"cleanVnet", "vnet"}
    /\ \/ /\ vnet /\ ~InUse
          /\ vnet' = FALSE
          /\ step' = AfterVnet
          /\ UNCHANGED attempts
       \/ /\ step' = AfterVnet
          /\ UNCHANGED <<vnet, attempts>>
       \/ /\ vnet /\ InUse
          /\ attempts' = (attempts + 1) % MaxAttempts
          /\ UNCHANGED <<vnet, step>>
    /\ UNCHANGED <<ag, services, lag, stored, used, op, listed, snapshot, last>>

\* One RemoveVirtualNetworkSite: "in use" is retried until the attempts
\* run out; success or any other error ends the loop.
DeleteVirtualNetwork ==
    /\ step \in {"cleanVnet", "vnet"}
    /\ \/ /\ vnet /\ ~InUse
          /\ vnet' = FALSE
          /\ step' = AfterVnet
          /\ UNCHANGED attempts
       \/ /\ step' = AfterVnet
          /\ UNCHANGED <<vnet, attempts>>
       \/ /\ vnet /\ InUse
          /\ IF attempts + 1 < MaxAttempts
             THEN attempts' = attempts + 1 /\ UNCHANGED step
             ELSE step' = AfterVnet /\ UNCHANGED attempts
          /\ UNCHANGED vnet
    /\ UNCHANGED <<ag, services, lag, stored, used, op, listed, snapshot, last>>

\* DeleteAffinityGroup: Azure refuses while the group holds anything.
\* Bootstrap returns its error afterwards; Destroy only warns.
DeleteAffinityGroup ==
    /\ step \in {"cleanAg", "ag"}
    /\ \/ /\ ag /\ ~vnet /\ services = {}
          /\ ag' = FALSE
       \/ UNCHANGED ag
    /\ IF op = "bootstrap" THEN Return(FALSE)
       ELSE step' = "storage" /\ UNCHANGED <<op, last>>
    /\ UNCHANGED <<vnet, services, lag, stored, used, listed, snapshot, attempts>>

-----------------------------------------------------------------------------
(* Destroy                                                                 *)

\* destroyAllServices, first call: ListPrefixedHostedServices.
DestroyListServices ==
    /\ op = "idle"
    /\ \/ /\ op' = "destroy"
          /\ listed' = services /\ snapshot' = services
          /\ step' = IF services = {} THEN "vnet" ELSE "services"
          /\ attempts' = 0
          /\ UNCHANGED last
       \/ /\ last' = [op |-> "destroy", ok |-> FALSE]
          /\ UNCHANGED <<op, step, listed, snapshot, attempts>>
    /\ UNCHANGED <<azureVars, used>>

\* Mutant: a failing DeleteHostedService only logged.
DestroyDeleteServiceIgnoreError ==
    /\ op = "destroy" /\ step = "services"
    /\ \E s \in listed :
          /\ \/ /\ s \in services
                /\ services' = services \ {s} /\ lag' = TRUE
             \/ UNCHANGED <<services, lag>>
          /\ listed' = listed \ {s}
          /\ step' = IF listed = {s} THEN "vnet" ELSE "services"
          /\ UNCHANGED <<op, last>>
    /\ UNCHANGED <<ag, vnet, stored, used, snapshot, attempts>>

\* destroyAllServices, then: DeleteHostedService for each listed service
\* in turn; the first error is Destroy's ("cannot destroy instances").
\* Deleting a service that is already gone fails.
DestroyDeleteService ==
    /\ op = "destroy" /\ step = "services"
    /\ \E s \in listed :
          \/ /\ s \in services
             /\ services' = services \ {s} /\ lag' = TRUE
             /\ listed' = listed \ {s}
             /\ step' = IF listed = {s} THEN "vnet" ELSE "services"
             /\ UNCHANGED <<op, last>>
          \/ /\ Return(FALSE)
             /\ UNCHANGED <<services, lag, listed>>
    /\ UNCHANGED <<ag, vnet, stored, used, snapshot, attempts>>

\* Storage().RemoveAll, last, so that a Destroy failing half way leaves
\* the environment marked bootstrapped.
DestroyRemoveStorage ==
    /\ op = "destroy" /\ step = "storage"
    /\ \/ stored' = FALSE /\ Return(TRUE)
       \/ Return(FALSE) /\ UNCHANGED stored
    /\ UNCHANGED <<ag, vnet, services, lag, used, listed, snapshot, attempts>>

-----------------------------------------------------------------------------
(* The other actors                                                        *)

\* The provisioner, running on the state server of a bootstrapped
\* environment, starts an instance in a new cloud service.
Provision(s) ==
    /\ stored /\ StateServer \in services
    /\ s # StateServer /\ s \notin used
    /\ services' = services \cup {s}
    /\ used' = used \cup {s}
    /\ UNCHANGED <<ag, vnet, lag, stored, clientVars>>

\* Azure releases its last references to the network.
ReleaseNetwork ==
    /\ lag /\ services = {}
    /\ lag' = FALSE
    /\ UNCHANGED <<ag, vnet, services, stored, used, clientVars>>

Init ==
    /\ ag = FALSE /\ vnet = FALSE /\ services = {} /\ lag = FALSE
    /\ stored = FALSE /\ used = {}
    /\ op = "idle" /\ step = "none"
    /\ listed = {} /\ snapshot = {} /\ attempts = 0
    /\ last = [op |-> "idle", ok |-> TRUE]

BootstrapStep ==
    BootstrapCreateAffinityGroup \/ BootstrapCreateVirtualNetwork \/ CommonBootstrap
DestroyStep ==
    DestroyListServices \/ DestroyDeleteService \/ DestroyRemoveStorage
ClientStep == BootstrapStep \/ DestroyStep \/ DeleteVirtualNetwork \/ DeleteAffinityGroup

Next ==
    \/ ClientStep
    \/ \E s \in Service : Provision(s)
    \/ ReleaseNetwork

\* The client process runs each command to its end; starting a new
\* command is the user's choice, so only the steps of a running command
\* are weakly fair.
Running == op # "idle" /\ ClientStep
Spec == Init /\ [][Next]_vars /\ WF_vars(Running)

-----------------------------------------------------------------------------
(* Properties                                                              *)

\* A Destroy that removed the storage and returned success has deleted
\* every service it listed, whichever calls failed on the way: a Destroy
\* failing half way returns before RemoveAll and leaves the environment
\* marked bootstrapped (the comment on Storage().RemoveAll).
StorageRemovedAfterListedServices ==
    op = "idle" /\ last = [op |-> "destroy", ok |-> TRUE]
        => ~stored /\ snapshot \cap services = {}

\* Every Bootstrap and Destroy returns: deleteVirtualNetwork gives up on a
\* network that stays in use once its attempts run out.
CommandsReturn == op # "idle" ~> op = "idle"

\* A Destroy that returns success leaves no cloud service of the
\* environment (destroyAllServices: "destroys all Cloud Services").
DestroyLeavesNoService ==
    op = "idle" /\ last = [op |-> "destroy", ok |-> TRUE] => services = {}

=============================================================================
