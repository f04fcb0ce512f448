--------------------------- MODULE AzureInstances ---------------------------
(***************************************************************************)
(* Instance lifecycle of the Azure provider (src/unnamed/part_001):       *)
(* StartInstance / createInstance, getInstance and StopInstances, driven  *)
(* one call at a time by the provisioner.  Azure is the state: a cloud    *)
(* service holds deployments, the first of which holds roles (VMs).  A    *)
(* legacy service (deployment named after the service, deploymentNameV1) *)
(* is one instance whose id is the service name; a current one            *)
(* (deploymentNameV2) holds one instance per role, "<service>-<role>".    *)
(* Every Azure call may fail; each handler is one action whose outcome is *)
(* any of the results its calls and early returns can produce.            *)
(***************************************************************************)
EXTENDS Naturals, FiniteSets, SequencesExt

CONSTANTS
    Service,     \* cloud service names (gwacl.MakeRandomHostedServiceName)
    Role,        \* role names (gwacl.MakeRandomRoleName)
    NoRole,      \* the empty role of a legacy instance id
    NoService    \* no cloud service chosen from the distribution group

ASSUME NoRole \notin Role /\ NoService \notin Service

VARIABLES
    svc,       \* svc[s]: the cloud service s as Azure holds it
    known,     \* instance ids StartInstance returned and StopInstances has
               \* not yet stopped: the instances the provisioner knows
    lastStop,  \* the ids of this step's StopInstances call, if any
    roleUsed   \* role names made so far (random names never repeat)

vars == <<svc, known, lastStop, roleUsed>>

\* A cloud service: never created ("free"), existing ("live") or deleted
\* ("gone"; random service names never repeat), the name of its first
\* deployment (V1 legacy or V2), how many deployments it has, and the
\* roles of the first deployment.
Free == [state |-> "free", kind |-> "V2", deps |-> 0, roles |-> {}]
Gone == [Free EXCEPT !.state = "gone"]
ServiceRec == [state : {"free", "live", "gone"}, kind : {"V1", "V2"},
               deps : 0..2, roles : SUBSET Role]
InstanceId == [svc : Service, role : Role \cup {NoRole}]

TypeOK ==
    /\ svc \in [Service -> ServiceRec]
    /\ known \subseteq InstanceId
    /\ lastStop \in Seq(InstanceId)
    /\ roleUsed \subseteq Role

\* No instance: the result of a failed call.
NoInstance == [svc |-> NoService, role |-> NoRole]

Live(s) == svc[s].state = "live"

-----------------------------------------------------------------------------
(* getInstance                                                             *)

\* Mutant: the legacy case of the switch on the deployment name missing.
GetInstanceNoLegacyCase(rec, s, r) ==
    IF rec.deps # 1 THEN NoInstance ELSE [svc |-> s, role |-> r]

\* The instance id getInstance builds for role r of service s, or
\* NoInstance for its error: it expects exactly one deployment, and a
\* legacy deployment with exactly one role.
GetInstance(rec, s, r) ==
    CASE rec.deps # 1                                -> NoInstance
      [] rec.kind = "V1" /\ Cardinality(rec.roles) # 1 -> NoInstance
      [] rec.kind = "V1"                             -> [svc |-> s, role |-> NoRole]
      [] OTHER                                       -> [svc |-> s, role |-> r]

-----------------------------------------------------------------------------
(* createInstance                                                          *)

\* A failed call: nothing changed in Azure, nothing returned.
Failed(sv) == [svc |-> sv, id |-> NoInstance]

\* The deployment of a service that has none (newly created, or an empty
\* one chosen from the distribution group): AddDeployment, then
\* getInstance.  On failure the deferred DeleteHostedService removes the
\* service, unless that call fails too (its error is ignored).
FirstDeployment(sv, s, r) ==
    LET deployed == [sv EXCEPT ![s] = [state |-> "live", kind |-> "V2",
                                       deps |-> 1, roles |-> {r}]]
        id == GetInstance(deployed[s], s, r)
    IN  {Failed([sv EXCEPT ![s] = Gone]), Failed(sv)}
        \cup (IF id = NoInstance
              THEN {Failed([sv EXCEPT ![s] = Gone]), Failed(deployed)}
              ELSE {[svc |-> deployed, id |-> id]})

\* createInstance into an existing service s: GetHostedServiceProperties,
\* then a first deployment or AddRole on Deployments[0], then getInstance.
\* After AddRole the deferred cleanup tests a variable that is never
\* assigned, so a failing getInstance leaves the role behind.
CreateInExisting(s, r) ==
    IF ~Live(s)
    THEN {Failed(svc)}
    ELSE {Failed(svc)}
         \cup (IF svc[s].deps = 0
               THEN FirstDeployment(svc, s, r)
               ELSE LET added == [svc EXCEPT ![s].roles = @ \cup {r}]
                        id == GetInstance(added[s], s, r)
                    IN  {Failed(svc)}
                        \cup {IF id = NoInstance THEN Failed(added)
                              ELSE [svc |-> added, id |-> id]})

\* newHostedService: up to ten random names are tried; a name found
\* available is created with AddHostedService.  It fails when no free name
\* turns up or AddHostedService fails; a failing
\* GetHostedServiceProperties after it leaves the new service behind, as
\* the deletion is only deferred once the service is returned.
CreateInNew(r) ==
    {Failed(svc)}
    \cup UNION {LET created == [svc EXCEPT ![s] = [Free EXCEPT !.state = "live"]]
                IN  {Failed(created)} \cup FirstDeployment(created, s, r) :
                    s \in {x \in Service : svc[x].state = "free"}}

\* Mutant: createInstance's result recorded without checking its error.
StartInstanceNoErrCheck(choice, r) ==
    /\ r \notin roleUsed
    /\ roleUsed' = roleUsed \cup {r}
    /\ \E o \in IF choice = NoService THEN CreateInNew(r)
                ELSE CreateInExisting(choice, r) :
          /\ svc' = o.svc
          /\ known' = known \cup {o.id}
    /\ lastStop' = <<>>

\* StartInstance: the cloud service is the service of the first instance
\* of the distribution group, or a new one; newRole makes a new role name.
\* Its early returns before createInstance change nothing.
StartInstance(choice, r) ==
    /\ r \notin roleUsed
    /\ roleUsed' = roleUsed \cup {r}
    /\ \E o \in IF choice = NoService THEN CreateInNew(r)
                ELSE CreateInExisting(choice, r) :
          /\ svc' = o.svc
          /\ known' = IF o.id = NoInstance THEN known ELSE known \cup {o.id}
    /\ lastStop' = <<>>

-----------------------------------------------------------------------------
(* AllInstances                                                            *)

\* AllInstances fails as a whole when getInstance fails for any role of a
\* live service with exactly one deployment.
AllInstancesOK(sv) ==
    \A s \in Service :
        sv[s].state = "live" /\ sv[s].deps = 1 =>
            \A r \in sv[s].roles : GetInstance(sv[s], s, r) # NoInstance

-----------------------------------------------------------------------------
(* StopInstances                                                           *)

\* The first loop of StopInstances, one id at a time: the service names
\* in first-seen order, and per service the set of roles to delete.  A
\* legacy id (no role) sets its service's entry to nil; a role id of a
\* service whose entry is nil adds to a nil map, which panics.
PlanStep(plan, id) ==
    CASE id.role = NoRole ->
            [plan EXCEPT !.names = Append(@, id.svc),
                         !.seen = @ \cup {id.svc}, !.nil = @ \cup {id.svc}]
      [] id.svc \in plan.nil -> [plan EXCEPT !.panic = TRUE]
      [] OTHER ->
            [plan EXCEPT !.names = IF id.svc \in plan.seen THEN @
                                   ELSE Append(@, id.svc),
                         !.seen = @ \cup {id.svc},
                         !.del[id.svc] = @ \cup {id.role}]

StopPlan(ids) ==
    FoldLeft(PlanStep, [names |-> <<>>, seen |-> {}, nil |-> {},
                        del |-> [s \in Service |-> {}], panic |-> FALSE], ids)

\* Mutant: the requested roles not filtered against the deployment's.
RECURSIVE StopLoopUnfiltered(_, _, _)
StopLoopUnfiltered(plan, i, sv) ==
    IF i > Len(plan.names) THEN {[svc |-> sv, err |-> FALSE]}
    ELSE
    LET n == plan.names[i]
        rec == sv[n]
        del == plan.del[n]
    IN  {[svc |-> sv, err |-> TRUE]}
        \cup CASE rec.state # "live" -> {}
              [] rec.deps # 1 -> StopLoopUnfiltered(plan, i + 1, sv)
              [] n \in plan.nil \/ Cardinality(del) = Cardinality(rec.roles) ->
                    StopLoopUnfiltered(plan, i + 1, [sv EXCEPT ![n] = Gone])
              [] OTHER ->
                    {[svc |-> [sv EXCEPT ![n].roles = @ \ part], err |-> TRUE] :
                        part \in SUBSET del \ {del}}
                    \cup StopLoopUnfiltered(plan, i + 1, [sv EXCEPT ![n].roles = @ \ del])

\* The second loop, from the i-th service name on: the services Azure may
\* be left with and whether an error ended the loop.  Each call may
\* fail; the roles of a service are deleted in map order, so a failing
\* DeleteRole may come after any proper subset of them.
RECURSIVE StopLoop(_, _, _)
StopLoop(plan, i, sv) ==
    IF i > Len(plan.names) THEN {[svc |-> sv, err |-> FALSE]}
    ELSE
    LET n == plan.names[i]
        rec == sv[n]
        \* the requested roles that the deployment still has
        del == plan.del[n] \cap rec.roles
    IN  {[svc |-> sv, err |-> TRUE]}
        \cup CASE rec.state # "live" -> {}
              [] rec.deps # 1 -> StopLoop(plan, i + 1, sv)
              [] n \in plan.nil \/ Cardinality(del) = Cardinality(rec.roles) ->
                    StopLoop(plan, i + 1, [sv EXCEPT ![n] = Gone])
              [] OTHER ->
                    {[svc |-> [sv EXCEPT ![n].roles = @ \ part], err |-> TRUE] :
                        part \in SUBSET del \ {del}}
                    \cup StopLoop(plan, i + 1, [sv EXCEPT ![n].roles = @ \ del])

\* StopInstances: on success the provisioner forgets the ids; on an error
\* it keeps them and may call again.  A panic changes nothing in Azure.
StopInstances(ids) ==
    /\ lastStop' = ids
    /\ LET plan == StopPlan(ids) IN
       IF plan.panic THEN UNCHANGED <<svc, known>>
       ELSE \E o \in StopLoop(plan, 1, svc) :
              /\ svc' = o.svc
              /\ known' = IF o.err THEN known ELSE known \ ToSet(ids)
    /\ UNCHANGED roleUsed

-----------------------------------------------------------------------------

\* Role r0 lives in service s0, deployed by this provider (V2) or by the
\* original one (V1), and the provisioner knows its instance.
Init ==
    \E s0 \in Service, r0 \in Role, kind \in {"V1", "V2"} :
        /\ svc = [s \in Service |->
                    IF s = s0 THEN [state |-> "live", kind |-> kind,
                                    deps |-> 1, roles |-> {r0}]
                    ELSE Free]
        /\ known = {[svc |-> s0, role |-> IF kind = "V1" THEN NoRole ELSE r0]}
        /\ lastStop = <<>>
        /\ roleUsed = {r0}

\* The ids of one StopInstances call: one or two instances the
\* provisioner knows.
StopRequests == {<<x>> : x \in known} \cup {<<x, y>> : x, y \in known}

Next ==
    \/ \E r \in Role, choice \in {NoService} \cup {id.svc : id \in known} :
          StartInstance(choice, r)
    \/ \E ids \in StopRequests : StopInstances(ids)

Spec == Init /\ [][Next]_vars

-----------------------------------------------------------------------------
(* Properties                                                              *)

\* StopInstances never adds a role to a nil map: no two instances the
\* provisioner knows are a legacy instance and a role instance of the same
\* cloud service, since getInstance only returns a legacy id for a
\* legacy deployment and createInstance never deploys one.
NoNilMapWrite ==
    \A x, y \in known : ~StopPlan(<<x, y>>).panic

\* A role disappears from Azure only when StopInstances was asked for it,
\* directly or through its legacy instance: the filtering of requested
\* roles that no longer exist keeps a stale id from making StopInstances
\* delete a whole cloud service that still has other roles.
RolesRemovedOnlyWhenRequested ==
    [][\A s \in Service : \A r \in svc[s].roles \ svc'[s].roles :
          \E id \in ToSet(lastStop') : id.svc = s /\ id.role \in {r, NoRole}]_vars

\* AllInstances keeps working: every role of a one-deployment service
\* yields an instance.  createInstance's deferred cleanup is meant to
\* remove a role it added when getInstance then fails.
AllInstancesSucceeds == AllInstancesOK(svc)


\* No cloud service is orphaned: every live service of the environment
\* holds an instance the provisioner knows.  createInstance defers the
\* deletion of a new service only once newHostedService has returned it
\* (so a failing GetHostedServiceProperties after AddHostedService is
\* never cleaned up), and ignores the error of that deferred deletion.
NoOrphanCloudService ==
    \A s \in Service : Live(s) => \E id \in known : id.svc = s

=============================================================================
