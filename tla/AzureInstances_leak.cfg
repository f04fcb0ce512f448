\* AllInstances after StartInstance into a legacy cloud service chosen
\* from the distribution group: AddRole succeeds, getInstance then fails,
\* and createInstance's deferred cleanup never runs.
CONSTANTS
    s1 = s1  s2 = s2  s3 = s3
    r1 = r1  r2 = r2  r3 = r3
    NoRole = NoRole
    NoService = NoService
    Service <- MC_Service
    Role <- MC_Role
SPECIFICATION Spec
SYMMETRY MC_Symmetry
INVARIANT AllInstancesSucceeds
CHECK_DEADLOCK FALSE
