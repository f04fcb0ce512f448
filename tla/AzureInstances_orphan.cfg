\* StartInstance into a new cloud service whose creation or first
\* deployment fails part way, with every Azure call allowed to fail.
CONSTANTS
    s1 = s1  s2 = s2  s3 = s3
    r1 = r1  r2 = r2  r3 = r3
    NoRole = NoRole
    NoService = NoService
    Service <- MC_Service
    Role <- MC_Role
SPECIFICATION Spec
SYMMETRY MC_Symmetry
INVARIANT NoOrphanCloudService
CHECK_DEADLOCK FALSE
