\* StartInstance and StopInstances against Azure with failing calls:
\* three cloud services and three roles, so a service can hold two roles
\* next to a legacy or current one, and a stop can leave a stale id.
CONSTANTS
    s1 = s1  s2 = s2  s3 = s3
    r1 = r1  r2 = r2  r3 = r3
    NoRole = NoRole
    NoService = NoService
    Service <- MC_Service
    Role <- MC_Role
SPECIFICATION Spec
SYMMETRY MC_Symmetry
INVARIANT TypeOK NoNilMapWrite
PROPERTY RolesRemovedOnlyWhenRequested
CHECK_DEADLOCK FALSE
