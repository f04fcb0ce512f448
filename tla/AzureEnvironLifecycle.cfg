\* Bootstrap and Destroy, repeated, with the provisioner creating two
\* services; two attempts of deleteVirtualNetwork stand for the thirty of
\* deleteVnetAttempt (what matters is that an in-use network can outlast
\* them, and that a retry can succeed once Azure releases it).
CONSTANTS
    ss = ss  n1 = n1  n2 = n2
    Service <- MC_Service
    StateServer = ss
    MaxAttempts <- MC_MaxAttempts
SPECIFICATION Spec
INVARIANT StorageRemovedAfterListedServices
PROPERTY CommandsReturn
