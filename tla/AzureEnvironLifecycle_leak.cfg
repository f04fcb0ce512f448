\* Destroy while the provisioner on the state server is still creating
\* services: a service created after ListPrefixedHostedServices.
CONSTANTS
    ss = ss  n1 = n1  n2 = n2
    Service <- MC_Service
    StateServer = ss
    MaxAttempts <- MC_MaxAttempts
SPECIFICATION Spec
INVARIANT DestroyLeavesNoService
