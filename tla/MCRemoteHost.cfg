SPECIFICATION Spec
CONSTANTS
    Infos <- MCInfos
    HostNames <- MCHostNames
    MaxString = 3
    SoftBudget = 90
    HardCap = 112
    Secrets <- MCSecrets
    Characters <- MCCharacters
    Invocations <- RemoteInvocations
    Hosts <- LinuxHosts
    TargetOSes = {"Linux"}
INVARIANTS
    DescribesTarget
CHECK_DEADLOCK FALSE
