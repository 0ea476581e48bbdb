SPECIFICATION Spec
CONSTANTS
    Infos <- MCInfos
    HostNames <- MCHostNames
    MaxString = 3
    SoftBudget = 90
    HardCap = 112
    Secrets <- MCSecrets
    Characters <- MCCharacters
    Invocations <- MCInvocations
    Hosts <- MCHosts
    TargetOSes = {"Linux", "Android", "macOS", "iOS", "Windows", "Other"}
INVARIANTS ReadsWhatWasFound TruncationIsHonest PrivateOnRequest ForeignTargetKeepsHostOut FailuresShow
CHECK_DEADLOCK FALSE
