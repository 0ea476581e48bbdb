SPECIFICATION Spec
CONSTANTS
    MaxPid = 4
    Programs = {"init", "sh", "tool"}
    MaxEvents = 2
    Worlds <- MCWorlds
    Target = 3
    Users <- MCUsers
    Environment <- MCEnvironment
    MaxHops = 4
    Cap = 3
    MaxLines = 3
    NewObjects <- MCNewObjects
    NewModules <- MCNewModules
    Guards <- MCGuards
    Garbles <- MCGarbles
INVARIANTS ProcessTableIsTrue TargetIsDescribed OlderHopsAreParents DescriptorsAreTrue HiddenCountIsTrue ModuleFlagsAreTrue
CHECK_DEADLOCK FALSE
