SPECIFICATION Spec
CONSTANTS
    NUnits = 8
    Term <- ProgTerm
    Goes <- ProgGoes
    Insns <- ProgInsns
    NameAt <- ProgNames
    Exports = {5, 6}
    Zero = {7}
    Writers = {8}
    NoName = "none"
    BaseName <- ProgBase
    Names <- CallNames
    Private = {"_module"}
    Terminators = {"exit"}
    MaxApiCalls = 3
    Library <- ProgLibrary
    StartLinks = {5, 9}
    Keys = {"handle", "sock"}
    CounterStart <- Starts
    CounterStep <- Steps
    FixedValue = 10
    MinTaint = 10
    Sentinels = {22}
    MaxSteps = 6
    Modes <- AllModes
    MaxEvents = 5
    Rounds = 2
INVARIANTS BudgetHeld CallsAreTrue GraphIsTrue DataFlowIsTrue
PROPERTIES RunEnds
CHECK_DEADLOCK FALSE
