SPECIFICATION MachineSpec
CONSTANTS
    Parts = {"program", "tree", "heap"}
    Width = 4
    RegCount = 7
    MaxSteps = 200
    MaxCalls = 4
    Fuel = 20
    Sources <- MCSources
    Compile <- uuasm_compile_source
    Reference <- Meaning
    Walk <- ussr_execute_program
    RunBlock <- TreeBlock
    TreeParse <- MCParse
    Child <- MCChild
    Hosts = {"host"}
    Installed = {"host"}
    MaxLoop = 20
    Parse <- MCParse
    NameText <- MCNameText
    BT_MAX = 2
    Keys <- MCKeys
    Vals = {1}
    Absent = Absent
    Ids = {i1, i2}
    Variables = {"x"}
    Fields <- MCFields
    MaxItems = 1
    MaxExtra = 1
    TreeKeys = {1}
INVARIANTS
    MeansWhatItSays
    WalkerAgrees
    LocalsAreOpenCalls
    TreesAnswer
    TreesKeepShape
    HeapSound
