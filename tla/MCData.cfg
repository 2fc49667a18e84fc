SPECIFICATION DataSpec
CONSTANTS
    Schemas <- PvSchemas
    Messages <- PvMessages
    Expects <- PvExpects
    DigitBase = 6
    MAX_NESTED_READ_DEPTH = 2
    MaxHops = 3
    MaxGets = 3
    MaxParcels = 3
    MaxFds = 5
    MaxCells = 6
    ParcelKinds = {"local", "rpc"}
    MaxParcelOps = 6
    MaxObjReads = 2
    DupFaults = 1
    ByteBits = 4
    IntBits = 5
    LongBits = 7
    Numerals = {0, 1, 2, 3, 5, 7, 8, 9, 15, 16, 17, 31, 32, 33, 63, 64, 65, 127, 128, 129}
    Chars = {0, 2, 5}
    EnumValues = {1, 40}
    EnumMixes = FALSE
    Programs <- AidlPrograms
    MAX_EXPR_DEPTH = 6
    Builds <- AidlBuilds
    NoRoot = NoRoot
    Setups <- StubSetups
    MaxUserCode = 2
    MaxPlaced = 1
    MaxStubCalls = 2
CHECK_DEADLOCK FALSE
INVARIANTS
    ValuesAsMeant
    ObjectsOwned
    ConstantsAsMeant
    ResolvesAsMeant
    OutputComplete
    StubsAgree
