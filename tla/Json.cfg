\* Names shortened to letters, integers to small widths, the buffer of dump_escaped to 16 bytes
CONSTANTS
    UnsignedMax = 255
    IntegerMin <- MCIntegerMin
    IntegerMax = 127
    ExponentMax = 5
    IntMin <- MCIntMin
    IntMax = 15
    StringBuffer = 16
    Sources <- MCSources
    Huge = 65536
    Documents <- MCDocuments
    Plain <- MCPlain
    RawInputs <- MCRawInputs
    CutRange = 12
SPECIFICATION MCSpec
INVARIANTS ParsedAsMeant HandledAsMeant ForwardedWhole InMemory BinaryFaithful
