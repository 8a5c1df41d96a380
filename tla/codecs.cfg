SPECIFICATION Spec
CONSTANTS
    Bits <- MCBits
    Mant64 = 6
    Mant32 = 4
    Block = 4
    MaxPayload = 4
    MaxDepth = 4
    Halves <- MCHalves
    Shape <- MCShape
    Alphabet <- MCAlphabet
    MaxText = 7
    RawCells <- MCRawCells
    MaxRaw = 3
    Params <- MCParams
    AsyncParams <- MCAsyncParams
    Returns <- MCReturns
    AsyncReturns <- MCAsyncReturns
    Items <- MCItems
    CallbackArgs <- MCCallbackArgs
    Trees <- MCTrees
INVARIANTS
    NumbersExact
    TextChecked
    WireSidesAgree
    DepthRespected
    SignaturesAgree
    ArgumentsArrive
    ReturnsArrive
CHECK_DEADLOCK FALSE
