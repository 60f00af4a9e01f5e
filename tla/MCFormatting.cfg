\* Buffers of a few bytes, 6-bit longs and 5-bit ints.
CONSTANTS
    LongBits = 6
    IntBits = 5
    BufferSize = 24
    PrintfSize = 8
    Radices = {1, 2, 3, 8, 10, 16, 17}
    Memory = {0, 1, 2, 3, 4, 5}
    Words <- MCWords
    Counts = {0, 1, 2, 3}
    Environs <- MCEnvirons
    Formats <- MCFormats
    LogFormats <- MCLogFormats
    Sizes = {0, 1, 2, 3, 4, 5, 9}
    Paths <- MCPaths
    Lines = {7}
    Funcs <- MCFuncs
    LinkerFormats <- MCLinkerFormats
SPECIFICATION Spec
INVARIANTS
    NumbersReadBack
    CopiesAreExact
    LookupsAreExact
    TextWholeOrRefused
    LogLineWholeOrRefused
    PiecesWholeOrSkipped
