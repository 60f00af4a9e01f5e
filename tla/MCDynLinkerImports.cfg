\* A library that imports a symbol another one defines.
CONSTANTS
    Executables <- MCExecutables
    Linkers <- OneLinker
    Environments <- MCEnvironments
    FileSystems <- PlainFileSystems
    Bases = {16, 32}
    Span = 15
    Window = 11
    SlotLimit = 2
    None = None
SPECIFICATION Spec
INVARIANT SlotsHoldDefinitions
