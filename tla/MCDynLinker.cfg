\* Up to two libraries of any of the kinds, every system call failing or not.
CONSTANTS
    Executables <- MCExecutables
    Linkers <- MCLinkers
    Environments <- MCEnvironments
    FileSystems <- MCFileSystems
    Bases = {16, 32}
    Span = 15
    Window = 11
    SlotLimit = 2
    None = None
SPECIFICATION Spec
INVARIANTS
    TypeOK
    ListAlive
    NothingLeaks
    LibrarySlotsBound
    ExecSlotsBound
    InitsRunOnce
    StartsExecutable
PROPERTY WritesStayHome
