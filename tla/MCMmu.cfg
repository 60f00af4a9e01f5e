\* pgtable_l0 at 0x40002000; memory that holds nothing, a block, a table or a page.
CONSTANTS
    FirstTable = 262146
    Garbage = {0, 1541, 1073750019}
    StaleTlbs <- MCStaleTlbs
    Probes <- MCProbes
SPECIFICATION Spec
INVARIANTS
    TypeOK
    MappingIsExact
    ReadsBack
    RegistersKept
PROPERTY Finishes
