\* 3 processors, all enabled.
SPECIFICATION FairSpec
CONSTANTS
    Null = Null
    processor_count = 3
    Enabled <- AllEnabled
    MaxSlots = 6
INVARIANTS
    TypeOK
    OwnArguments
    TablesBeforeUse
    SlotsHaveOneOwner
    HandOver
PROPERTIES
    EveryProcessorEnters
