\* 2 processors, all enabled.
SPECIFICATION FairSpec
CONSTANTS
    Null = Null
    processor_count = 2
    Enabled <- AllEnabled
    MaxSlots = 4
PROPERTIES
    PreemptionStarts
