SPECIFICATION FairSpec
CONSTANTS
    Last = 7
INVARIANTS
    TypeOK
    OneMessage
    StartErrorStays
PROPERTIES
    NoMessageAfterError
    ProcessEnds
