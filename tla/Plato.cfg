CONSTANTS
    Tables <- MCTables
    Dialects <- MCDialects
SPECIFICATION Spec
INVARIANTS
    TypeOK
    MembershipIsExact
    StackFits
    LiteralsAreText
    StructureIsSeen
    ValidIsAccepted
    BlocksAreRead
    PreferredReading
PROPERTY LiteralsAreKept
