SPECIFICATION Spec
CONSTANTS
    Itoa <- Numerals
    LoweredName <- MCLoweredName
    Atoi <- MCAtoi
    NotANumber = NotANumber
    Blank = ""
    ValidNames = {"gpu_clock", "mem_clock", "power", "clk", "mine", "far"}
    Curated <- MCCurated
    Headers <- MCHeaders
    Users <- MCUsers
    Flags <- MCFlags
    Files <- MCFiles
    Unreadable = Unreadable
    DefaultFields <- MCDefaultFields
INVARIANTS
    TypeOK
    FieldsAreCs
    CatalogAsAsked
    SelectionIsTheReferences
    EachUnderItsOwnName
    UsableStarts
