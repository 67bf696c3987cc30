SPECIFICATION Spec
CONSTANTS
    i1 = i1
    i2 = i2
    b1 = b1
    b2 = b2
    a1 = a1
    a2 = a2
    oldBuild = oldBuild
    newBuild = newBuild
    oddBuild = oddBuild
    backup = backup
    rebuild = rebuild
    write = write
    n1 = n1
    n2 = n2
    c1 = c1
    c2 = c2
    ItemIDs = {i1, i2}
    Indexes = {"0", "1"}
    BlockIDs = {b1, b2}
    ChoiceIndexes = {"0"}
    CallIndexes = {"0"}
    CallIDs = {"call", "text-0"}
    MaxAttempts = 2
    MaxFrames = 4
    Cassette <- Tapes
    Vocabulary <- Events
    MaxAccepted = 5
    Requests <- MCRequests
    Routes <- MCRoutes
    Attempts = {a1, a2}
    MaxPuts = 3
    Openers = {oldBuild, newBuild, oddBuild}
    NoOpener = NoOpener
    Catalog <- Catalogs
    Operations = {backup, rebuild, write}
    Kind <- MCKind
    MaxEvents = 3
    NoFile = NoFile
    Foreign = Foreign
    Names = {n1, n2}
    Reloaders = {c1, c2}
    NoReloader = NoReloader
    SourceLists <- MCLists
    Contents <- MCContents
CHECK_DEADLOCK FALSE
PROPERTIES RemoveSparesOthers
