SPECIFICATION FairSpec
CONSTANTS
    W4 = 2
    W6 = 3
    MappedTag <- MCMappedTag
    Malformed = Malformed
    Bodies <- MCBodies
    ProtectedFiles <- MCProtected
    ExceptionsFiles <- MCExceptions
    EditedFiles <- MCEdited
    Defaults <- MCDefaults
    MinEntries = 1
    MaxAttempts = 2
    MaxEdits = 1
INVARIANTS TypeOK NothingFilteredIsDenied NothingElseIsDropped OnlyTransientIsRetried
PROPERTY CycleEnds
