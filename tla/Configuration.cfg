CONSTANTS
    Edits = {good1, good2, bad1, bad2}
    Good = {good1, good2}
    PortLimit = 4
    UIntLimit = 8
    SizeLimit = 16
    IntLimit = 8
    Numbers <- MCNumbers
    Defaults <- MCDefaults
    MaxArgs = 4
CHECK_DEADLOCK FALSE
SPECIFICATION MCSpec
INVARIANTS
    TypesOK
    UserWorkKept
    BackupIsBroken
    FlagsOverride
    SecondStartAlike
