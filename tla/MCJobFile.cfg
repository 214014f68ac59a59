SPECIFICATION Spec

CONSTANTS
    IdBits = 2
    MaxTasks = 3
    Configs <- MCConfigs
    NoId = NoId

INVARIANT TypeOK
INVARIANT GeneratedIdsFresh
INVARIANT IdsMatchReference

CHECK_DEADLOCK FALSE
