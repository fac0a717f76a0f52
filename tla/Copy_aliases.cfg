SPECIFICATION CallsSpec
CONSTANTS
    Numbers <- OnlyTwo
    Width = 1
    MaxBlocks = 3
    MaxObjects = 2
    MaxFrames = 2
    MaxWrites = 2
    MaxArgs = 1
CHECK_DEADLOCK FALSE
PROPERTY
    AliasesAreRefused
