SPECIFICATION Spec
CONSTANTS
    Blocks <- MCBlocks
    Rule <- MCRule
    MaxBlocks = 3
    MaxNests = 2
INVARIANT
    CodeRestored
CHECK_DEADLOCK FALSE
