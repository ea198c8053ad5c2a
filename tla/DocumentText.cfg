SPECIFICATION Spec
CONSTANTS
    Blocks <- MCBlocks
    Rule <- MCRule
    MaxBlocks = 3
    MaxNests = 2
INVARIANTS
    WalkerInStep
    EveryHeadingAnchored
    NoLeafTwice
    StructureSurvives
    PlainTranslatedInPlace
    LinksLeadHome
CHECK_DEADLOCK FALSE
