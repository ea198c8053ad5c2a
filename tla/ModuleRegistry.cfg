SPECIFICATION Spec
CONSTANTS
    Langs <- MCLangs
    Modules <- MCModules
    Values <- MCValues
INVARIANTS
    RegisteredAreIndexed
    IndexLeadsToModules
    BestMatchServes
PROPERTY
    ServedUntilRemoved
