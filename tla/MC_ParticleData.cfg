\* Two particles, then removals and additions of particles by tag and index
CONSTANTS
    TypeList <- MCTypeList
    TypeArgs = {"A", "B"}
    N0 = 2
    MaxTag = 2
    None = None
SPECIFICATION Spec
INVARIANT
    ForceLookupByTag
