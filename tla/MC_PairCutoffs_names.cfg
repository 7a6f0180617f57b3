\* Renaming a type through the types proxy to a name another type already has
CONSTANTS
    Names = {"A", "B"}
    InitTypes <- MCInitTypes
    SnapshotTypes <- MCSnapshotTypes
    lj = lj
    gauss = gauss
    gl = gl
    cell = cell
    Pots = {lj}
    NLists = {gl, cell}
    GlobalNList = gl
    Cutoffs = {1, 2}
    Default <- MCDefault
    Missing = Missing
    UseDefault = UseDefault
    None = None
    InRunTypeChanges = FALSE
SPECIFICATION Spec
INVARIANT
    TypeNamesDistinct
