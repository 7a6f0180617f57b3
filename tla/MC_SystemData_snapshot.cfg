\* take_snapshot with particles and bonds both false
CONSTANTS
    Objs = {o1}
    MaxL = 2
    MaxCount = 2
    N0 = 1
    NB0 = 1
    Box0 <- MCBox0
    Dim = 3
    BoxDims = {2, 3}
    ReplArgs <- MCReplArgs
    PyInt <- MCPyInt
    Scales = {1, 2}
    DTypes = {"float", "double", "half"}
    NotABox = NotABox
    None = None
SPECIFICATION Spec
INVARIANT
    TakeSnapshotNeverNameError
