\* One boxdim object, extents up to 2, two particles and one bond at most
\* after replication along one axis
CONSTANTS
    Objs = {o1}
    MaxL = 2
    MaxCount = 2
    N0 = 1
    NB0 = 1
    Box0 <- MCBox0
    Dim = 3
    BoxDims = {3}
    ReplArgs <- MCReplArgs
    PyInt <- MCPyInt
    Scales = {1, 2}
    DTypes = {"float", "half"}
    NotABox = NotABox
    None = None
SPECIFICATION Spec
INVARIANT
    TypeOK
PROPERTY
    ReplicateScalesSystem
