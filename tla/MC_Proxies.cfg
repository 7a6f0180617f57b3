\* One particle and one body of two particles; per proxy one attribute
\* name of each kind the dispatch tells apart
CONSTANTS
    Particles = {0}
    Bodies = {0}
    Values = {v0, v1}
    Inputs = {v0, v2}
    ToScalar <- MCToScalar
    ToInt <- MCToInt
    v0 = v0
    v1 = v1
    v2 = v2
    TypeList <- MCTypeList
    TypeArgs = {"A", "B", "C"}
    PNames = {"position", "velocity", "type", "typeid", "net_torque", "tag"}
    BNames = {"COM", "particle_disp", "num_particles", "net_torque"}
    FNames = {"force", "tag"}
    NP = 2
    ShadowNs = {1}
    V0 = v0
    DomainDecomposition = FALSE
    None = None
SPECIFICATION Spec
INVARIANTS
    TypeOK
    
