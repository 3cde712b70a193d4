CONSTANTS
    Process = {w1, w2}
    Version = {v1, v2}
    Patch = {p1}
    NoPatch = NoPatch
    Config = {c1}
    NoConfig = NoConfig
    NoTree = NoTree
    NoStamp = NoStamp
    NoFile = NoFile
    MaxEdits = 1
SYMMETRY Symmetry
SPECIFICATION Spec
INVARIANTS StampsDescribeTree SourcesVerified
PROPERTY PackagesAreTrue
