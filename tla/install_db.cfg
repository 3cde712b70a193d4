CONSTANTS
    lib = lib  app = app  rival = rival
    f1 = f1  f2 = f2
    w1 = w1  w2 = w2
    Package = {lib, app, rival}
    File = {f1, f2}
    Files <- Payload
    Depends <- Needs
    Process = {w1, w2}
    Nobody = Nobody
    NoInode = NoInode
SYMMETRY ProcessSymmetry
SPECIFICATION Spec
INVARIANTS StampMeansFiles FilesAreOwned
PROPERTY DependentsProtected
