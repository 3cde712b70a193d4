CONSTANTS
    Folder = {home, disk}
    home = home  disk = disk
    NoFolder = NoFolder
    MaxPid = 2
    MaxClicks = 3
SYMMETRY FolderSymmetry
SPECIFICATION Spec
CHECK_DEADLOCK FALSE
INVARIANTS ReportsAreTrue MountedEverywhere CanBeUnmounted
