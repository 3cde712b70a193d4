CONSTANTS
    Loader = "runnable-ld.so"
    ArmLoader = "elf_loader_arm.nexe"
    ArmLinker = "ld-nacl-arm.so.1"
    LinkTime = {"ld"}
    MainName = "main.nexe"
    MaxLabel = 63
    MaxCdName = 255
    MaxDName = 1025
    MaxNs = 3
    MaxDnSrch = 6
    MaxDots = 15
    MaxRetry = 5
    MaxRetrans = 30
    ByteSize = 16
    V6Bytes = 6
    SmallSort = 3
    Ninther = 5
    Eighth = 4
    MaxPath = 5
    Templates = 4
    NumRects = 2
    Buttons = 7
    Bundle <- TwoVersions
    HashFile <- HF
SPECIFICATION Spec
CHECK_DEADLOCK FALSE
INVARIANTS ProgramsLoad NamesSurvive SearchFinds FilesAreFound ConversionsAreRight ScreenFollows
