CONSTANTS
    top = top
    a = a
    b = b
    e = e
    f = f
    back = back
    link = link
    Dir <- MCDir
    File <- MCFile
    Link <- MCLink
    Name <- MCName
    Top = top
    Target <- MCTarget
    Mounted <- MCMounted
    Roots <- MCRoots
    Setups <- MCSetups
SPECIFICATION Spec
CHECK_DEADLOCK FALSE
INVARIANTS WalkerIsInPlace NoDirectoryTwice WalkIsComplete
