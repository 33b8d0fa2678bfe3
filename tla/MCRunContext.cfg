\* Every stack of two layers over the root, described by up to four calls.
CONSTANTS
    f1 = f1
    f2 = f2
    k1 = k1
    v1 = v1
    v2 = v2
    dir1 = dir1
    dir2 = dir2
    Unset = Unset
    NoDir = NoDir
    NoFd = NoFd
    Fds <- TwoFds
    Dests <- TwoDests
    Keys <- OneKey
    Vals <- TwoVals
    Dirs <- TwoDirs
    RootEnv <- AgentEnv
    Sandboxed = TRUE
    MaxLayers = 3
    MaxEdits = 4
SPECIFICATION Spec
SYMMETRY Alike
INVARIANTS
    Conserved
    ProgramSeesItsLayer
CHECK_DEADLOCK FALSE
