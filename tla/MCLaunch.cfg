\* Every interleaving of two tabs' launches; one tab starts twice, one question is given up.
CONSTANTS
    t1 = t1
    t2 = t2
    session = session
    pod1 = pod1
    box1 = box1
    Tabs <- TwoTabs
    Containers <- ThreeContainers
    Kind <- Kinds3
    InSandbox <- OfSandbox
    Installed <- Shells3
    AtFirst <- AtFirst3
    Profiles <- TwoProfiles
    MayUse <- Used
    MaxLaunches <- LaunchTwice
    MaxTimeouts = 1
SPECIFICATION Spec
INVARIANTS
    FirstWaits
    RunsWhatIsThere
PROPERTIES
    LaunchEnds
CHECK_DEADLOCK FALSE
