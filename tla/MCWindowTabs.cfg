\* Two tabs, no pinning, prompts on or off at any time, two nested loops.
CONSTANTS
    a = a
    b = b
    Tabs <- TwoTabs
    CommandTabs = {}
    Launches = {TRUE}
    Outcomes = {"ok"}
    Pinnable = {}
    PromptSettings = {TRUE, FALSE}
    MaxFrames = 2
    MaxParked = 2
    MaxForced = 1
SPECIFICATION Safety
INVARIANTS
    ClosesAccountedFor
    OnePlace
PROPERTIES
    ShownTabsAskedFirst
SYMMETRY TabSymmetry
CHECK_DEADLOCK FALSE
