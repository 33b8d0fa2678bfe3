\* Two tabs, one of which may be pinned, no prompts, processes that fail to start.
CONSTANTS
    a = a
    b = b
    Tabs <- TwoTabs
    CommandTabs = {}
    Launches = {TRUE, FALSE}
    Outcomes = {"signal"}
    Pinnable = {a}
    PromptSettings = {FALSE}
    MaxFrames = 2
    MaxParked = 1
    MaxForced = 2
SPECIFICATION Spec
PROPERTIES
    ParkedLeaves
    TabsBehave
CHECK_DEADLOCK FALSE
