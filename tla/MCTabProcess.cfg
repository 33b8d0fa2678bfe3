\* One plain tab and one command tab, no bound on restarts or force-quits.
CONSTANTS
    plain = plain
    command = command
    Tabs <- TwoTabs
    CommandTabs <- OneCommand
    Launches = {TRUE, FALSE}
    Outcomes = {"ok", "error", "signal"}
SPECIFICATION TabSpec
INVARIANTS
    TypeOK
    CallbacksMatchState
    ProcessMatchesState
    BannerTellsTheEnd
PROPERTIES
    ForcedStaysDown
    KillTimerReaps
    ImplementsProcessSlot
