\* Two containers that come, are renamed and go; podman may fail once.
CONSTANTS
    c1 = c1
    c2 = c2
    Ids <- TwoIds
    Labels <- Labels2
    HasJhbuildrc = TRUE
    MaxVersion = 2
    MaxFailures = 1
SPECIFICATION Spec
INVARIANTS
    ListsAgree
PROPERTIES
    QueuedUpdateArrives
CHECK_DEADLOCK FALSE
