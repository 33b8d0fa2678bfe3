\* A command in each of two processes of a tab, and two things its user does.
CONSTANTS
    vim = vim
    sudo = sudo
    Shell = Shell
    NoLine = NoLine
    Empty = Empty
    Commands <- OneCommand
    Superuser <- OneCommand
    MaxProcs = 2
    MaxCommands = 1
    MaxEvents = 2
    MaxCalls = 2
    MaxMarks = 1
    DELAY_INTERACTIVE_MSEC = 100
    DELAY_MIN_MSEC = 500
    DELAY_MAX_MSEC = 1000
SPECIFICATION Spec
INVARIANTS
    AtMostOnePerCommand
PROPERTIES
    Noticed
    InhibitFollows
CHECK_DEADLOCK FALSE
