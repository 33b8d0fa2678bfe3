\* Up to three runs of the script, one failing command, four changes of settings.
CONSTANTS
    k1 = k1
    v1 = v1
    v2 = v2
    NoDump = NoDump
    SettingKeys <- OneKey
    Vals <- TwoVals
    MaxRuns = 3
    MaxChanges = 4
    MaxFailures = 1
SPECIFICATION MigrationSpec
INVARIANTS
    NeverMerges
    CanRollBack
CHECK_DEADLOCK FALSE
