\* Two profiles ever, two links at a time, one tab, one removal to undo, two
\* palette files, two shortcuts; budgets as in MCPreferences.tla.
CONSTANTS
    u1 = u1
    u2 = u2
    before = before
    after = after
    Blank = Blank
    Uuids <- TwoUuids
    First = u1
    Contents = {Blank, before, after}
    AtFirst <- OneLink
    Tabs = {1}
    MaxObjects = 4
    MaxLinks = 2
    MaxToasts = 1
    Budgets <- SmallBudgets
    Fonts = {"f"}
    SystemFonts = {"Monospace 11", "t"}
    Files = {"mine", "yours"}
    FileContents <- SomeContents
    NoFile = NoFile
    Other = "picture"
    Builtin = {"gnome", "tango"}
    Names = {"new", "full"}
    DefaultAccel <- TwoAccels
    Keys <- AllKeys
    Schema <- SchemaValues
    AtFirstSet <- FirstValues
    Gnome = "gnome"
    Primary = {"gnome"}
    Offers <- SomeOffers
    Links = {"address"}
    MaxDrops = 1
    Nothing = Nothing
SPECIFICATION Spec
INVARIANTS
    ShownAsStored
    OffersWhatWorks
PROPERTIES
    LinksNeverLost
    SavesReachAll
    StoresWhatWasPressed
    PalettesCatchUp
    ImplementsDropAnswer
CHECK_DEADLOCK FALSE
