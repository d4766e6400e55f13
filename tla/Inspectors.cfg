SPECIFICATION FairSpec
CONSTANTS
    Layouts <- MCLayouts
    MaxTrackers = 1
    MaxPosted = 2
INVARIANTS
    FileListInv
    InspectorLetsGo
    ScreenIsTrue
PROPERTIES
    ChecksCatchUp
