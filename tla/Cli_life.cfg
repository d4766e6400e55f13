SPECIFICATION FairSpec
CONSTANTS
    Options = {"file", "magnet", "http", "other", "verify", "version", "unknown",
               "downlimit", "downloadDir", "missingDir"}
    MaxOptions = 3
    MaxSignals = 2
    RpcKeys = {"speed"}
INVARIANTS
    SavedIsCommandLine
    ClosedOnReturn
    SignalInv
PROPERTIES
    WaitsEnd
