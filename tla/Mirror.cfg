SPECIFICATION Spec
CONSTANTS
    File = {"ads", "geo"}
    Url = {"a", "b", "dead"}
    Provider <- MC_Provider
    Dead = {"dead"}
    NoUrl = NoUrl
    NoFile = NoFile
    Nothing = Nothing
    Asking = Asking
    Failed = Failed
    MaxVersions = 2
    MaxSaves = 1
    MaxStops = 1
PROPERTIES
    NeverOlder
    LatestMirrored
CHECK_DEADLOCK FALSE
