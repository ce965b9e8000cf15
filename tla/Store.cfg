SPECIFICATION StoreSpec
CONSTANTS
    Proc = {"service"}
    Service = "service"
    Config = {"base", "custom"}
    Name = {"ads", "gone"}
    NoRef = NoRef
    NoOne = NoOne
    MaxDeaths = 1
    Caller = {"any", "writer"}
    MayCall <- MCMayCall
    User = {1, 2}
    Inbound = {1, 2, 3}
    Wants <- MCWants
    PageSize = 1
INVARIANTS StoreTypeOK WholeUsers ListingTrue
PROPERTIES CallsEnd
