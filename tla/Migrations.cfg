SPECIFICATION Spec
CONSTANTS
    Proc = {"service", "subctl"}
    Service = "service"
    Config = {"base", "custom"}
    Name = {"ads", "gone"}
    NoRef = NoRef
    NoOne = NoOne
    MaxDeaths = 2
INVARIANTS TypeOK LedgerTrue OpenedWhole
PROPERTIES MeaningKept ComesUp
