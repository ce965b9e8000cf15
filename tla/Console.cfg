SPECIFICATION Spec
CONSTANTS
    MaxUser = 2
    PerPage = 1
    Slots = {1}
    Operators <- MCOperators
    TTL = 1
    MaxEvents = 2
INVARIANTS ContractHolds EditorBound TableTrue
PROPERTIES Authorised NothingHangs NavigationEnds OutMeansOut
