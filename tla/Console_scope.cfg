SPECIFICATION Spec
CONSTANTS
    MaxUser = 2
    PerPage = 1
    Slots = {1, 2}
    Operators <- MCEditor
    TTL = 1
    MaxEvents = 0
INVARIANT SavesWhatItShows
