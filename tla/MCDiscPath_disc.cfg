SPECIFICATION PathSpec
CONSTANTS
    Requests = {"first", "second"}
    Callers = {"caller", "other"}
    Crashes = 1
    Backoffs = 1
    Wired = {"xbox", "cdGame", "xgdDecoy"}
    Movies <- MCMovies
    Shows <- MCShows
    Releases <- MCReleases
    Media <- MCMedia
    Cap = 2
    Rows = 3
    Starts = 2
    Scans <- MCScans
    Picks <- MCPicks
    Maps <- MCMaps
    Marks = 2
    Tries = 1
INVARIANTS
    CredentialsHold
    KindKept
    IdentifiedRight
    Paired
CHECK_DEADLOCK FALSE
