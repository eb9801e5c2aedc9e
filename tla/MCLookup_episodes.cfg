SPECIFICATION LookupSpec
CONSTANTS
    Movies <- MCMovies
    Shows <- MCShows
    Releases = {}
    Media <- MCMedia
    Cap = 2
    Rows = 3
    Starts = 2
INVARIANTS
    EpisodesOfShow
CHECK_DEADLOCK FALSE
