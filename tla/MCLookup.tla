------------------------------ MODULE MCLookup ------------------------------
(* Up to two starts of one disc, with a cap of two candidates: a DVD whose *)
(* label fits a film and a series, while a second series fits in part.     *)
EXTENDS Lookup

MCMovies == {Film("film", "movie", {"watchmen"}, 4), Malformed}
MCShows == {Film("series", "tv", {"watchmen"}, 9),
            Film("three", "tv", {"watchmen", "volume", "three"}, 5)}
MCMedia == {Video("DVD", {"watchmen"}, NoLabel, {}),
            Video("DVD", NoLabel, NoLabel, {}),
            Video("BDMV", {"volume", "id"}, NoLabel, {"watchmen"})}
=============================================================================
