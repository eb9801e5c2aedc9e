----------------------------- MODULE MCDiscPath -----------------------------
(* One disc with two requests for its key, two IGDB calls and one crash;   *)
(* one retry of each probe, with the probers main.go wires up; two         *)
(* candidates kept of each search and two starts; one retry of the moves.  *)
EXTENDS DiscPath

(* Films and series that fit the labels exactly, in part and not at all,   *)
(* the popular ones not being those that fit.                              *)
MCMovies == {Film("film", "movie", {"watchmen"}, 4),
             Film("sequel", "movie", {"jackass", "3.5"}, 9), Malformed}
MCShows == {Film("series", "tv", {"watchmen"}, 9),
            Film("three", "tv", {"jackass", "volume", "three"}, 5)}
MCReleases ==
    {Film("first", "cd", {"mask"}, 0), Film("again", "cd", {"mask"}, 0)}

(* Labels that say all, something, nothing, and none at all; an audio CD   *)
(* with a pregap of up to the lead-in, in drives of both kinds.            *)
Placeholder == {"volume", "id"}
MCMedia ==
  {Video("DVD", {"watchmen"}, NoLabel, {}),
   Video("DVD", {"jackass", "3"}, NoLabel, {}),
   Video("DVD", {"dvd", "video"}, NoLabel, {}),
   Video("DVD", NoLabel, {"watchmen"}, {}),
   Video("DVD", NoLabel, NoLabel, {}),
   Video("BDMV", Placeholder, NoLabel, {"watchmen"}),
   Video("BDMV", Placeholder, NoLabel, {}),
   Video("UHD", NoLabel, {"watchmen"}, {"dvd", "video"})}
  \cup {Audio(p, r) : p \in {0, 32, 150}, r \in BOOLEAN}

(* A film with extras and a longer title, a film whose largest file is not *)
(* its longest title, a disc of episodes, and one with a short title only. *)
Feature == <<Title(1, 4, 9), Title(2, 100, 200), Title(3, 20, 40),
             Title(4, 95, 230), Title(5, 50, 110)>>
Bonus == <<Title(1, 25, 50), Title(2, 65, 300), Title(3, 70, 140)>>
Episodes == <<Title(1, 25, 50), Title(2, 45, 90), Title(3, 25, 50),
              Title(4, 2, 4)>>
Shorts == <<Title(1, 3, 6)>>
MCScans == {Feature, Bonus, Episodes, Shorts}

(* Picks in and out of order, in part from another scan of the disc.       *)
MCPicks == {<<>>, <<2, 3>>, <<3, 1>>, <<9, 2>>, <<9>>}
MCMaps == {[t \in {} |-> 0], [t \in {2, 3} |-> t + 3], [t \in {3, 9} |-> 1],
           [t \in {2} |-> 2]}
=============================================================================
