------------------------------- MODULE Lookup -------------------------------
(***************************************************************************)
(* From a disc to its name: the Identify halves of the DVD, Blu-ray, UHD   *)
(* and audio CD handlers with the TMDB and MusicBrainz clients they ask    *)
(* (the two TMDB searches run side by side and answer in any order), and   *)
(* the part of StartDisc that writes the candidate, the titles and the     *)
(* episodes the user has picked into the row.  A title is the set of its   *)
(* words; a film, series or release is a record of what the server says.   *)
(***************************************************************************)
EXTENDS Naturals, Sequences, FiniteSets, Positions

CONSTANTS Movies,       \* what TMDB has: films,
          Shows,        \* and series
          Releases,     \* what MusicBrainz has
          Media,        \* the discs that may go in
          Cap,          \* tmdbCandidateCap
          Rows,         \* bound: rows of an answer
          Starts        \* bound: StartDisc calls for the disc

ASSUME LookupAssumption == Cap \in Nat \ {0} /\ Rows \in Nat /\ Starts \in Nat

Nothing == "nothing"
NoLabel == {Nothing}

----------------------------------------------------------------------------
(* What the servers know, and what is in the drive.                        *)

Film(id, media, title, popularity) ==
    [id |-> id, media |-> media, title |-> title, score |-> popularity]
Malformed == Film("bad", Nothing, {}, 0)

(* An id stands for one film, series or release.                           *)
Films == Movies \cup Shows \cup Releases
ASSUME FilmsAssumption ==
    /\ \A f \in Films : /\ f = Film(f.id, f.media, f.title, f.score)
                        /\ f.id # Nothing
                        /\ IsFiniteSet(f.title) /\ f.score \in Nat
    /\ \A f, g \in Films : f.id = g.id => f = g

Offers(set) == {s \in UNION {[1..n -> set] : n \in 0..Rows} :
                    \A i, j \in DOMAIN s : i # j => s[i] # s[j]}

(* A video disc has a label isoinfo reads (or cannot: UDF only), the label *)
(* udev knows, and perhaps a name in its Blu-ray library metadata.         *)
Video(kind, iso, udev, name) ==
    [kind |-> kind, iso |-> iso, udev |-> udev, name |-> name,
     pregap |-> 0, relative |-> FALSE]
(* An audio CD has a first track after a pregap, and sits in a drive whose *)
(* cdparanoia prints absolute or relative positions.                       *)
Audio(pregap, relative) ==
    [Video("AUDIO_CD", NoLabel, NoLabel, {}) EXCEPT
        !.pregap = pregap, !.relative = relative]

(* Labels are sets of words; positions are counted from zero.              *)
ASSUME MediaAssumption ==
    \A m \in Media : /\ m.kind \in {"DVD", "BDMV", "UHD", "AUDIO_CD"}
                     /\ IsFiniteSet(m.iso) /\ IsFiniteSet(m.udev)
                     /\ IsFiniteSet(m.name)
                     /\ m.pregap \in Nat /\ m.relative \in BOOLEAN

----------------------------------------------------------------------------
VARIABLES
    medium,     \* the disc
    keydb,      \* the AACS2 key file is there
    key,        \* TMDB has an API key (Reconfigure may take it away)
    stage,      \* what Identify is at
    query,      \* the search query, or the MusicBrainz disc id
    waiting,    \* searches that have not answered
    errors,     \* searches that have failed
    out,        \* candidates in the order the searches delivered them
    row,        \* the disc row, once identified
    seen        \* copies of the row that StartDisc requests have read

lookupVars == <<medium, keydb, key, stage, query, waiting, errors, out, row,
                seen>>

NewRow(name, cands) ==
    [name |-> name, cands |-> cands, about |-> Nothing, runtime |-> Nothing,
     titles |-> FALSE, episodes |-> Nothing, missed |-> FALSE, starts |-> 0]

LookupInit ==
    /\ medium \in Media /\ keydb \in BOOLEAN /\ key = TRUE
    /\ stage = "probe" /\ query = {} /\ waiting = {} /\ errors = {}
    /\ out = <<>> /\ row = NewRow(Nothing, <<>>) /\ seen = {}

(* The API key is removed while a lookup is under way.                     *)
Unconfigure ==
    /\ key /\ stage # "failed"
    /\ key' = FALSE
    /\ UNCHANGED <<medium, keydb, stage, query, waiting, errors, out, row,
                   seen>>

----------------------------------------------------------------------------
(* Similarity of titles.                                                   *)

DigitWord(w) == IF w = "3" THEN "three" ELSE w
Tokenise(title) == {DigitWord(w) : w \in title}
Common(q, t) == Cardinality(Tokenise(q) \cap Tokenise(t))
Union(q, t) == Cardinality(Tokenise(q) \cup Tokenise(t))
(* TitleSimilarity(q, s) > TitleSimilarity(q, t); q is never empty here.   *)
Nearer(q, s, t) == Common(q, s) * Union(q, t) > Common(q, t) * Union(q, s)
Percent(q, t) == (200 * Common(q, t) + Union(q, t)) \div (2 * Union(q, t))

(* The popular come first.                                        [mutant] *)
PopularBefore(q, prefer, c, d) == c.score > d.score

(* The order of applyRankConfidence and of the sort before the cap.        *)
Before(q, prefer, c, d) ==
    \/ Nearer(q, c.title, d.title)
    \/ /\ ~Nearer(q, d.title, c.title)
       /\ \/ prefer = c.media /\ c.media # d.media
          \/ /\ prefer # d.media \/ c.media = d.media
             /\ c.score > d.score

StablySorted(s, Less(_, _)) ==
    LET Place(i) == Cardinality({j \in DOMAIN s : Less(s[j], s[i])
                                   \/ (~Less(s[i], s[j]) /\ j <= i)})
    IN  [k \in DOMAIN s |-> s[CHOOSE i \in DOMAIN s : Place(i) = k]]

Capped(s) == SubSeq(s, 1, IF Len(s) > Cap THEN Cap ELSE Len(s))

ApplyRankConfidence(q, s) ==
    [i \in DOMAIN s |-> [s[i] EXCEPT !.score = Percent(q, s[i].title)]]

(* One TMDB endpoint: rows that do not parse are skipped, then the cap.    *)
SearchAnswers(offer) ==
    Capped(Appended(offer, {i \in DOMAIN offer : offer[i] # Malformed}))

----------------------------------------------------------------------------
(* Identify: the label.                                                    *)

NormaliseDVDLabel(label) ==
    IF label \in {{"dvd", "video"}, {"abc"}} THEN {} ELSE label
(* The isoinfo label, or udev's when isoinfo reads none.                   *)
VolumeLabel == IF medium.iso # NoLabel THEN medium.iso ELSE medium.udev
(* The name in the Blu-ray's library metadata goes before its label.       *)
BDSearchLabel == IF medium.name # {} THEN medium.name ELSE VolumeLabel
PreferMedia == IF medium.kind \in {"BDMV", "UHD"} THEN "movie" ELSE Nothing

(* ErrNoCandidates: the disc flow writes the row all the same.             *)
NoCandidates == stage' = "identified" /\ row' = NewRow(Nothing, <<>>)
Fails == stage' = "failed" /\ UNCHANGED row

(* A label that says nothing is not searched for; without a label there is *)
(* no answer at all.                                                       *)
SearchFor(label) ==
    LET q == NormaliseDVDLabel(label) IN
    IF VolumeLabel = NoLabel THEN Fails /\ UNCHANGED <<query, waiting>>
    ELSE IF q = {} THEN NoCandidates /\ UNCHANGED <<query, waiting>>
    ELSE /\ stage' = IF key THEN "search" ELSE "found"
         /\ query' = q
         /\ waiting' = IF key THEN {"movie", "tv"} ELSE {}
         /\ UNCHANGED row

IdentifyDVD ==
    /\ stage = "probe" /\ medium.kind = "DVD"
    /\ SearchFor(VolumeLabel)
    /\ UNCHANGED <<medium, keydb, key, errors, out, seen>>

IdentifyBDMV ==
    /\ stage = "probe" /\ medium.kind = "BDMV"
    /\ SearchFor(BDSearchLabel)
    /\ UNCHANGED <<medium, keydb, key, errors, out, seen>>

(* A UHD disc is not even looked at without the AACS2 key file.            *)
IdentifyUHD ==
    /\ stage = "probe" /\ medium.kind = "UHD"
    /\ IF keydb THEN SearchFor(BDSearchLabel)
       ELSE Fails /\ UNCHANGED <<query, waiting>>
    /\ UNCHANGED <<medium, keydb, key, errors, out, seen>>

(* One of the two searches answers: with rows, with a 404 or without a key *)
(* (nothing), or with an error.                                            *)
SearchReturns(media) ==
    /\ stage = "search" /\ media \in waiting
    /\ waiting' = waiting \ {media}
    /\ \/ /\ \E offer \in Offers(IF media = "movie" THEN Movies ELSE Shows) :
               out' = out \o (IF key THEN SearchAnswers(offer) ELSE <<>>)
          /\ UNCHANGED errors
       \/ errors' = errors \cup {media} /\ UNCHANGED out
    /\ stage' = IF waiting' = {} THEN "found" ELSE stage
    /\ UNCHANGED <<medium, keydb, key, query, row, seen>>

(* SearchBoth after wg.Wait, then the handler: one failed search is        *)
(* tolerated, the first of the ranked candidates names the disc.           *)
SearchBoth ==
    /\ stage = "found"
    /\ LET Less(c, d) == Before(query, PreferMedia, c, d)
           ranked == ApplyRankConfidence(query,
                         Capped(StablySorted(out, Less)))
       IN IF errors = {"movie", "tv"} THEN Fails
          ELSE IF ranked = <<>> THEN NoCandidates
          ELSE stage' = "identified" /\ row' = NewRow(ranked[1].id, ranked)
    /\ UNCHANGED <<medium, keydb, key, query, waiting, errors, out, seen>>

----------------------------------------------------------------------------
(* Identify: the table of contents of an audio CD.                         *)

LeadIn == 150
Start(absolute) == medium.pregap + (IF absolute THEN LeadIn ELSE 0)
(* cdparanoia -Q: the first track of a TOC that starts below the lead-in   *)
(* is taken for a relative position.                                       *)
ParseCDParanoiaQ ==
    LET begin == Start(~medium.relative)
    IN  IF begin < LeadIn THEN begin + LeadIn ELSE begin
(* DiscID tells two tables of contents apart; the rest of the table moves  *)
(* with its first track.                                                   *)
DiscID(first) == <<first>>

ReadTOC ==
    /\ stage = "probe" /\ medium.kind = "AUDIO_CD"
    /\ \/ stage' = "discid" /\ query' = DiscID(ParseCDParanoiaQ)
       \/ stage' = "failed" /\ UNCHANGED query
    /\ UNCHANGED <<medium, keydb, key, waiting, errors, out, row, seen>>

(* Every release with this id matches: one is certain, several are not     *)
(* ranked.  The unstable sort may then put any of them first.              *)
ToCandidates(releases) ==
    LET sure == IF Len(releases) = 1 THEN 100 ELSE 0
    IN  [i \in DOMAIN releases |-> [releases[i] EXCEPT !.score = sure]]

MBLookup ==
    /\ stage = "discid"
    /\ \/ Fails
       \/ \E answer \in Offers(Releases) :
            LET cands == ToCandidates(answer) IN
            IF cands = <<>> THEN NoCandidates
            ELSE stage' = "identified" /\ row' = NewRow(cands[1].id, cands)
    /\ UNCHANGED <<medium, keydb, key, query, waiting, errors, out, seen>>

----------------------------------------------------------------------------
(* What the user picks (StartDisc).                                        *)

(* The candidate the user has picked: its name, its runtime if it is a     *)
(* movie and the runtime could be had, and its details in place of the     *)
(* whole blob.  A client without a key, or a 404, yields empty details,    *)
(* which are written; only an error leaves the blob.                       *)
Promote(r, c, runtime, details) ==
    [r EXCEPT !.name = c.id,
              !.runtime = IF runtime THEN c.id ELSE @,
              !.about = CASE details = "told" -> c.id
                          [] details = "empty" -> Nothing
                          [] details = "error" -> @,
              !.titles = @ /\ details = "error",
              !.episodes = IF details = "error" THEN @ ELSE Nothing,
              !.missed = details # "told" \/ (c.media = "movie" /\ ~runtime)]
Promoted(r) ==
    UNION {{Promote(r, r.cands[i], runtime, details) :
                runtime \in {FALSE, key /\ r.cands[i].media = "movie"},
                details \in {"empty", "error"} \cup
                    (IF key \/ r.cands[i].media = "cd" THEN {"told"} ELSE {})}
           : i \in DOMAIN r.cands}

(* The episodes are named after the show with the id the row had when it   *)
(* was read, before the pick; without an answer they only have numbers.    *)
ResolveEpisodeMap(old, told) ==
    IF told /\ key /\ old.name # Nothing /\ medium.kind # "AUDIO_CD"
    THEN old.name ELSE "numbers"

(* The titles the user has picked, and perhaps their episodes, are merged  *)
(* with the blob as it was read, and that is written over the details.     *)
MergeTitles(r, old, episodes) ==
    [r EXCEPT !.about = old.about, !.titles = TRUE,
              !.episodes = IF episodes = Nothing THEN old.episodes
                           ELSE episodes]

(* A request reads the row before it has startMu: others with the same or  *)
(* a later copy may be through before it.                                  *)
ReadDisc ==
    /\ stage = "identified" /\ row.starts < Starts
    /\ seen' = seen \cup {row}
    /\ UNCHANGED <<medium, keydb, key, stage, query, waiting, errors, out, row>>

(* StartDisc under startMu, up to Submit, with the copy it has read.  Of   *)
(* its candidates, which no start changes, the one picked is promoted.     *)
StartDisc ==
    /\ stage = "identified" /\ row.starts < Starts
    /\ \E old \in seen, picked \in {row} \cup Promoted(row) :
       \/ row' = [picked EXCEPT !.starts = @ + 1]
       \/ \E mapped \in {Nothing, ResolveEpisodeMap(old, TRUE),
                           ResolveEpisodeMap(old, FALSE)} :
            row' = [MergeTitles(picked, old, mapped) EXCEPT !.starts = @ + 1]
    /\ UNCHANGED <<medium, keydb, key, stage, query, waiting, errors, out, seen>>

LookupNext ==
    \/ IdentifyDVD \/ IdentifyBDMV \/ IdentifyUHD
    \/ (\E media \in {"movie", "tv"} : SearchReturns(media))
    \/ SearchBoth \/ ReadTOC \/ MBLookup \/ ReadDisc \/ StartDisc \/ Unconfigure

LookupSpec == LookupInit /\ [][LookupNext]_lookupVars

----------------------------------------------------------------------------
(* The name a disc gets is the one that fits its label best among all that *)
(* the two searches have delivered, in whichever order they did, and a     *)
(* movie for a Blu-ray when a series fits as well.                         *)
BestMatch ==
    stage = "identified" /\ row.starts = 0 /\ medium.kind # "AUDIO_CD" =>
        \A i, j \in DOMAIN out : out[j].id = row.name =>
            /\ ~Nearer(query, out[i].title, out[j].title)
            /\ \/ Nearer(query, out[j].title, out[i].title)
               \/ PreferMedia \in {Nothing, out[j].media}
               \/ out[i].media # PreferMedia

(* An audio CD has the disc id of its true table of contents in every      *)
(* drive, except behind a long pregap that the drive does not count.       *)
TrueDiscID ==
    stage = "discid" =>
        \/ query = DiscID(Start(TRUE))
        \/ medium.relative /\ medium.pregap >= LeadIn

(* What a row says of its disc is about the candidate it is named after:   *)
(* runtime and details may be older than the name only when the last pick  *)
(* could not have them, and the details also when titles were picked.      *)
AboutItsName ==
    stage = "identified" /\ ~row.missed =>
        /\ row.titles \/ row.about \in {Nothing, row.name}
        /\ \A i \in DOMAIN row.cands :
              row.cands[i].id = row.name /\ row.cands[i].media = "movie" =>
                  row.runtime \in {Nothing, row.name}

(* A disc is identified as what it is, and the row says so.                *)
IdentifiedRight == BestMatch /\ TrueDiscID /\ AboutItsName

(* discs.go resolves the episode names for the titles picked, so that the  *)
(* files can be named after the show: they are those of the show picked.   *)
EpisodesOfShow ==
    \A i \in DOMAIN row.cands :
        ~row.missed /\ row.cands[i].id = row.name /\ row.cands[i].media = "tv"
            => row.episodes \in {Nothing, "numbers", row.name}

=============================================================================
