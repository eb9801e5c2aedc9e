------------------------------- MODULE Titles -------------------------------
(***************************************************************************)
(* Which titles of a DVD, Blu-ray or UHD are ripped and where each of them *)
(* ends up in the library: the selection (picked by the user, or the main  *)
(* feature with its extras, or all episodes), MakeMKV's files or           *)
(* HandBrake's encodes, the paths rendered for them, and the moves into    *)
(* the library one file at a time, with failures, retries and files that   *)
(* other jobs put there.  Durations are in minutes; a size is the size of  *)
(* the file a title becomes, in units of the least size per minute.        *)
(***************************************************************************)
EXTENDS Naturals, Sequences, FiniteSets, Positions

CONSTANTS Scans,    \* the discs: their titles as the tools list them
          Picks,    \* title ids the user may have picked, in the order picked
          Maps,     \* the episodes titles may be mapped to
          Marks,    \* bound: the titles a disc may mark as its main one
          Tries     \* bound: retries of the job

ASSUME TitlesAssumption == Tries \in Nat /\ Marks \in Nat

Title(id, secs, size) == [id |-> id, secs |-> secs, size |-> size]
Others == Title(0, 0, 0)        \* what a file of another job holds

(* Titles are listed in the order of their ids, which are above zero; the  *)
(* picker ticks titles off, none of them twice.                            *)
ASSUME ScansAssumption ==
    \A s \in Scans :
        /\ s \in Seq([id : Nat \ {0}, secs : Nat, size : Nat])
        /\ \A i, j \in DOMAIN s : i < j => s[i].id < s[j].id
ASSUME PicksAssumption ==
    /\ \A p \in Picks : /\ p \in Seq(Nat \ {0})
                        /\ \A i, j \in DOMAIN p : p[i] = p[j] => i = j
    /\ \A m \in Maps : DOMAIN m \subseteq Nat \ {0}
IdsOf(s) == {s[k].id : k \in DOMAIN s}
Mapped(m) == {m[t] : t \in DOMAIN m}

Engines == {"MakeMKV", "MakeMKV+HandBrake", "HandBrake", "bdmv", "uhd"}
OnDVD == {"MakeMKV", "MakeMKV+HandBrake", "HandBrake"}
MovesRips == {"MakeMKV", "uhd"}     \* the rip itself goes to the library

(* The disc row, the profile and the scan of a job; feature is the title   *)
(* that the disc itself marks as its main one, where that is looked at,    *)
(* named are the episodes whose names the row knows.                       *)
Jobs(engines) ==
    {j \in [engine : engines, series : BOOLEAN, extras : BOOLEAN,
            scan : Scans, feature : 1..Marks,
            picks : Picks, map : Maps,
            named : SUBSET UNION {Mapped(m) : m \in Maps}] :
        /\ j.named \subseteq Mapped(j.map)
        /\ j.picks = <<>> => DOMAIN j.map = {}
        /\ IF j.engine = "HandBrake" /\ ~j.series
           THEN j.feature \in IdsOf(j.scan) ELSE j.feature = 1}

VARIABLES
    rip,        \* the job
    phase,      \* where it is
    chosen,     \* the titles selected, in order
    ripped,     \* the ids of the titles that have a file in rip/
    plan,       \* the moves to do: a title's file and its path
    library,    \* the paths in the library, with what they hold
    theirs,     \* the paths other jobs have written to, except between this
                \* job's look at a path and its rename
    tries

titlesVars == <<rip, phase, chosen, ripped, plan, library, theirs, tries>>

TitlesInit ==
    /\ rip \in Jobs(Engines) /\ phase = "select" /\ chosen = <<>>
    /\ ripped = {} /\ plan = <<>> /\ library = [p \in {} |-> Others]
    /\ theirs = {} /\ tries = 0

----------------------------------------------------------------------------
(* Selection.                                                              *)

Scanned(K) == Appended(rip.scan, K)
Holding(ids) == {i \in DOMAIN rip.scan : rip.scan[i].id \in ids}
WithIds(ids) == Scanned(Holding(ids))
LongEnough(min) == {i \in DOMAIN rip.scan : rip.scan[i].secs >= min}
AtLeast(min) == Scanned(LongEnough(min))

(* PickLongestTitle, longestTitle: the first of the longest.               *)
Longest(s) == s[CHOOSE k \in DOMAIN s :
                  \A j \in DOMAIN s : \/ s[j].secs < s[k].secs
                                      \/ s[j].secs = s[k].secs /\ k <= j]

(* SelectExtras: the titles in the band, in the order of the scan.         *)
InBand(main) ==
    {i \in DOMAIN rip.scan : LET t == rip.scan[i] IN
        /\ t.id # main.id
        /\ t.secs >= 1 /\ t.secs * 10 <= main.secs * 9}
SelectExtras(main) ==
    IF rip.extras /\ rip.engine # "uhd" THEN Scanned(InBand(main)) ELSE <<>>

(* The user's picks in their order, without those the scan does not have.  *)
SelectedTitles ==
    LET known == Appended(rip.picks, {k \in DOMAIN rip.picks :
                                        rip.picks[k] \in IdsOf(rip.scan)})
    IN  [k \in DOMAIN known |-> WithIds({known[k]})[1]]

PerTitle == rip.series /\ rip.engine \in OnDVD
Floor == CASE PerTitle -> 5
           [] rip.engine = "HandBrake" /\ ~rip.series -> 20
           [] rip.engine \in {"bdmv", "uhd"} -> IF rip.series THEN 10 ELSE 60
           [] OTHER -> 0

(* Nothing is selected when no pick is in the scan or all are too short.   *)
SelectTitles ==
    IF rip.picks # <<>> THEN SelectedTitles
    ELSE IF PerTitle \/ AtLeast(Floor) = <<>> THEN AtLeast(Floor)
    ELSE LET main == Longest(AtLeast(Floor))
         IN  <<main>> \o SelectExtras(main)

Select ==
    /\ phase = "select"
    /\ chosen' = SelectTitles
    /\ phase' = IF chosen' = <<>> THEN "lost"
                ELSE IF rip.engine = "HandBrake" THEN "encode" ELSE "rip"
    /\ UNCHANGED <<rip, ripped, plan, library, theirs, tries>>

----------------------------------------------------------------------------
(* MakeMKV's rips and HandBrake's encodes.                                 *)

(* MakeMKV rips the titles in the order chosen and names the files after   *)
(* their ids; a title that fails ends the job.                             *)
RipTitle ==
    /\ phase = "rip" /\ Cardinality(ripped) < Len(chosen)
    /\ \/ /\ ripped' = ripped \cup {chosen[Cardinality(ripped) + 1].id}
          /\ phase' = IF Cardinality(ripped') = Len(chosen)
                      THEN "encode" ELSE phase
       \/ phase' = "lost" /\ UNCHANGED ripped
    /\ UNCHANGED <<rip, chosen, plan, library, theirs, tries>>

(* The files there are, in the order listMKVIn sorts them, or HandBrake's  *)
(* encodes in the order chosen.  For a movie without extras HandBrake is   *)
(* left to encode the title the disc marks, whichever was chosen.          *)
Sources ==
    IF rip.engine # "HandBrake" THEN WithIds(ripped)
    ELSE IF ~rip.series /\ rip.picks = <<>> /\ Len(chosen) = 1
         THEN WithIds({rip.feature}) ELSE chosen

(* validateEncodedTitle, for HandBrake from the device's mirror only.      *)
BigEnough(srcs) == rip.engine = "HandBrake" =>
    \A k \in DOMAIN srcs : srcs[k].size >= chosen[k].secs

----------------------------------------------------------------------------
(* The paths: MoveMovieOutputs, moveMultiTitle and the DVD's moveOutputs.  *)

ExtrasMode(srcs) ==
    /\ rip.picks = <<>> /\ rip.extras /\ rip.engine # "uhd"
    /\ Len(srcs) > 1 /\ ~(rip.engine = "HandBrake" /\ rip.series)
(* The main feature among the files: the chosen one, or the largest file.  *)
MainIndex(srcs) ==
    IF rip.engine = "HandBrake" THEN 1
    ELSE CHOOSE k \in DOMAIN srcs : \A j \in DOMAIN srcs :
            srcs[j].size < srcs[k].size
              \/ (srcs[j].size = srcs[k].size /\ k <= j)

Bucket(measure, trailers, featurettes) ==
    IF measure <= trailers THEN "trailers"
    ELSE IF measure <= featurettes THEN "featurettes"
    ELSE "behind the scenes"
(* ClassifyExtraByDuration, ClassifyExtraBySizeRatio (5 and 25 per cent).  *)
ClassifyExtra(t, main) ==
    IF rip.engine = "HandBrake" THEN Bucket(t.secs, 5, 30)
    ELSE Bucket(t.size * 20, main.size, main.size * 5)

Path(folder, number, titled) ==
    [folder |-> folder, number |-> number, titled |-> titled, suffix |-> 0]

(* The template of a movie ignores the episode.  The i-th file is given    *)
(* the i-th pick's episode; HandBrake's moveOutputs knows the title.       *)
(* Only the name of an episode tells it from a title without one.          *)
RenderMain(srcs, i) ==
    LET id == IF rip.engine = "HandBrake" THEN srcs[i].id
              ELSE IF i <= Len(rip.picks) THEN rip.picks[i] ELSE 0
    IN  IF ~rip.series THEN Path("main", 0, FALSE)
        ELSE IF id \in DOMAIN rip.map
             THEN Path("main", rip.map[id], rip.map[id] \in rip.named)
        ELSE Path("main", i, FALSE)

Rendered(srcs, i) ==
    LET main == MainIndex(srcs)
        bucket(k) == ClassifyExtra(srcs[k], srcs[main])
        sofar == {k \in 1..i : k # main /\ bucket(k) = bucket(i)}
    IN  IF ExtrasMode(srcs) /\ i # main
        THEN Path(bucket(i), Cardinality(sofar), FALSE)
        ELSE RenderMain(srcs, i)

(* Paths that collide are told apart by the position of their file, except *)
(* in moveOutputs, whose second move is then refused.                      *)
OutputPath(srcs, i) ==
    IF /\ rip.engine # "HandBrake"
       /\ \E j \in DOMAIN srcs \ {i} : Rendered(srcs, j) = Rendered(srcs, i)
    THEN [Rendered(srcs, i) EXCEPT !.suffix = i] ELSE Rendered(srcs, i)

(* The transcode step, from the files in the spool, up to the first move.  *)
Encode ==
    /\ phase = "encode"
    /\ LET srcs == Sources
       IN  \/ /\ srcs # <<>> /\ BigEnough(srcs)
              /\ phase' = "move"
              /\ plan' = [i \in DOMAIN srcs |->
                            [file |-> srcs[i], path |-> OutputPath(srcs, i)]]
           \/ phase' = "failed" /\ plan' = <<>>
    /\ UNCHANGED <<rip, chosen, ripped, library, theirs, tries>>

----------------------------------------------------------------------------
(* AtomicMove, one file after the other.                                   *)

Occupied(p) == p \in DOMAIN library

(* Nothing is looked at before the rename.                        [mutant] *)
BlindStat ==
    /\ phase = "move" /\ plan # <<>>
    /\ phase' = "rename"
    /\ UNCHANGED <<rip, chosen, ripped, plan, library, theirs, tries>>

(* os.Stat of the destination.                                             *)
StatPath ==
    /\ phase = "move" /\ plan # <<>>
    /\ phase' = IF Occupied(plan[1].path) THEN "failed" ELSE "rename"
    /\ UNCHANGED <<rip, chosen, ripped, plan, library, theirs, tries>>

Lands(p, t) ==
    library' = [q \in DOMAIN library \cup {p} |->
                    IF q = p THEN t ELSE library[q]]
Leaves(t) == ripped' = IF rip.engine \in MovesRips
                      THEN ripped \ {t.id} ELSE ripped

(* os.Rename, which takes the place of a file that has come since; or on   *)
(* another file system a copy, which opens the destination exclusively.    *)
Move ==
    /\ phase = "rename"
    /\ LET p == plan[1].path
           t == plan[1].file
       IN  \/ /\ Lands(p, t) /\ Leaves(t)
              /\ phase' = "move" /\ plan' = Tail(plan)
           \/ /\ phase' = "failed"          \* the copy fails and is removed
              /\ UNCHANGED <<ripped, plan, library>>
           \/ /\ ~Occupied(p) /\ Lands(p, t)    \* the source stays behind
              /\ phase' = "failed"
              /\ UNCHANGED <<ripped, plan>>
    /\ UNCHANGED <<rip, chosen, theirs, tries>>

Finish ==
    /\ phase = "move" /\ plan = <<>>
    /\ phase' = "finished"
    /\ UNCHANGED <<rip, chosen, ripped, plan, library, theirs, tries>>

(* The transcode half is run again on the same spool.                      *)
Retry ==
    /\ phase = "failed" /\ tries < Tries
    /\ phase' = "encode" /\ tries' = tries + 1 /\ plan' = <<>>
    /\ UNCHANGED <<rip, chosen, ripped, library, theirs>>

(* Another job moves a file of its own to a path this one will use.        *)
OtherMoves ==
    /\ phase \in {"move", "rename"}
    /\ \E k \in DOMAIN plan :
         /\ ~Occupied(plan[k].path) /\ Lands(plan[k].path, Others)
         /\ theirs' = IF phase = "rename" /\ plan[k].path = plan[1].path
                      THEN theirs ELSE theirs \cup {plan[k].path}
    /\ UNCHANGED <<rip, phase, chosen, ripped, plan, tries>>

TitlesNext ==
    \/ Select \/ RipTitle \/ Encode \/ StatPath \/ Move \/ Finish \/ Retry
    \/ OtherMoves

TitlesSpec == TitlesInit /\ [][TitlesNext]_titlesVars

----------------------------------------------------------------------------
Wants == IF rip.engine = "HandBrake" THEN IdsOf(Sources) ELSE IdsOf(chosen)
Ours == {p \in DOMAIN library : library[p] # Others}
(* MakeMKV's files are in the order of the picks, and no two of them have  *)
(* the same path.                                                          *)
PicksInOrder ==
    /\ \A i, j \in DOMAIN rip.picks : i < j => rip.picks[i] < rip.picks[j]
    /\ \A i \in DOMAIN rip.picks : rip.picks[i] \in IdsOf(rip.scan)
    /\ \A i, j \in DOMAIN rip.picks :
          RenderMain(<<>>, i) = RenderMain(<<>>, j) => i = j

(* No file of another job is replaced, but for one that arrives between    *)
(* AtomicMove's look at the path and its rename.                           *)
NothingReplaced == \A p \in theirs : library[p] = Others

(* The library is given titles the job has selected and no others, each at *)
(* one path (a rip that could be copied but not removed may get a second   *)
(* one in a retry), and a finished job has given it all of them.           *)
AllOnce ==
    /\ \A p \in Ours : library[p].id \in Wants
    /\ \/ rip.engine \in MovesRips /\ tries > 0
       \/ \A p, q \in Ours : library[p] = library[q] => p = q
    /\ phase = "finished" => Wants \subseteq {library[p].id : p \in Ours}

(* A title mapped to an episode has its number, and a file with the name   *)
(* of an episode is the title mapped to it (MakeMKV's only when its files  *)
(* are in the order of the picks), without picks the n-th of the titles    *)
(* chosen is episode n, and next to its extras the main feature is the     *)
(* largest: whatever failed on the way.                                    *)
IsMapped(t, number) == t.id \in DOMAIN rip.map /\ rip.map[t.id] = number
RightNames ==
    \A p \in Ours :
        /\ /\ rip.series /\ (rip.engine = "HandBrake" \/ PicksInOrder)
           /\ p.titled \/ library[p].id \in DOMAIN rip.map
           => IsMapped(library[p], p.number)
        /\ PerTitle /\ rip.picks = <<>> /\ ~rip.extras =>
              library[p] = chosen[p.number]
        /\ ~PerTitle /\ p.folder = "main" /\ ExtrasMode(chosen) =>
              \A k \in DOMAIN chosen :
                  IF rip.engine = "HandBrake"
                  THEN chosen[k].secs <= library[p].secs
                  ELSE chosen[k].size <= library[p].size

(* What the user has chosen is in the library under its own name.          *)
Paired == NothingReplaced /\ AllOnce /\ RightNames

=============================================================================
