------------------------------ MODULE DiscPath ------------------------------
(***************************************************************************)
(* The way of one disc through the daemon: TMDB's credentials are set, the *)
(* disc goes in and is classified (DiscProbe), the handler of its type     *)
(* finds out its name and the user picks candidate and titles (Lookup),    *)
(* the job rips them into the library (Titles).  The stages follow each    *)
(* other; what one hands to the next is all that is left of it, and the    *)
(* variables of a stage that is over, or to come, have fixed values.       *)
(***************************************************************************)
EXTENDS DiscProbe, Lookup, Integrations, Titles

VARIABLES
    at,         \* the stage
    order       \* what StartDisc hands to the job

pathVars == <<at, order, integrationsVars, probeVars, lookupVars, titlesVars>>

NoOrder == [kind |-> None, titles |-> FALSE, episodes |-> FALSE,
            names |-> FALSE]
NoDisc == Blank
NoMedium == Video("DVD", NoLabel, NoLabel, {})
NoJob == CHOOSE j \in Jobs({"uhd"}) : TRUE

PathInit ==
    /\ at = "keys" /\ order = NoOrder
    /\ IntegrationsInit
    /\ disc = NoDisc /\ role = None /\ expired = FALSE /\ pc = "done"
    /\ attempt = 0 /\ said = "nothing" /\ base = None /\ files = {}
    /\ type = None /\ lost = {} /\ recorded = None
    /\ medium = NoMedium /\ keydb = FALSE /\ key = FALSE
    /\ stage = "probe" /\ query = {} /\ waiting = {} /\ errors = {}
    /\ out = <<>> /\ row = NewRow(Nothing, <<>>) /\ seen = {}
    /\ rip = NoJob /\ phase = "select" /\ chosen = <<>> /\ ripped = {}
    /\ plan = <<>> /\ library = [p \in {} |-> Others] /\ theirs = {}
    /\ tries = 0

NoKeys ==
    /\ name' = "tmdb" /\ env' = [f \in {"key", "lang"} |-> ""]
    /\ store' = env' /\ registry' = env' /\ live' = env'
    /\ hooked' = FALSE /\ up' = FALSE
    /\ request' = [r \in Requests |-> IdleRequest]
    /\ holder' = NobodyHolds /\ token' = {}
    /\ call' = [c \in Callers |-> IdleCall]
    /\ crashes' = 0 /\ apart' = FALSE /\ mixed' = FALSE
    /\ overtaken' = FALSE

(* A disc goes in while the daemon runs; the TMDB client has the key it    *)
(* has by then.                                                            *)
InsertDisc ==
    /\ at = "keys" /\ at' = "type"
    /\ name = "tmdb" /\ up
    /\ key' = (live["key"] # "")
    /\ NoKeys
    /\ disc' \in Discs /\ role' \in Roles /\ pc' = "cd-info"
    /\ UNCHANGED <<expired, attempt, said, base, files, type, lost, recorded,
                   medium, keydb, stage, query, waiting, errors, out, row,
                   seen, titlesVars, order>>

NoProbe ==
    /\ disc' = NoDisc /\ role' = None /\ expired' = FALSE /\ pc' = "done"
    /\ attempt' = 0 /\ said' = "nothing" /\ base' = None /\ files' = {}
    /\ type' = None /\ lost' = {} /\ recorded' = None

(* The handler of the type the classifier found identifies the disc.       *)
IdentifyDisc ==
    /\ at = "type" /\ at' = "name"
    /\ pc = "typed" /\ ~WrongDrive(type)
    /\ medium' \in {m \in Media : m.kind = type} /\ keydb' \in BOOLEAN
    /\ NoProbe
    /\ UNCHANGED <<key, stage, query, waiting, errors, out, row, seen,
                   integrationsVars, titlesVars, order>>

NoLookup ==
    /\ medium' = NoMedium /\ keydb' = FALSE /\ key' = FALSE
    /\ stage' = "probe" /\ query' = {} /\ waiting' = {} /\ errors' = {}
    /\ out' = <<>> /\ row' = NewRow(Nothing, <<>>) /\ seen' = {}

(* StartDisc submits the job of a video disc with its row: whether titles  *)
(* were picked, and episodes for them, and whether these have names.       *)
SubmitJob ==
    /\ at = "name" /\ at' = "job"
    /\ stage = "identified" /\ row.starts > 0 /\ medium.kind # "AUDIO_CD"
    /\ order' = [kind |-> medium.kind, titles |-> row.titles,
                 episodes |-> row.episodes # Nothing,
                 names |-> row.episodes \notin {Nothing, "numbers"}]
    /\ NoLookup
    /\ UNCHANGED <<integrationsVars, probeVars, titlesVars>>

(* The worker takes it: the engine is that of the type, or of the profile  *)
(* for a DVD; the titles and episodes are those of the row.                *)
EnginesFor(kind) ==
    CASE kind = "DVD" -> OnDVD [] kind = "BDMV" -> {"bdmv"}
      [] kind = "UHD" -> {"uhd"}

BeginJob ==
    /\ at = "job" /\ at' = "files"
    /\ rip' \in {j \in Jobs(EnginesFor(order.kind)) :
                   /\ order.titles = (j.picks # <<>>)
                   /\ DOMAIN j.map # {} => order.episodes
                   /\ j.named # {} => order.names}
    /\ order' = NoOrder
    /\ UNCHANGED <<phase, chosen, ripped, plan, library, theirs, tries,
                   integrationsVars, probeVars, lookupVars>>

PathNext ==
    \/ /\ at = "keys" /\ IntegrationsNext
       /\ UNCHANGED <<at, order, probeVars, lookupVars, titlesVars>>
    \/ InsertDisc
    \/ /\ at = "type" /\ ProbeNext
       /\ UNCHANGED <<at, order, integrationsVars, lookupVars, titlesVars>>
    \/ IdentifyDisc
    \/ /\ at = "name" /\ LookupNext
       /\ UNCHANGED <<at, order, integrationsVars, probeVars, titlesVars>>
    \/ SubmitJob \/ BeginJob
    \/ /\ at = "files" /\ TitlesNext
       /\ UNCHANGED <<at, order, integrationsVars, probeVars, lookupVars>>

PathSpec == PathInit /\ [][PathNext]_pathVars

=============================================================================
