----------------------------- MODULE DiscProbe -----------------------------
(***************************************************************************)
(* Finding out what kind of disc has been inserted (identify/classify.go   *)
(* and its probers), as the disc flow calls it: cd-info, the listing of    *)
(* the file system and SYSTEM.CNF are each asked again while the drive     *)
(* spins up, the other probes are asked once, and a context bounds the     *)
(* whole.  What is on the disc is an input; a probe hears it, or does not. *)
(***************************************************************************)
EXTENDS Naturals, Sequences

CONSTANTS Backoffs,     \* length of cdInfoBackoff: retries of one probe
          Wired         \* optional probers that the classifier is given

ASSUME ProbeAssumption ==
    /\ Backoffs \in Nat
    /\ Wired \subseteq {"saturn", "xbox", "dc", "cdGame", "xgdDecoy"}

(* The probers the daemon installs whatever its settings (main.go).        *)
ASSUME InstalledAssumption == {"xbox", "cdGame", "xgdDecoy"} \subseteq Wired

None == "none"

----------------------------------------------------------------------------
(* What is on a disc: the mode cd-info lists, the rows isoinfo prints, and *)
(* what each probe would find.                                             *)

Row(dir, name) == [dir |-> dir, name |-> name]
Root(names) == {Row(<<>>, n) : n \in names}

Blank ==
    [kind |-> "DATA", mode |-> "CD-DATA", rows |-> {}, bluray |-> FALSE,
     aacs2 |-> FALSE, boot |-> None, xbe |-> None, sector |-> <<None, 0>>,
     cdi |-> FALSE, sessions |-> 1, second |-> 0, pvd |-> {}]

GDStart == 45000
XGD == {"publisher", "preparer", "application"}
BluRay(kind) == [Blank EXCEPT !.kind = kind, !.bluray = TRUE]
CDGame(kind, magic, at) ==
    [Blank EXCEPT !.kind = kind, !.sector = <<magic, at>>]

Discs ==
  {[Blank EXCEPT !.rows = Root({".", "..", "README.TXT"})],
   [Blank EXCEPT !.rows = Root({"SYSTEM.CNF"})],
   [Blank EXCEPT !.rows = Root({"setup.exe"}), !.pvd = {"publisher"}],
   [Blank EXCEPT !.rows = Root({"AUTORUN"}), !.sessions = 2,
                 !.second = GDStart - 1],
   [Blank EXCEPT !.rows = {Row(<<"BACKUP">>, "VIDEO_TS")}],
   [Blank EXCEPT !.kind = "AUDIO_CD", !.mode = "CD-DA"],
   [Blank EXCEPT !.kind = "DVD", !.rows = Root({"VIDEO_TS", "AUDIO_TS"})],
   [Blank EXCEPT !.kind = "VCD", !.rows = Root({"MPEGAV", "VCD"})],
   [Blank EXCEPT !.kind = "VCD", !.rows = Root({"MPEG2", "SVCD"})],
   [Blank EXCEPT !.kind = "PSX", !.rows = Root({"SYSTEM.CNF"}),
                 !.boot = "BOOT"],
   [Blank EXCEPT !.kind = "PS2", !.rows = Root({"SYSTEM.CNF"}),
                 !.boot = "BOOT2"],
   [Blank EXCEPT !.kind = "XBOX", !.rows = Root({"default.xbe"}),
                 !.xbe = "whole", !.pvd = XGD],
   [Blank EXCEPT !.rows = Root({"default.xbe"}), !.xbe = "truncated"],
   [Blank EXCEPT !.kind = "XBOX360", !.pvd = XGD,
                 !.rows = Root({"_SYSTEMU", "AUDIO_TS", "VIDEO_TS"})],
   [Blank EXCEPT !.kind = "XBOX360", !.pvd = XGD,
                 !.rows = Root({"README.TXT"})],
   [BluRay("BDMV") EXCEPT !.rows = {Row(<<"BDMV">>, "index.bdmv")}],
   BluRay("BDMV"),
   [BluRay("UHD") EXCEPT !.aacs2 = TRUE],
   [BluRay("UHD") EXCEPT !.rows = {Row(<<"BDMV">>, "index.bdmv")},
                         !.aacs2 = TRUE],
   [BluRay("PS3") EXCEPT !.rows = {Row(<<"PS3_GAME">>, "PARAM.SFO")}],
   CDGame("SAT", "SEGA_SEGASATURN", 0),
   [Blank EXCEPT !.kind = "DC", !.sessions = 2, !.second = GDStart],
   CDGame("SEGACD", "SEGADISCSYSTEM", 16),
   CDGame("3DO", "ZZZZZ", 0),
   CDGame("PCFX", "PC-FX:Hu_CD-ROM", 7),
   CDGame("JAGCD", "ATARI_APPROVED", 9),
   [Blank EXCEPT !.kind = "CDI", !.cdi = TRUE]}

Roles == {"cd_ps1", "bd_console", None}

----------------------------------------------------------------------------
VARIABLES
    disc,       \* the disc in the drive
    role,       \* what the drive's model is known to be for
    expired,    \* the context of the disc flow has ended
    pc,         \* the step the classifier is at
    attempt,    \* attempts of the probe being retried that have failed
    said,       \* what the running cd-info has written so far
    base,       \* what cd-info's disc mode says
    files,      \* the listing, as RefineDiscType sees it
    type,       \* the type Classify returns
    lost,       \* probes that gave up, or were cut short, by themselves
    recorded    \* the type of the disc row that is written

probeVars == <<disc, role, expired, pc, attempt, said, base, files, type, lost,
          recorded>>
given == <<disc, role>>

ProbeInit ==
    /\ disc \in Discs /\ role \in Roles
    /\ expired = FALSE /\ pc = "cd-info" /\ attempt = 0 /\ said = "nothing"
    /\ base = None /\ files = {} /\ type = None /\ lost = {}
    /\ recorded = None

(* The context runs out at any moment.                                     *)
Expire ==
    /\ ~expired /\ pc # "done"
    /\ expired' = TRUE
    /\ UNCHANGED <<given, pc, attempt, said, base, files, type, lost,
                   recorded>>

Goto(next) == pc' = next /\ attempt' = 0
GiveUp(probe) == lost' = IF expired THEN lost ELSE lost \cup {probe}

----------------------------------------------------------------------------
(* A probe under retry: a failed attempt is followed by a wait and the     *)
(* next one, until the schedule or the context has ended.                  *)

TryAgain(probe) ==
    /\ ~expired /\ attempt < Backoffs
    /\ attempt' = attempt + 1
    /\ UNCHANGED lost
LastTry(probe) ==
    /\ expired \/ attempt = Backoffs
    /\ GiveUp(probe)

(* cd-info writes the label of the disc mode, and later its value: the     *)
(* mode, or words that say that it could not be read.  It may also hang.   *)
CDInfoWrites ==
    /\ pc = "cd-info"
    /\ \/ said = "nothing" /\ said' = "label"
       \/ said = "label" /\ said' \in {disc.mode, "Unknown"}
    /\ UNCHANGED <<given, expired, pc, attempt, base, files, type, lost,
                   recorded>>

LooksLikeCDInfoError(value) == value = "Unknown"

(* The watcher does not wait for the end of the line.             [mutant] *)
FiredEarly == said # "nothing"

(* The watcher fires at a complete line with a value that is no error.     *)
Fired == said \notin {"nothing", "label"} /\ ~LooksLikeCDInfoError(said)

ClassifyFromCDInfo(value) == IF value = "CD-DA" THEN "AUDIO_CD" ELSE "DATA"

(* The runner has what it needs: it kills cd-info, or cd-info has ended    *)
(* with status 0.                                                          *)
CDInfoAnswers ==
    /\ pc = "cd-info" /\ Fired
    /\ base' = ClassifyFromCDInfo(said)
    /\ IF base' = "AUDIO_CD"
       THEN Goto("typed") /\ type' = "AUDIO_CD"
       ELSE Goto("list") /\ UNCHANGED type
    /\ UNCHANGED <<given, expired, said, files, lost, recorded>>

(* cd-info ends with an error, or with status 0 and no usable line, or it  *)
(* is killed because its own time or the context has run out.  Classify    *)
(* fails when that was the last attempt.                                   *)
CDInfoFails ==
    /\ pc = "cd-info"
    /\ said' = "nothing"
    /\ \/ TryAgain("cd-info") /\ UNCHANGED pc
       \/ LastTry("cd-info") /\ Goto("unreadable")
    /\ UNCHANGED <<given, expired, base, files, type, recorded>>

----------------------------------------------------------------------------
(* The listing: every row below its directory, without the entries a       *)
(* directory has for itself and its parent.                                *)
ParseIsoInfoListing(rows) ==
    {Append(r.dir, r.name) : r \in {x \in rows : x.name \notin {".", ".."}}}

HasPath(path) == path \in files
HasRoot(names) == \E n \in names : HasPath(<<n>>)

(* isoinfo lists the disc; a read error half-way cuts the listing short    *)
(* and is not taken for an error as long as there is something to read.    *)
Listed ==
    /\ pc = "list" /\ ~expired
    /\ ParseIsoInfoListing(disc.rows) # {}
    /\ \/ files' = ParseIsoInfoListing(disc.rows) /\ UNCHANGED lost
       \/ files' = {<<"cut">>} /\ GiveUp("list")
    /\ Goto("refine")
    /\ UNCHANGED <<given, expired, said, base, type, recorded>>

(* isoinfo fails, times out, or exits 0 with an empty listing: while the   *)
(* drive spins up, or because the disc has no such file system.            *)
NotListed ==
    /\ pc = "list"
    /\ \/ TryAgain("list") /\ UNCHANGED <<pc, files>>
       \/ LastTry("list") /\ files' = {} /\ Goto("refine")
    /\ UNCHANGED <<given, expired, said, base, type, recorded>>

----------------------------------------------------------------------------
(* The answers of the probes that are asked once.  A probe that cannot     *)
(* answer counts as a no; udevadm and the probes that read a sector do not *)
(* use the context.                                                        *)

UsesContext == {"bd", "xbox", "dc", "xgdDecoy"}
Optional == {"saturn", "xbox", "dc", "cdGame", "xgdDecoy"}
Answers(deaf, probe) ==
    /\ probe \notin deaf
    /\ probe \in UsesContext => ~expired
    /\ probe \in Optional => probe \in Wired

MediaIsBluRay(deaf) == Answers(deaf, "udev") /\ disc.bluray

HasAACS2(deaf) == Answers(deaf, "bd") /\ disc.aacs2

ProbeXBE(deaf) == Answers(deaf, "xbox") /\ disc.xbe = "whole"

ProbeSaturn(deaf) ==
    Answers(deaf, "saturn") /\ disc.sector = <<"SEGA_SEGASATURN", 0>>

LooksLikeDreamcast(deaf) ==
    /\ Answers(deaf, "dc")
    /\ disc.sessions = 2 /\ disc.second >= GDStart

(* Two of the magic numbers are looked for anywhere in the sectors read.   *)
Anywhere == 0..100
CDGameMagicTable ==
    {[type |-> "SEGACD", magic |-> m, at |-> {0, 16}] :
        m \in {"SEGADISCSYSTEM", "SEGABOOTDISC"}}
    \cup {[type |-> "3DO", magic |-> "ZZZZZ", at |-> {0}],
          [type |-> "PCFX", magic |-> "PC-FX:Hu_CD-ROM", at |-> Anywhere],
          [type |-> "JAGCD", magic |-> "ATARI_APPROVED", at |-> Anywhere]}
MatchMagicTable ==
    {m.type : m \in {x \in CDGameMagicTable :
        x.magic = disc.sector[1] /\ disc.sector[2] \in x.at}}
ProbeCDi == IF disc.cdi THEN {"CDI"} ELSE {}
ProbeCDGame(deaf) ==
    IF ~Answers(deaf, "cdGame") THEN {}
    ELSE IF MatchMagicTable # {} THEN MatchMagicTable ELSE ProbeCDi

MatchesXGDDecoy(deaf) == Answers(deaf, "xgdDecoy") /\ XGD \subseteq disc.pvd

BluRayType(deaf) == IF HasAACS2(deaf) THEN "UHD" ELSE "BDMV"

(* What RefineDiscType finds before it asks for SYSTEM.CNF.  The order is  *)
(* the code's: a PS3 disc is Blu-ray media, an Xbox 360 disc is a DVD.     *)
RefineByListing(deaf) ==
    IF HasPath(<<"PS3_GAME", "PARAM.SFO">>) THEN "PS3"
    ELSE IF MediaIsBluRay(deaf) THEN BluRayType(deaf)
    ELSE IF HasRoot({"_SYSTEMU"}) THEN "XBOX360"
    ELSE IF HasRoot({"VIDEO_TS"}) THEN "DVD"
    ELSE IF HasRoot({"MPEGAV", "VCD", "MPEG2", "SVCD"}) THEN "VCD"
    ELSE IF HasPath(<<"BDMV", "index.bdmv">>) THEN BluRayType(deaf)
    ELSE None

(* What it finds when there is no SYSTEM.CNF either.                       *)
RefineByProbes(deaf) ==
    IF HasRoot({"default.xbe"}) /\ ProbeXBE(deaf) THEN "XBOX"
    ELSE IF ProbeSaturn(deaf) THEN "SAT"
    ELSE IF LooksLikeDreamcast(deaf) THEN "DC"
    ELSE IF ProbeCDGame(deaf) # {} THEN CHOOSE t \in ProbeCDGame(deaf) : TRUE
    ELSE IF MatchesXGDDecoy(deaf) THEN "XBOX360"
    ELSE "DATA"

Deaf == SUBSET ({"udev", "bd", "cdGame", "saturn", "xbox", "dc", "xgdDecoy"}
                \cap (Wired \cup {"udev", "bd"}))

RefineDiscType ==
    /\ pc = "refine"
    /\ \E deaf \in Deaf :
        LET found == RefineByListing(deaf) IN
        /\ IF found # None THEN Goto("typed") /\ type' = found
           ELSE IF HasRoot({"SYSTEM.CNF"})
           THEN Goto("SYSTEM.CNF") /\ UNCHANGED type
           ELSE Goto("typed") /\ type' = RefineByProbes(deaf)
        /\ lost' = IF expired THEN lost ELSE lost \cup deaf
    /\ UNCHANGED <<given, expired, said, base, files, recorded>>

(* SYSTEM.CNF says which console boots it.  A file that is there and reads *)
(* as empty is a drive that is still spinning up.                          *)
SystemCNFRead ==
    /\ pc = "SYSTEM.CNF" /\ ~expired /\ disc.boot # None
    /\ type' = IF disc.boot = "BOOT2" THEN "PS2" ELSE "PSX"
    /\ Goto("typed")
    /\ UNCHANGED <<given, expired, said, base, files, lost, recorded>>

SystemCNFNotRead ==
    /\ pc = "SYSTEM.CNF"
    /\ \/ TryAgain("SYSTEM.CNF") /\ UNCHANGED <<pc, type>>
       \/ LastTry("SYSTEM.CNF") /\ type' = "DATA" /\ Goto("typed")
    /\ UNCHANGED <<given, expired, said, base, files, recorded>>

----------------------------------------------------------------------------
(* What the disc flow does with the answer.                                *)

PreferredDriveRole(t) ==
    IF t \in {"AUDIO_CD", "PSX", "SAT", "DC", "SEGACD", "3DO", "PCFX",
              "JAGCD", "CDI", "VCD"} THEN "cd_ps1"
    ELSE IF t \in {"BDMV", "UHD", "PS2", "XBOX", "XBOX360", "PS3"}
    THEN "bd_console" ELSE None

WrongDrive(t) ==
    /\ PreferredDriveRole(t) # None /\ role # None
    /\ PreferredDriveRole(t) # role

(* A disc in a drive that is not made for it is ejected.                   *)
EjectWrong ==
    /\ pc = "typed" /\ WrongDrive(type)
    /\ Goto("done")
    /\ UNCHANGED <<given, expired, said, base, files, type, lost, recorded>>

(* The handler of the type identifies the disc and its row is written, in  *)
(* the same context; either may fail.                                      *)
Persist ==
    /\ pc = "typed" /\ ~WrongDrive(type)
    /\ \/ ~expired /\ recorded' = type
       \/ UNCHANGED recorded
    /\ Goto("done")
    /\ UNCHANGED <<given, expired, said, base, files, type, lost>>

(* A disc not even cd-info can read gets a DATA row when the drive is the  *)
(* one whose discs a stock read cannot see, and no row elsewhere.          *)
Unreadable ==
    /\ pc = "unreadable"
    /\ \/ role = "bd_console" /\ ~expired /\ recorded' = "DATA"
       \/ UNCHANGED recorded
    /\ Goto("done")
    /\ UNCHANGED <<given, expired, said, base, files, type, lost>>

ProbeNext ==
    \/ CDInfoWrites \/ CDInfoAnswers \/ CDInfoFails
    \/ Listed \/ NotListed
    \/ RefineDiscType \/ SystemCNFRead \/ SystemCNFNotRead
    \/ EjectWrong \/ Persist \/ Unreadable
    \/ Expire

ProbeSpec == ProbeInit /\ [][ProbeNext]_probeVars

----------------------------------------------------------------------------
(* What a kind of disc is told by.                                         *)
Evidence ==
    {"cd-info"} \cup
    (CASE disc.kind \in {"DVD", "VCD", "PS3"} -> {"list"}
       [] disc.kind \in {"BDMV", "UHD"} -> {"udev", "bd"}
       [] disc.kind \in {"PSX", "PS2"} -> {"list", "SYSTEM.CNF"}
       [] disc.kind = "XBOX" -> {"list", "xbox"}
       [] disc.kind = "XBOX360" -> {"list", "xgdDecoy"}
       [] disc.kind = "SAT" -> {"saturn"}
       [] disc.kind = "DC" -> {"dc"}
       [] disc.kind \in {"SEGACD", "3DO", "PCFX", "JAGCD", "CDI"} ->
            {"cdGame"}
       [] OTHER -> {})

(* The daemon does not install every probe there is (main.go).             *)
Unwired ==
    \/ disc.kind = "SAT" /\ "saturn" \notin Wired
    \/ disc.kind = "DC" /\ "dc" \notin Wired

(* A disc that is recorded is recorded as what it is, whatever the order   *)
(* in which its markers are looked at, however many attempts it took and   *)
(* whenever the time ran out: the row is wrong only when a probe the       *)
(* answer hung on gave up while there was time left.                       *)
KindKept ==
    \/ recorded \in {None, disc.kind}
    \/ lost \cap Evidence # {}
    \/ Unwired

(* The README says that a Saturn disc is recognised by the magic of its    *)
(* first sector and a Dreamcast disc by its table of contents.             *)
KindDocumented ==
    recorded \in {None, disc.kind} \/ lost \cap Evidence # {}

=============================================================================
