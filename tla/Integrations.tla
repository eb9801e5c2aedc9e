---------------------------- MODULE Integrations ----------------------------
(***************************************************************************)
(* The credentials of one integration (IGDB, TMDB or MakeMKV) in the four  *)
(* places that hold them: the environment, the settings table, the         *)
(* registry, and the client that uses them.  API requests that set or      *)
(* remove them run side by side, each in several steps; the daemon crashes *)
(* and boots; IGDB calls fetch and share a bearer token meanwhile.         *)
(***************************************************************************)
EXTENDS Naturals, FiniteSets

CONSTANTS Requests,     \* API requests that edit the integration
          Callers,      \* IGDB calls
          Crashes       \* bound: crashes of the daemon

NobodyHolds == "nobody"

ASSUME IntegrationsAssumption ==
    /\ IsFiniteSet(Requests) /\ IsFiniteSet(Callers) /\ Crashes \in Nat
    /\ NobodyHolds \notin Requests

Names == {"igdb", "tmdb", "makemkv"}
Secret == [igdb |-> {"client_id", "client_secret"}, tmdb |-> {"key"},
           makemkv |-> {"beta_key"}]
Fields(n) == IF n = "tmdb" THEN {"key", "lang"} ELSE Secret[n]

VARIABLES
    name,       \* the integration
    env,        \* its credentials in the environment; "" is unset
    store,      \* in the settings table; "" is unset or empty
    registry,   \* in the registry
    hooked,     \* the registry knows how to reconfigure the client
    live,       \* the credentials the client uses
    up,         \* the daemon runs
    request,    \* the API requests: where they are, what they ask for
    holder,     \* the request that holds the registry inside Reconfigure
    token,      \* IGDB: the credentials the cached token was issued to
    call,       \* IGDB calls: where they are, the configuration they copied
    crashes,
    apart,      \* the code has given up keeping the table and the registry
                \* together since boot (a failed or overlapping request, or
                \* an edit that completes credentials from the environment)
    mixed,      \* an edit stopped half-written in the table, or another
                \* wrote between two of its fields, and nothing tells
    overtaken   \* the token was fetched by a call older than the flush

integrationsVars == <<name, env, store, registry, hooked, live, up, request,
                      holder, token, call, crashes, apart, mixed, overtaken>>
fixed == <<name, env>>
daemonVars == <<hooked, up, crashes>>
callVars == <<token, call, overtaken>>
tableVars == <<store, mixed>>

Unset == [f \in Fields(name) |-> ""]
HasAnyValue(creds) == \E f \in DOMAIN creds : creds[f] # ""
Merge(creds, body) ==
    [f \in DOMAIN creds |-> IF f \in DOMAIN body THEN body[f] ELSE creds[f]]

(* Resolve: a single value in the table hides the whole environment.       *)
Resolve == IF HasAnyValue(store) THEN store ELSE env

(* What validateIntegrationPut lets through; the value names its request.  *)
Bodies(r) ==
    CASE name = "igdb" -> {[f \in F |-> r] : F \in {{}, Fields(name)}}
      [] name = "makemkv" -> {[f \in F |-> r] : F \in SUBSET Fields(name)}
      [] name = "tmdb" ->
            UNION {{[f \in F |-> IF f = "key" THEN r ELSE lang] :
                        lang \in {"", r}} : F \in SUBSET Fields(name)}

(* envForIntegration: without its main secret the environment is unset.    *)
Environments(n) ==
    LET Fits(e) == n = "igdb" \/ (\A f \in Secret[n] : e[f] # "")
                       \/ ~HasAnyValue(e)
    IN  {e \in [Fields(n) -> {"", "env"}] : Fits(e)}

IdleRequest == [at |-> "idle", body |-> <<>>, left |-> {}, kept |-> <<>>]
IdleCall == [at |-> "idle", cfg |-> {}, old |-> FALSE]

IntegrationsInit ==
    /\ name \in Names /\ env \in Environments(name)
    /\ store = Unset /\ registry = Unset /\ live = Unset
    /\ hooked = FALSE /\ up = FALSE
    /\ request = [r \in Requests |-> IdleRequest]
    /\ holder = NobodyHolds /\ token = {}
    /\ call = [c \in Callers |-> IdleCall]
    /\ crashes = 0 /\ apart = FALSE /\ mixed = FALSE /\ overtaken = FALSE

----------------------------------------------------------------------------
(* The client takes the credentials.  MakeMKV's client is the copy of      *)
(* settings.conf that makemkvcon reads; an empty key leaves it alone.      *)
Taken(creds) ==
    IF name = "makemkv" /\ ~HasAnyValue(creds) THEN live ELSE creds
Torn == [f \in Fields(name) |-> "torn"]

At(r, where) == up /\ request[r].at = where
Moves(r, where) == request' = [request EXCEPT ![r].at = where]
InProgress(r) == request[r].at \notin {"idle", "done"}

(* Calls that have copied the configuration before the swap.               *)
AgeCalls == call' = [c \in Callers |-> [call[c] EXCEPT
                        !.old = @ \/ call[c].at \in {"snapped", "fetching"}]]

Overlaps == \E s \in Requests : InProgress(s)

(* An edit that completes credentials from the environment, or that leaves *)
(* nothing but empty fields, means something else after a restart.         *)
Confuses(body) ==
    \/ ~HasAnyValue(Merge(store, body))
    \/ ~HasAnyValue(store)
       /\ \E f \in Fields(name) \ DOMAIN body : registry[f] # ""

(* PutIntegration reads what the registry has.                             *)
PutReads(r) ==
    /\ At(r, "idle")
    /\ \E body \in Bodies(r) :
        /\ request' = [request EXCEPT ![r] =
               [at |-> "write", body |-> body, left |-> DOMAIN body,
                kept |-> registry]]
        /\ apart' = (apart \/ Overlaps \/ Confuses(body))
    /\ UNCHANGED <<fixed, tableVars, registry, live, holder, daemonVars,
                   callVars>>

(* It writes the fields of the body one by one, in any order, and stops    *)
(* where one fails.                                                        *)
Half(r) ==
    /\ request[r].at = "write"
    /\ request[r].left \notin {{}, DOMAIN request[r].body}

PutWrites(r) ==
    /\ At(r, "write")
    /\ \/ /\ \E f \in request[r].left :
                /\ store' = [store EXCEPT ![f] = request[r].body[f]]
                /\ request' = [request EXCEPT ![r].left = @ \ {f}]
          /\ mixed' = (mixed \/ \E s \in Requests \ {r} : Half(s))
          /\ UNCHANGED apart
       \/ /\ request[r].left = {} /\ Moves(r, "put")
          /\ UNCHANGED <<tableVars, apart>>
       \/ /\ request[r].left # {} /\ Moves(r, "done")
          /\ apart' = TRUE /\ mixed' = (mixed \/ Half(r))
          /\ UNCHANGED store
    /\ UNCHANGED <<fixed, registry, live, holder, daemonVars, callVars>>

(* DeleteIntegration removes the fields, or fails and changes nothing.     *)
DeleteClears(r) ==
    /\ At(r, "idle")
    /\ \/ store' = Unset /\ Moves(r, "clear") /\ apart' = (apart \/ Overlaps)
       \/ UNCHANGED <<store, apart>> /\ Moves(r, "done")
    /\ UNCHANGED <<fixed, mixed, registry, live, holder, daemonVars,
                   callVars>>

Wanted(r) == IF request[r].at = "clear" THEN env
             ELSE Merge(request[r].kept, request[r].body)

(* Registry.Put for a client that is swapped in one step, or whose adapter *)
(* boot never registered.                                                  *)
RegistryPut(r) ==
    /\ At(r, "put") \/ At(r, "clear")
    /\ holder = NobodyHolds /\ (name # "igdb" \/ ~hooked)
    /\ registry' = Wanted(r)
    /\ live' = IF hooked THEN Taken(Wanted(r)) ELSE live
    /\ Moves(r, "done")
    /\ UNCHANGED <<fixed, tableVars, holder, apart, daemonVars, callVars>>

(* The settings file cannot be written: the registry keeps what it had,    *)
(* and PutIntegration rolls the table back.                                *)
ReconfigureFails(r) ==
    /\ At(r, "put") \/ At(r, "clear")
    /\ name = "makemkv" /\ hooked /\ HasAnyValue(Wanted(r))
    /\ live' \in {live, Torn}
    /\ IF request[r].at = "put" THEN Moves(r, "rollback") /\ UNCHANGED apart
       ELSE Moves(r, "done") /\ apart' = TRUE
    /\ UNCHANGED <<fixed, tableVars, registry, holder, daemonVars, callVars>>

(* The roll-back ignores its errors; MakeMKV has one field, which was      *)
(* unset or is written back.                                               *)
RollbackClears(r) ==
    /\ At(r, "rollback")
    /\ store' \in {Unset, store}
    /\ Moves(r, "restore")
    /\ UNCHANGED <<fixed, mixed, registry, live, holder, apart, daemonVars,
                   callVars>>
RollbackRestores(r) ==
    /\ At(r, "restore")
    /\ store' \in {store} \cup ({request[r].kept} \ {Unset})
    /\ apart' = (apart \/ store' # request[r].kept)
    /\ Moves(r, "done")
    /\ UNCHANGED <<fixed, mixed, registry, live, holder, daemonVars, callVars>>

(* The token outlives the credentials it was issued to.           [mutant] *)
KeptFlush(r) ==
    /\ holder = r
    /\ registry' = Wanted(r) /\ holder' = NobodyHolds
    /\ Moves(r, "done")
    /\ UNCHANGED <<fixed, tableVars, live, apart, daemonVars, callVars>>

(* The IGDB client swaps its configuration, then flushes its token, under  *)
(* two locks; the registry stays locked for both.                          *)
Swap(r) ==
    /\ At(r, "put") \/ At(r, "clear")
    /\ holder = NobodyHolds /\ name = "igdb" /\ hooked
    /\ live' = Wanted(r) /\ holder' = r
    /\ AgeCalls
    /\ UNCHANGED <<fixed, tableVars, registry, request, apart, daemonVars,
                   token, overtaken>>
Flush(r) ==
    /\ holder = r /\ \A c \in Callers : call[c].at # "fetching"
    /\ token' = {} /\ overtaken' = FALSE
    /\ registry' = Wanted(r) /\ holder' = NobodyHolds
    /\ Moves(r, "done")
    /\ UNCHANGED <<fixed, tableVars, live, apart, daemonVars, call>>

----------------------------------------------------------------------------
(* IGDB calls: the configuration is copied at entry, and the token fetched *)
(* under tokenMu, which one call holds through the round trip.             *)

Configured == \A f \in Fields(name) : live[f] # ""
Free == \A c \in Callers : call[c].at # "fetching"

CallStarts(c) ==
    /\ up /\ name = "igdb" /\ call[c].at = "idle" /\ Configured
    /\ call' = [call EXCEPT ![c] =
                   [at |-> "snapped", cfg |-> {live}, old |-> FALSE]]
    /\ UNCHANGED <<fixed, tableVars, registry, live, request, holder, apart,
                   daemonVars, token, overtaken>>
GetToken(c) ==
    /\ call[c].at = "snapped" /\ Free
    /\ call' = [call EXCEPT ![c].at =
                   IF token = {} THEN "fetching" ELSE "done"]
    /\ UNCHANGED <<fixed, tableVars, registry, live, request, holder, apart,
                   daemonVars, token, overtaken>>
Fetched(c) ==
    /\ call[c].at = "fetching"
    /\ \/ token' = call[c].cfg /\ overtaken' = call[c].old
       \/ UNCHANGED <<token, overtaken>>
    /\ call' = [call EXCEPT ![c].at = "done"]
    /\ UNCHANGED <<fixed, tableVars, registry, live, request, holder, apart,
                   daemonVars>>
TokenExpires ==
    /\ token # {} /\ Free
    /\ token' = {} /\ overtaken' = FALSE
    /\ UNCHANGED <<fixed, tableVars, registry, live, request, holder, apart,
                   daemonVars, call>>

----------------------------------------------------------------------------
(* The process dies: requests and calls with it, files and table stay.     *)
Crash ==
    /\ up /\ crashes < Crashes
    /\ up' = FALSE /\ crashes' = crashes + 1 /\ hooked' = FALSE
    /\ request' = [r \in Requests |-> IF InProgress(r)
                      THEN [request[r] EXCEPT !.at = "done"] ELSE request[r]]
    /\ call' = [c \in Callers |-> IF call[c].at = "idle" THEN IdleCall
                                  ELSE [IdleCall EXCEPT !.at = "done"]]
    /\ registry' = Unset /\ holder' = NobodyHolds
    /\ token' = {} /\ overtaken' = FALSE /\ apart' = FALSE
    /\ mixed' = (mixed \/ \E r \in Requests : Half(r))
    /\ UNCHANGED <<fixed, store, live>>

(* Boot: the client is made from the environment, and the registry's first *)
(* Put gives it what the table or the environment says.  An error of the   *)
(* table leaves the integration without its adapter, an error of the       *)
(* adapter without credentials.                                            *)
Boot ==
    /\ ~up /\ up' = TRUE
    /\ LET made == IF name = "makemkv" THEN live ELSE env IN
       \/ /\ hooked' = TRUE /\ registry' = Resolve /\ live' = Taken(Resolve)
          /\ UNCHANGED apart
       \/ /\ hooked' = FALSE /\ registry' = Unset /\ live' = made
          /\ apart' = TRUE
       \/ /\ name = "makemkv" /\ HasAnyValue(Resolve)
          /\ hooked' = TRUE /\ registry' = Unset /\ live' \in {live, Torn}
          /\ apart' = TRUE
    /\ UNCHANGED <<fixed, tableVars, request, holder, crashes, callVars>>

IntegrationsNext ==
    \/ \E r \in Requests :
        \/ PutReads(r) \/ PutWrites(r) \/ DeleteClears(r) \/ RegistryPut(r)
        \/ ReconfigureFails(r) \/ RollbackClears(r) \/ RollbackRestores(r)
        \/ Swap(r) \/ Flush(r)
    \/ \E c \in Callers : CallStarts(c) \/ GetToken(c) \/ Fetched(c)
    \/ TokenExpires \/ Crash \/ Boot

IntegrationsSpec == IntegrationsInit /\ [][IntegrationsNext]_integrationsVars

----------------------------------------------------------------------------
Quiet == up /\ \A r \in Requests : ~InProgress(r)

(* With no request under way a restart would come up with the credentials  *)
(* that are in force: the table and the registry agree, after edits,       *)
(* removals, failed edits that were rolled back, and crashes between the   *)
(* two writes.                                                             *)
RestartKeeps == Quiet /\ ~apart => Resolve = registry

(* The registry shows what the client uses, even when the client refused   *)
(* new credentials: except a MakeMKV key that was removed and stays in the *)
(* file, and an integration that boot left without its adapter.            *)
RegistryIsLive ==
    up /\ hooked /\ holder = NobodyHolds =>
        \/ live = registry
        \/ name = "makemkv" /\ (live = Torn \/ ~HasAnyValue(registry))

(* The cached token belongs to the credentials IGDB calls are made with,   *)
(* unless a call that had copied the old ones fetched it after the flush.  *)
TokenFits ==
    up /\ holder = NobodyHolds => token \subseteq {live} \/ overtaken

(* IGDB's id and secret come from one edit, or the environment, in the     *)
(* registry and in the client, after restarts too; unless the table was    *)
(* left with the id of one edit and the secret of another.                 *)
OneSource(creds) ==
    \A f, g \in DOMAIN creds :
        creds[f] # "" /\ creds[g] # "" => creds[f] = creds[g]
EnteredTogether ==
    name = "igdb" /\ ~mixed => OneSource(registry) /\ OneSource(live)

(* What the program works with is what the user has entered, after any     *)
(* edits, requests in flight and restarts.                                 *)
CredentialsHold ==
    RestartKeeps /\ RegistryIsLive /\ TokenFits /\ EnteredTogether

=============================================================================
