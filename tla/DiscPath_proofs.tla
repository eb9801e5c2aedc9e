-------------------------- MODULE DiscPath_proofs --------------------------
(***************************************************************************)
(* The way of one disc keeps four promises, for any number of requests,    *)
(* IGDB calls, crashes and retries, whatever the servers answer and the    *)
(* user picks: the credentials the program works with are those that were  *)
(* entered (CredentialsHold of Integrations), a disc is recorded as what   *)
(* it is unless a probe the answer hung on is to blame (KindKept of        *)
(* DiscProbe), its row names the candidate that fits it best and tells of  *)
(* no other (IdentifiedRight of Lookup), and what was picked of it is in   *)
(* the library under its own name (Paired of Titles, whose invariant is    *)
(* that of Titles_proofs).                                                 *)
(***************************************************************************)
EXTENDS DiscPath, Titles_proofs

----------------------------------------------------------------------------
(* Integrations.  While no request has failed or overlapped another, the   *)
(* table and the registry are kept together step by step (Together); what  *)
(* the IGDB client holds between its swap and its flush is what the        *)
(* registry is about to enter (Held); a call that has older credentials    *)
(* knows it (CallsKnow).  With these the property is inductive.            *)

(* What a credential can be: unset, from the environment, half written, or  *)
(* what a request entered.                                                  *)
Values == {"", "env", "torn"} \cup Requests
Creds == [Fields(name) -> Values]
Edits == UNION {[F -> Values] : F \in SUBSET Fields(name)}
Parts == SUBSET Fields(name)
Places == {"idle", "write", "put", "clear", "rollback", "restore", "done"}

IntegrationsTyped ==
    /\ name \in Names
    /\ env \in Creds /\ store \in Creds /\ registry \in Creds
    /\ live \in Creds
    /\ hooked \in BOOLEAN /\ up \in BOOLEAN
    /\ apart \in BOOLEAN /\ mixed \in BOOLEAN /\ overtaken \in BOOLEAN
    /\ request \in [Requests -> [at : Places, body : Edits \cup {<<>>},
                                 left : Parts, kept : Creds \cup {<<>>}]]
    /\ \A r \in Requests :
          request[r].at \in {"write", "put", "rollback", "restore"} =>
              request[r].body \in Edits /\ request[r].kept \in Creds
    /\ \A r \in Requests : request[r].at = "write" =>
          request[r].left \subseteq DOMAIN request[r].body
    /\ holder \in Requests \cup {NobodyHolds}
    /\ token \in SUBSET Creds
    /\ call \in [Callers -> [at : {"idle", "snapped", "fetching", "done"},
                             cfg : SUBSET Creds, old : BOOLEAN]]

(* An edit that is being written will leave in the table what the registry  *)
(* is going to enter.                                                       *)
WillFit(r) ==
    /\ Merge(store, request[r].body) = Merge(request[r].kept, request[r].body)
    /\ HasAnyValue(Merge(store, request[r].body))
    /\ \A f \in DOMAIN request[r].body \ request[r].left :
          store[f] = request[r].body[f]

(* The table and the registry while the code keeps them together.           *)
Together ==
    up /\ ~apart =>
        /\ \A r, s \in Requests : InProgress(r) /\ InProgress(s) => r = s
        /\ (\A r \in Requests : ~InProgress(r)) => Resolve = registry
        /\ HasAnyValue(registry) \/ registry = env
        /\ \A r \in Requests :
              /\ request[r].at \in {"write", "put", "rollback", "restore"}
                     => request[r].kept = registry
              /\ request[r].at = "write" => WillFit(r)
              /\ request[r].at \in {"put", "clear"} => Resolve = Wanted(r)

(* Nothing goes on in a process that is down.                               *)
Stopped ==
    ~up => /\ \A r \in Requests : ~InProgress(r)
           /\ \A c \in Callers : call[c].at \notin {"snapped", "fetching"}
           /\ holder = NobodyHolds /\ token = {}

(* The request inside Reconfigure has given the client what it will enter   *)
(* in the registry.                                                         *)
Held ==
    holder # NobodyHolds =>
        /\ up /\ hooked /\ name = "igdb"
        /\ request[holder].at \in {"put", "clear"}
        /\ live = Wanted(holder)

(* A call works with the client's credentials or knows that it is late, and *)
(* so does the token.                                                       *)
CallsKnow ==
    /\ \A c \in Callers : call[c].at \in {"snapped", "fetching"} =>
           name = "igdb" /\ (call[c].cfg = {live} \/ call[c].old)
    /\ name # "igdb" => token = {}
    /\ token \subseteq {live} \/ overtaken \/ holder # NobodyHolds

(* An edit of IGDB enters both fields or none, on top of what is of one     *)
(* source; only MakeMKV's is rolled back.                                   *)
Entered(r) ==
    /\ request[r].at \in {"write", "put"} =>
          /\ OneSource(request[r].kept)
          /\ \A f \in DOMAIN request[r].body : request[r].body[f] = r
          /\ DOMAIN request[r].body \in {{}, Fields(name)}
    /\ request[r].at \notin {"rollback", "restore"}

(* What IGDB has is of one source wherever it is kept; only while one edit  *)
(* is half-written is the table not, and what that edit wrote is its own.   *)
Sourced ==
    name = "igdb" /\ ~mixed =>
        /\ OneSource(env) /\ OneSource(registry) /\ OneSource(live)
        /\ \A r \in Requests :
              /\ Entered(r)
              /\ Half(r) => \A f \in Fields(name) \ request[r].left :
                               store[f] \in {"", r}
        /\ \A r, s \in Requests : Half(r) /\ Half(s) => r = s
        /\ (\A r \in Requests : ~Half(r)) => OneSource(store)

CredInv == /\ IntegrationsTyped /\ Together /\ Stopped /\ Held
           /\ RegistryIsLive /\ CallsKnow /\ Sourced

----------------------------------------------------------------------------
(* What Merge makes of credentials is credentials.                          *)
LEMMA MergeIsCreds ==
    ASSUME NEW a \in Creds, NEW b \in Edits
    PROVE  Merge(a, b) \in Creds
<1>1. PICK F \in SUBSET Fields(name) : b \in [F -> Values]
  BY DEF Edits
<1>2. DOMAIN a = Fields(name) /\ DOMAIN b = F
  BY <1>1 DEF Creds
<1>3. \A f \in Fields(name) :
         (IF f \in DOMAIN b THEN b[f] ELSE a[f]) \in Values
  BY <1>1, <1>2 DEF Creds
<1> QED  BY <1>2, <1>3 DEF Merge, Creds

(* A write that stops half way has written an edit, too.                    *)
LEMMA PartOfEdit ==
    ASSUME NEW b \in Edits, NEW F \in SUBSET DOMAIN b
    PROVE  [f \in F |-> b[f]] \in Edits
<1>1. PICK G \in SUBSET Fields(name) : b \in [G -> Values]
  BY DEF Edits
<1>2. F \in SUBSET Fields(name) /\ [f \in F |-> b[f]] \in [F -> Values]
  BY <1>1
<1> QED  BY <1>2 DEF Edits

(* What validateIntegrationPut lets through is an edit.                     *)
LEMMA BodiesAreEdits ==
    ASSUME name \in Names, NEW r \in Requests
    PROVE  Bodies(r) \subseteq Edits
<1> SUFFICES ASSUME NEW b \in Bodies(r) PROVE b \in Edits
  OBVIOUS
<1>1. CASE name = "igdb"
  <2>1. PICK F \in {{}, Fields(name)} : b = [f \in F |-> r]
    BY <1>1 DEF Bodies
  <2>2. F \in SUBSET Fields(name) /\ b \in [F -> Values]
    BY <2>1 DEF Values
  <2> QED  BY <2>2 DEF Edits
<1>2. CASE name = "makemkv"
  <2>1. PICK F \in SUBSET Fields(name) : b = [f \in F |-> r]
    BY <1>2 DEF Bodies
  <2>2. b \in [F -> Values]
    BY <2>1 DEF Values
  <2> QED  BY <2>1, <2>2 DEF Edits
<1>3. CASE name = "tmdb"
  <2>1. PICK F \in SUBSET Fields(name) : \E lang \in {"", r} :
            b = [f \in F |-> IF f = "key" THEN r ELSE lang]
    BY <1>3 DEF Bodies
  <2>2. b \in [F -> Values]
    BY <2>1 DEF Values
  <2> QED  BY <2>1, <2>2 DEF Edits
<1> QED  BY <1>1, <1>2, <1>3 DEF Names

(* Nothing set, and a file that was half written.                           *)
LEMMA UnsetIsCreds == Unset \in Creds /\ Torn \in Creds /\ ~HasAnyValue(Unset)
BY DEF Unset, Torn, Creds, Values, HasAnyValue

(* What a request asks for is credentials.                                  *)
LEMMA WantedIsCreds ==
    ASSUME IntegrationsTyped, NEW r \in Requests,
           request[r].at \in {"put", "clear"}
    PROVE  Wanted(r) \in Creds
BY MergeIsCreds DEF IntegrationsTyped, Wanted

(* What a request takes for its credentials are credentials.                *)
LEMMA TakenIsCreds ==
    ASSUME live \in Creds, NEW c \in Creds
    PROVE  Taken(c) \in Creds
BY DEF Taken

(* What Resolve returns has a value or is the environment.                  *)
LEMMA ResolveHasValue ==
    /\ HasAnyValue(Resolve) \/ Resolve = env
    /\ env \in Creds /\ store \in Creds => Resolve \in Creds
BY DEF Resolve

(* What the type invariant says of the requests.                            *)
RequestsTyped ==
    /\ request \in [Requests -> [at : Places, body : Edits \cup {<<>>},
                                 left : Parts, kept : Creds \cup {<<>>}]]
    /\ \A r \in Requests :
          request[r].at \in {"write", "put", "rollback", "restore"} =>
              request[r].body \in Edits /\ request[r].kept \in Creds
    /\ \A r \in Requests : request[r].at = "write" =>
          request[r].left \subseteq DOMAIN request[r].body

(* A request that moves on, and nothing else, keeps the types.              *)
LEMMA RequestMoves ==
    ASSUME IntegrationsTyped, NEW r \in Requests,
           NEW where \in Places \ {"write"},
           request' = [request EXCEPT ![r].at = where],
           where \in {"put", "rollback", "restore"} =>
               request[r].at \in {"write", "put", "rollback", "restore"},
           name' = name
    PROVE  /\ RequestsTyped'
           /\ request'[r] = [request[r] EXCEPT !.at = where]
           /\ request'[r].at = where /\ request'[r].kept = request[r].kept
           /\ \A s \in Requests \ {r} : request'[s] = request[s]
<1>1. Creds' = Creds /\ Edits' = Edits /\ Parts' = Parts
  BY DEF Creds, Edits, Parts, Fields, Secret, Values
<1>2. /\ request'[r] = [request[r] EXCEPT !.at = where]
      /\ \A s \in Requests \ {r} : request'[s] = request[s]
  BY DEF IntegrationsTyped
<1>3. request' \in [Requests -> [at : Places, body : Edits \cup {<<>>},
                                 left : Parts, kept : Creds \cup {<<>>}]]
  BY SMTT(30) DEF IntegrationsTyped
<1>4. /\ \A s \in Requests :
            request'[s].at \in {"write", "put", "rollback", "restore"} =>
                request'[s].body \in Edits /\ request'[s].kept \in Creds
      /\ \A s \in Requests : request'[s].at = "write" =>
            request'[s].left \subseteq DOMAIN request'[s].body
  BY <1>2 DEF IntegrationsTyped
<1>5. request'[r].at = where /\ request'[r].kept = request[r].kept
  BY <1>2 DEF IntegrationsTyped
<1>6. RequestsTyped'
  BY <1>1, <1>3, <1>4 DEF RequestsTyped, Places
<1> QED  BY <1>2, <1>5, <1>6

(* While the request inside Reconfigure stands still, so does what it has   *)
(* given to the client.                                                     *)
LEMMA HeldStays ==
    ASSUME IntegrationsTyped, Held, holder' = holder, live' = live,
           name' = name, env' = env, up' = up, hooked' = hooked,
           holder # NobodyHolds => request'[holder] = request[holder]
    PROVE  Held'
<1> SUFFICES ASSUME holder # NobodyHolds PROVE Held'
  BY DEF Held
<1>1. Wanted(holder)' = Wanted(holder)
  BY DEF Wanted, Merge
<1> QED  BY <1>1 DEF Held

(* One request at most is under way while the code keeps the two together:  *)
(* what must hold after its step is about that request alone.               *)
LEMMA OnlyOne ==
    ASSUME NEW r \in Requests,
           \A s \in Requests \ {r} : ~InProgress(s)',
           HasAnyValue(registry') \/ registry' = env',
           InProgress(r)' \/ Resolve' = registry',
           request'[r].at \in {"write", "put", "rollback", "restore"} =>
               request'[r].kept = registry',
           request'[r].at = "write" => WillFit(r)',
           request'[r].at \in {"put", "clear"} => Resolve' = Wanted(r)'
    PROVE  Together'
<1>1. HasAnyValue(registry)' \/ registry' = env'
  BY DEF HasAnyValue
<1>2. \A s \in Requests : request'[s].at \in {"write", "put", "clear",
          "rollback", "restore"} => s = r
  BY DEF InProgress
<1> QED  BY <1>1, <1>2 DEF Together

(* It is the only one.                                                      *)
LEMMA NoOther ==
    ASSUME Together, up, ~apart, NEW r \in Requests, InProgress(r)
    PROVE  /\ \A s \in Requests \ {r} : ~InProgress(s)
           /\ HasAnyValue(registry) \/ registry = env
BY DEF Together

(* The calls have no part in it.                                            *)
LEMMA SameRequests ==
    ASSUME Together,
           UNCHANGED <<name, env, store, registry, request, up, apart>>
    PROVE  Together'
<1>1. \A r \in Requests :
         Wanted(r)' = Wanted(r) /\ InProgress(r)' = InProgress(r)
  BY DEF Wanted, Merge, InProgress
<1>2. Resolve' = Resolve /\ HasAnyValue(registry)' = HasAnyValue(registry)
  BY DEF Resolve, HasAnyValue
<1>3. \A r \in Requests : WillFit(r)' = WillFit(r)
  BY DEF WillFit, Merge, HasAnyValue
<1> QED  BY <1>1, <1>2, <1>3 DEF Together

(* What must be shown of an edit after a step.                              *)
LEMMA FitsAfter ==
    ASSUME NEW r \in Requests, NEW body, NEW merged,
           body = request'[r].body, merged = Merge(store', body),
           merged = Merge(request'[r].kept, body),
           HasAnyValue(merged),
           \A f \in DOMAIN body \ request'[r].left : store'[f] = body[f]
    PROVE  WillFit(r)'
BY DEF WillFit, Merge, HasAnyValue

(* What a request has entered stays entered as it goes on.                  *)
LEMMA StillEntered ==
    ASSUME NEW r \in Requests, Entered(r), name' = name,
           request'[r].body = request[r].body,
           request'[r].kept = request[r].kept,
           request'[r].at \in {"write", "put"} =>
               request[r].at \in {"write", "put"},
           request'[r].at \notin {"rollback", "restore"}
    PROVE  Entered(r)'
<1>1. Fields(name)' = Fields(name)
  BY DEF Fields, Secret
<1>2. OneSource(request[r].kept) => OneSource(request[r].kept)'
  BY DEF OneSource
<1> QED  BY <1>1, <1>2 DEF Entered

(* Nor have the calls a part in where the credentials come from.            *)
LEMMA SameSources ==
    ASSUME Sourced,
           UNCHANGED <<name, env, store, registry, live, request, mixed>>
    PROVE  Sourced'
<1>1. \A r \in Requests : Entered(r)' = Entered(r) /\ Half(r)' = Half(r)
  BY DEF Entered, OneSource, Half, Fields, Secret
<1>2. /\ OneSource(env)' = OneSource(env)
      /\ OneSource(registry)' = OneSource(registry)
      /\ OneSource(live)' = OneSource(live)
      /\ OneSource(store)' = OneSource(store)
  BY DEF OneSource
<1>3. Fields(name)' = Fields(name)
  BY DEF Fields, Secret
<1> QED  BY <1>1, <1>2, <1>3 DEF Sourced

(* A request that is not half-written, before or after, leaves the table as *)
(* it is or clears it.                                                      *)
LEMMA StaysSourced ==
    ASSUME IntegrationsTyped, Sourced, NEW r \in Requests,
           name' = name, env' = env, mixed' = mixed,
           store' \in {store, Unset},
           \A s \in Requests \ {r} : request'[s] = request[s],
           ~Half(r), ~Half(r)',
           name = "igdb" /\ ~mixed =>
               OneSource(registry') /\ OneSource(live') /\ Entered(r)'
    PROVE  Sourced'
<1> SUFFICES ASSUME name = "igdb", ~mixed PROVE Sourced'
  BY DEF Sourced
<1>1. /\ OneSource(env) /\ Fields(name)' = Fields(name)
      /\ \A s \in Requests : Entered(s)
            /\ (Half(s) => \A f \in Fields(name) \ request[s].left :
                               store[f] \in {"", s})
      /\ \A s, t \in Requests : Half(s) /\ Half(t) => s = t
      /\ (\A s \in Requests : ~Half(s)) => OneSource(store)
  BY DEF Sourced, Fields, Secret
<1>2. \A s \in Requests : Half(s)' = Half(s)
  BY DEF Half
<1>3. ASSUME NEW s \in Requests  PROVE Entered(s)'
  <2>1. CASE s = r
    BY <2>1
  <2>2. CASE s # r
    <3>1. request'[s] = request[s] /\ Entered(s)
      BY <1>1, <2>2
    <3>2. request'[s].at \notin {"rollback", "restore"}
      BY <3>1 DEF Entered
    <3> QED  BY <3>1, <3>2, StillEntered
  <2> QED  BY <2>1, <2>2
<1>4. \A f \in Fields(name) : store'[f] \in {store[f], ""}
  BY DEF Unset
<1>5. OneSource(store) => OneSource(store')
  <2>1. CASE store' = store
    BY <2>1
  <2>2. CASE store' = Unset
    BY <2>2 DEF Unset, OneSource
  <2> QED  BY <2>1, <2>2
<1>6. /\ OneSource(env)' /\ OneSource(registry)' /\ OneSource(live)'
      /\ OneSource(store') => OneSource(store)'
  BY <1>1 DEF OneSource
<1>7. \A s \in Requests : Half(s)' =>
         \A f \in Fields(name) \ request'[s].left : store'[f] \in {"", s}
  BY <1>1, <1>2, <1>4
<1> QED  BY <1>1, <1>2, <1>3, <1>5, <1>6, <1>7 DEF Sourced

----------------------------------------------------------------------------
(* PutIntegration begins.                                                   *)
LEMMA CredPutReads ==
    ASSUME CredInv, NEW r \in Requests, PutReads(r)
    PROVE  CredInv'
<1> USE DEF CredInv
<1>1. Creds' = Creds /\ Edits' = Edits /\ Parts' = Parts
  BY DEF PutReads, fixed, Creds, Edits, Parts, Fields, Secret, Values
<1>2. PICK body \in Edits :
         /\ body \in Bodies(r)
         /\ request' = [request EXCEPT ![r] =
                [at |-> "write", body |-> body, left |-> DOMAIN body,
                 kept |-> registry]]
         /\ apart' = (apart \/ Overlaps \/ Confuses(body))
  BY BodiesAreEdits DEF PutReads, IntegrationsTyped
<1>3. DOMAIN body \in Parts
  BY DEF Edits, Parts
<1>4. /\ request'[r] = [at |-> "write", body |-> body, left |-> DOMAIN body,
                        kept |-> registry]
      /\ \A s \in Requests \ {r} : request'[s] = request[s]
      /\ UNCHANGED <<name, env, store, registry, live, up, mixed>>
      /\ request[r].at = "idle" /\ up
  BY <1>2 DEF PutReads, At, IntegrationsTyped, fixed, tableVars, daemonVars
<1>5. IntegrationsTyped'
  <2>1. /\ RequestsTyped'
    BY <1>1, <1>2, <1>3, <1>4 DEF IntegrationsTyped, RequestsTyped, Places
  <2>2. apart' \in BOOLEAN
    BY <1>2 DEF IntegrationsTyped, Confuses, Overlaps, HasAnyValue
  <2> QED  BY <1>1, <1>4, <2>1, <2>2
           DEF PutReads, IntegrationsTyped, RequestsTyped, daemonVars,
               callVars
<1>6. Together'
  <2> SUFFICES ASSUME ~apart' PROVE Together'
    BY DEF Together
  <2>1. /\ ~apart /\ \A s \in Requests : ~InProgress(s)
        /\ HasAnyValue(Merge(store, body))
        /\ HasAnyValue(store) \/ \A f \in Fields(name) \ DOMAIN body :
                                    registry[f] = ""
    BY <1>2 DEF Overlaps, Confuses
  <2>2. Resolve = registry /\ (HasAnyValue(registry) \/ registry = env)
    BY <1>4, <2>1 DEF Together
  <2>3. Merge(store, body) = Merge(registry, body)
    <3>1. CASE HasAnyValue(store)
      BY <2>2, <3>1 DEF Resolve
    <3>2. CASE ~HasAnyValue(store)
      <4>1. /\ DOMAIN store = Fields(name) /\ DOMAIN registry = Fields(name)
        BY DEF IntegrationsTyped, Creds
      <4>2. \A f \in Fields(name) : store[f] = ""
        BY <3>2, <4>1 DEF HasAnyValue
      <4> QED  BY <2>1, <3>2, <4>1, <4>2 DEF Merge
    <3> QED  BY <3>1, <3>2
  <2>4. WillFit(r)'
    <3>1. /\ request'[r].body = body /\ request'[r].left = DOMAIN body
          /\ request'[r].kept = registry /\ store' = store
      BY <1>4
    <3> QED  BY <2>1, <2>3, <3>1, FitsAfter
  <2>5. \A s \in Requests \ {r} : ~InProgress(s)'
    BY <1>4, <2>1 DEF InProgress
  <2> QED  BY <1>4, <2>2, <2>4, <2>5, OnlyOne DEF InProgress
<1>7. Stopped'
  BY <1>4 DEF Stopped
<1>8. Held'
  BY <1>4, HeldStays DEF PutReads, daemonVars, Held, IntegrationsTyped
<1>9. RegistryIsLive' /\ CallsKnow'
  BY <1>4 DEF PutReads, RegistryIsLive, CallsKnow, daemonVars, callVars,
       Torn, HasAnyValue, Fields, Secret
<1>10. Sourced'
  <2>1. ~Half(r) /\ ~Half(r)'
    BY <1>4 DEF Half
  <2>2. ASSUME name = "igdb", ~mixed
        PROVE  OneSource(registry') /\ OneSource(live') /\ Entered(r)'
    <3>1. OneSource(registry) /\ OneSource(live)
      BY <2>2 DEF Sourced
    <3>2. PICK F \in {{}, Fields(name)} : body = [f \in F |-> r]
      BY <1>2, <2>2 DEF Bodies
    <3>3. /\ DOMAIN body \in {{}, Fields(name)}
          /\ \A f \in DOMAIN body : body[f] = r
      BY <3>2
    <3> QED  BY <1>4, <3>1, <3>3 DEF Entered, Fields, Secret
  <2> QED  BY <1>4, <2>1, <2>2, StaysSourced
<1> QED  BY <1>5, <1>6, <1>7, <1>8, <1>9, <1>10

(* It writes a field.                                                       *)
LEMMA FieldWritten ==
    ASSUME IntegrationsTyped, Together, Sourced, NEW r \in Requests,
           request[r].at = "write", up, NEW f \in request[r].left,
           store' = [store EXCEPT ![f] = request[r].body[f]],
           request' = [request EXCEPT ![r].left = @ \ {f}],
           mixed' = (mixed \/ \E s \in Requests \ {r} : Half(s)),
           UNCHANGED <<name, env, registry, live, up, apart>>
    PROVE  /\ store' \in Creds /\ RequestsTyped' /\ mixed' \in BOOLEAN
           /\ request'[r].at = "write"
           /\ \A s \in Requests \ {r} : request'[s] = request[s]
           /\ Together' /\ Sourced'
<1> DEFINE body == request[r].body
           left == request[r].left
<1>1. Creds' = Creds /\ Edits' = Edits /\ Parts' = Parts
  BY DEF Creds, Edits, Parts, Fields, Secret, Values
<1>2. /\ body \in Edits /\ left \subseteq DOMAIN body /\ left \in Parts
      /\ request[r].kept \in Creds /\ store \in Creds
  BY DEF IntegrationsTyped
<1>3. /\ request'[r] = [request[r] EXCEPT !.left = left \ {f}]
      /\ \A s \in Requests \ {r} : request'[s] = request[s]
  BY DEF IntegrationsTyped
<1>4. /\ request'[r].at = "write" /\ request'[r].body = body
      /\ request'[r].left = left \ {f}
      /\ request'[r].kept = request[r].kept
  BY <1>3 DEF IntegrationsTyped
<1>5. /\ f \in Fields(name) /\ f \in DOMAIN body /\ body[f] \in Values
      /\ DOMAIN store = Fields(name)
  BY <1>2 DEF Creds, Edits, Parts
<1>6. store' \in Creds
  BY <1>2, <1>5 DEF Creds
<1>7. RequestsTyped'
  <2>1. left \ {f} \in Parts
    BY <1>2 DEF Parts
  <2>2. request' \in [Requests -> [at : Places, body : Edits \cup {<<>>},
                                 left : Parts, kept : Creds \cup {<<>>}]]
    <3>1. request \in [Requests -> [at : Places, body : Edits \cup {<<>>},
                                 left : Parts, kept : Creds \cup {<<>>}]]
      BY DEF IntegrationsTyped
    <3>2. [request[r] EXCEPT !.left = left \ {f}] \in
             [at : Places, body : Edits \cup {<<>>}, left : Parts,
              kept : Creds \cup {<<>>}]
      BY <2>1, <3>1
    <3>3. request' = [request EXCEPT ![r] =
                         [request[r] EXCEPT !.left = left \ {f}]]
      BY <3>1
    <3> QED  BY <3>1, <3>2, <3>3
  <2>3. /\ \A s \in Requests :
            request'[s].at \in {"write", "put", "rollback", "restore"} =>
                request'[s].body \in Edits /\ request'[s].kept \in Creds
        /\ \A s \in Requests : request'[s].at = "write" =>
            request'[s].left \subseteq DOMAIN request'[s].body
    BY <1>2, <1>3, <1>4 DEF IntegrationsTyped
  <2> QED  BY <1>1, <2>2, <2>3 DEF RequestsTyped, Places
<1>8. mixed' \in BOOLEAN
  BY DEF IntegrationsTyped, Half
<1>9. store'[f] = body[f] /\ \A g \in Fields(name) \ {f} : store'[g] = store[g]
  BY <1>2, <1>5 DEF Creds
<1>10. Together'
  <2> SUFFICES ASSUME ~apart PROVE Together'
    BY DEF Together
  <2>1. /\ WillFit(r) /\ request[r].kept = registry
        /\ \A s \in Requests \ {r} : ~InProgress(s)
        /\ HasAnyValue(registry) \/ registry = env
    BY NoOther DEF Together, InProgress
  <2>2. Merge(store', body) = Merge(store, body)
    BY <1>5, <1>6, <1>9 DEF Merge, Creds
  <2>3. WillFit(r)'
    <3>1. \A g \in DOMAIN body \ (left \ {f}) : store'[g] = body[g]
      <4>1. DOMAIN body \subseteq Fields(name)
        BY <1>2 DEF Edits
      <4> QED  BY <1>9, <2>1, <4>1 DEF WillFit
    <3>2. /\ Merge(store', body) = Merge(request'[r].kept, body)
          /\ HasAnyValue(Merge(store', body))
      BY <1>4, <2>1, <2>2 DEF WillFit
    <3> QED  BY <1>4, <3>1, <3>2, FitsAfter
  <2>4. \A s \in Requests \ {r} : ~InProgress(s)'
    BY <1>3, <2>1 DEF InProgress
  <2> QED  BY <1>4, <2>1, <2>3, <2>4, OnlyOne DEF InProgress
<1>11. Sourced'
  <2> SUFFICES ASSUME name = "igdb", ~mixed, \A s \in Requests \ {r} : ~Half(s)
               PROVE  Sourced'
    BY DEF Sourced
  <2>1. /\ OneSource(env) /\ OneSource(registry) /\ OneSource(live)
        /\ Fields(name)' = Fields(name)
        /\ \A s \in Requests : Entered(s)
        /\ Half(r) => \A g \in Fields(name) \ left : store[g] \in {"", r}
    BY DEF Sourced, Fields, Secret
  <2>2. DOMAIN body = Fields(name) /\ \A g \in Fields(name) : body[g] = r
    BY <1>5, <2>1 DEF Entered
  <2>3. \A g \in Fields(name) \ left : store[g] \in {"", r}
    BY <1>2, <2>1, <2>2 DEF Half
  <2>4. \A g \in Fields(name) \ (left \ {f}) : store'[g] \in {"", r}
    BY <1>5, <1>9, <2>2, <2>3
  <2>5. \A s \in Requests \ {r} : ~Half(s)'
    BY <1>3 DEF Half
  <2>6. ASSUME NEW s \in Requests  PROVE Entered(s)'
    <3>1. /\ request'[s].at = request[s].at
          /\ request'[s].body = request[s].body
          /\ request'[s].kept = request[s].kept
      BY <1>3, <1>4
    <3>2. Entered(s) /\ request[s].at \notin {"rollback", "restore"}
      BY <2>1 DEF Entered
    <3> QED  BY <3>1, <3>2, StillEntered
  <2>7. ~Half(r)' => OneSource(store)'
    <3> SUFFICES ASSUME ~Half(r)' PROVE OneSource(store)'
      OBVIOUS
    <3>1. left \ {f} = {}
      BY <1>4, <1>5 DEF Half
    <3>2. \A g \in DOMAIN store' : store'[g] \in {"", r}
      BY <1>5, <2>4, <3>1
    <3> QED  BY <3>2 DEF OneSource
  <2>8. OneSource(env)' /\ OneSource(registry)' /\ OneSource(live)'
    BY <2>1 DEF OneSource
  <2> QED  BY <1>4, <2>1, <2>4, <2>5, <2>6, <2>7, <2>8 DEF Sourced
<1> QED  BY <1>3, <1>4, <1>6, <1>7, <1>8, <1>10, <1>11

(* It writes a field, is done with the table, or stops.                     *)
LEMMA CredPutWrites ==
    ASSUME CredInv, NEW r \in Requests, PutWrites(r)
    PROVE  CredInv'
<1> USE DEF CredInv
<1>1. Creds' = Creds /\ Edits' = Edits /\ Parts' = Parts
  BY DEF PutWrites, fixed, Creds, Edits, Parts, Fields, Secret, Values
<1>2. /\ request[r].at = "write" /\ up /\ up'
      /\ UNCHANGED <<name, env, registry, live, holder, hooked>>
      /\ UNCHANGED <<token, call, overtaken>>
      /\ request[r].body \in Edits /\ request[r].kept \in Creds
      /\ request[r].left \subseteq DOMAIN request[r].body
      /\ store \in Creds /\ env \in Creds
  BY DEF PutWrites, At, daemonVars, IntegrationsTyped, fixed, callVars
<1>3. /\ store' \in Creds /\ RequestsTyped'
      /\ mixed' \in BOOLEAN /\ apart' \in BOOLEAN
      /\ \A s \in Requests \ {r} : request'[s] = request[s]
      /\ Together' /\ Sourced'
  <2>1. CASE /\ \E f \in request[r].left :
                   /\ store' = [store EXCEPT ![f] = request[r].body[f]]
                   /\ request' = [request EXCEPT ![r].left = @ \ {f}]
             /\ mixed' = (mixed \/ \E s \in Requests \ {r} : Half(s))
             /\ UNCHANGED apart
    BY <1>2, <2>1, FieldWritten DEF IntegrationsTyped
  <2>2. CASE /\ request[r].left = {} /\ Moves(r, "put")
             /\ UNCHANGED <<tableVars, apart>>
    <3>1. "put" \in Places \ {"write"} /\ store' = store /\ mixed' = mixed
      BY <2>2 DEF Places, tableVars
    <3>2. /\ RequestsTyped'
          /\ request'[r] = [request[r] EXCEPT !.at = "put"]
          /\ request'[r].at = "put" /\ request'[r].kept = request[r].kept
          /\ \A s \in Requests \ {r} : request'[s] = request[s]
      BY <1>2, <2>2, <3>1, RequestMoves DEF Moves
    <3>3. request'[r].body = request[r].body
      BY <3>2 DEF IntegrationsTyped
    <3>4. Together'
      <4> SUFFICES ASSUME ~apart PROVE Together'
        BY <2>2 DEF Together
      <4>1. /\ \A s \in Requests \ {r} : ~InProgress(s)
            /\ HasAnyValue(registry) \/ registry = env
            /\ request[r].kept = registry /\ WillFit(r)
        BY <1>2, NoOther DEF Together, InProgress
      <4>2. Merge(store, request[r].body) = store
        <5>1. \A f \in DOMAIN store :
                 (IF f \in DOMAIN request[r].body THEN request[r].body[f]
                  ELSE store[f]) = store[f]
          BY <2>2, <4>1 DEF WillFit
        <5> QED  BY <1>2, <5>1 DEF Merge, Creds
      <4>3. Resolve' = store
        BY <3>1, <4>1, <4>2 DEF WillFit, Resolve
      <4>4. Wanted(r)' = Merge(request[r].kept, request[r].body)
        BY <3>2, <3>3 DEF Wanted, Merge
      <4>5. Resolve' = Wanted(r)'
        BY <4>1, <4>2, <4>3, <4>4 DEF WillFit
      <4>6. \A s \in Requests \ {r} : ~InProgress(s)'
        BY <3>2, <4>1 DEF InProgress
      <4> QED  BY <1>2, <3>2, <4>1, <4>5, <4>6, OnlyOne DEF InProgress
    <3>5. Sourced'
      <4>1. ~Half(r) /\ ~Half(r)'
        BY <2>2, <3>2 DEF Half
      <4>2. name = "igdb" /\ ~mixed =>
               OneSource(registry') /\ OneSource(live') /\ Entered(r)'
        <5> SUFFICES ASSUME name = "igdb", ~mixed
                     PROVE  OneSource(registry') /\ OneSource(live')
                            /\ Entered(r)'
          OBVIOUS
        <5>1. OneSource(registry) /\ OneSource(live) /\ Entered(r)
          BY DEF Sourced
        <5>2. Entered(r)'
          BY <1>2, <3>2, <3>3, <5>1, StillEntered
        <5> QED  BY <1>2, <5>1, <5>2
      <4> QED  BY <1>2, <3>1, <3>2, <4>1, <4>2, StaysSourced
    <3> QED  BY <1>2, <2>2, <3>1, <3>2, <3>4, <3>5 DEF IntegrationsTyped
  <2>3. CASE /\ request[r].left # {} /\ Moves(r, "done")
             /\ apart' = TRUE /\ mixed' = (mixed \/ Half(r))
             /\ UNCHANGED store
    <3>1. "done" \in Places \ {"write"} /\ mixed' \in BOOLEAN
      BY <2>3 DEF Places, Half, IntegrationsTyped
    <3>2. /\ RequestsTyped' /\ request'[r].at = "done"
          /\ \A s \in Requests \ {r} : request'[s] = request[s]
      BY <1>2, <2>3, <3>1, RequestMoves DEF Moves
    <3>3. Together'
      BY <2>3 DEF Together
    <3>4. Sourced'
      <4> SUFFICES ASSUME name = "igdb", ~mixed, ~Half(r) PROVE Sourced'
        BY <1>2, <2>3 DEF Sourced
      <4>1. mixed' = mixed
        BY <2>3 DEF IntegrationsTyped, Half
      <4>2. ~Half(r)'
        BY <3>2 DEF Half
      <4>3. OneSource(registry') /\ OneSource(live') /\ Entered(r)'
        BY <1>2, <3>2 DEF Sourced, Entered
      <4> QED  BY <1>2, <2>3, <3>2, <4>1, <4>2, <4>3, StaysSourced
    <3> QED  BY <1>2, <2>3, <3>1, <3>2, <3>3, <3>4
  <2> QED  BY <2>1, <2>2, <2>3 DEF PutWrites
<1>4. IntegrationsTyped'
  BY <1>1, <1>2, <1>3 DEF IntegrationsTyped, RequestsTyped
<1>5. Stopped'
  BY <1>2 DEF Stopped
<1>6. Held'
  BY <1>2, <1>3, HeldStays DEF Held, IntegrationsTyped
<1>7. RegistryIsLive' /\ CallsKnow'
  BY <1>2 DEF RegistryIsLive, CallsKnow, Torn, HasAnyValue, Fields, Secret
<1> QED  BY <1>3, <1>4, <1>5, <1>6, <1>7

(* DeleteIntegration clears the table, or fails.                            *)
LEMMA CredDeleteClears ==
    ASSUME CredInv, NEW r \in Requests, DeleteClears(r)
    PROVE  CredInv'
<1> USE DEF CredInv
<1>1. Creds' = Creds /\ Edits' = Edits /\ Parts' = Parts
  BY DEF DeleteClears, fixed, Creds, Edits, Parts, Fields, Secret, Values
<1>2. /\ request[r].at = "idle" /\ up /\ up' /\ env \in Creds
      /\ \/ store' = Unset /\ Moves(r, "clear")
            /\ apart' = (apart \/ Overlaps)
         \/ store' = store /\ apart' = apart /\ Moves(r, "done")
  BY DEF DeleteClears, At, daemonVars, IntegrationsTyped
<1>3. /\ RequestsTyped'
      /\ request'[r].at = "clear" \/ request'[r].at = "done"
      /\ \A s \in Requests \ {r} : request'[s] = request[s]
  <2>1. PICK where \in {"clear", "done"} :
            request' = [request EXCEPT ![r].at = where]
    BY <1>2 DEF Moves
  <2>2. where \in Places \ {"write"} /\ name' = name
    BY <2>1 DEF DeleteClears, fixed, Places
  <2>3. /\ RequestsTyped'
        /\ request'[r] = [request[r] EXCEPT !.at = where]
        /\ \A s \in Requests \ {r} : request'[s] = request[s]
    BY <2>1, <2>2, RequestMoves
  <2> QED  BY <2>1, <2>3 DEF IntegrationsTyped
<1>4. IntegrationsTyped'
  <2>1. store' \in Creds
    BY <1>2, UnsetIsCreds DEF IntegrationsTyped
  <2>2. apart' \in BOOLEAN
    BY <1>2 DEF Overlaps, IntegrationsTyped
  <2> QED  BY <1>1, <1>3, <2>1, <2>2
           DEF DeleteClears, IntegrationsTyped, fixed, daemonVars, callVars,
               RequestsTyped
<1>5. Together'
  <2> SUFFICES ASSUME ~apart' PROVE Together'
    BY DEF Together
  <2>1. registry' = registry /\ env' = env
    BY DEF DeleteClears, fixed
  <2>2. CASE /\ store' = Unset /\ Moves(r, "clear")
             /\ apart' = (apart \/ Overlaps)
    <3>1. up /\ ~apart /\ \A s \in Requests : ~InProgress(s)
      BY <1>2, <2>2 DEF Overlaps
    <3>2. HasAnyValue(registry) \/ registry = env
      BY <3>1 DEF Together
    <3>3. request'[r].at = "clear"
      BY <2>2 DEF Moves, IntegrationsTyped
    <3>4. Resolve' = env'
      BY <2>2, UnsetIsCreds DEF Resolve, HasAnyValue
    <3>5. Wanted(r)' = env'
      BY <3>3 DEF Wanted
    <3>6. \A s \in Requests \ {r} : ~InProgress(s)'
      BY <1>3, <3>1 DEF InProgress
    <3> QED  BY <2>1, <3>2, <3>3, <3>4, <3>5, <3>6, OnlyOne DEF InProgress
  <2>3. CASE store' = store /\ apart' = apart /\ Moves(r, "done")
    <3>1. ~InProgress(r) /\ ~InProgress(r)'
      BY <1>2, <2>3 DEF InProgress, Moves, IntegrationsTyped
    <3>2. Resolve' = Resolve
      BY <2>1, <2>3 DEF Resolve, HasAnyValue
    <3>3. \A s \in Requests : InProgress(s)' = InProgress(s)
      BY <1>3, <3>1 DEF InProgress
    <3>4. \A s \in Requests \ {r} : Wanted(s)' = Wanted(s)
      BY <1>3, <2>1 DEF Wanted, Merge
    <3>5. request'[r].at = "done"
      BY <2>3 DEF Moves, IntegrationsTyped
    <3>6. HasAnyValue(registry)' = HasAnyValue(registry)
      BY <2>1 DEF HasAnyValue
    <3>7. \A s \in Requests \ {r} : WillFit(s)' = WillFit(s)
      BY <1>3, <2>3 DEF WillFit, Merge, HasAnyValue
    <3> QED  BY <1>2, <1>3, <2>1, <2>3, <3>2, <3>3, <3>4, <3>5, <3>6, <3>7
             DEF Together
  <2> QED  BY <1>2, <2>2, <2>3
<1>6. Stopped'
  BY <1>2 DEF Stopped
<1>7. Held'
  BY <1>2, <1>3, HeldStays DEF DeleteClears, Held, fixed, daemonVars,
       IntegrationsTyped
<1>8. RegistryIsLive' /\ CallsKnow'
  BY DEF DeleteClears, RegistryIsLive, CallsKnow, fixed, daemonVars,
       callVars, Torn, HasAnyValue, Fields, Secret
<1>9. Sourced'
  <2>1. ~Half(r) /\ ~Half(r)'
    BY <1>2, <1>3 DEF Half
  <2>2. /\ UNCHANGED <<name, env, mixed, registry, live>>
        /\ store' \in {store, Unset}
    BY <1>2 DEF DeleteClears, fixed
  <2>3. name = "igdb" /\ ~mixed =>
           OneSource(registry') /\ OneSource(live') /\ Entered(r)'
    BY <1>3, <2>2 DEF Sourced, Entered
  <2> QED  BY <1>3, <2>1, <2>2, <2>3, StaysSourced
<1> QED  BY <1>4, <1>5, <1>6, <1>7, <1>8, <1>9

(* The registry takes what the request wants, from Registry.Put itself or   *)
(* when the IGDB client is done.                                            *)
LEMMA RegistryTakes ==
    ASSUME CredInv, NEW r \in Requests, request[r].at \in {"put", "clear"},
           registry' = Wanted(r), Moves(r, "done"), fixed' = fixed,
           tableVars' = tableVars, apart' = apart, up' = up,
           live' = live \/ live' = Wanted(r) \/ name # "igdb"
    PROVE  /\ Together' /\ RequestsTyped' /\ registry' \in Creds
           /\ Sourced'
           /\ \A s \in Requests \ {r} : request'[s] = request[s]
<1> USE DEF CredInv
<1>1. name' = name /\ env' = env /\ store' = store /\ mixed' = mixed
  BY DEF fixed, tableVars
<1>2. /\ RequestsTyped' /\ request'[r].at = "done"
      /\ \A s \in Requests \ {r} : request'[s] = request[s]
  <2>1. /\ "done" \in Places \ {"write"}
        /\ request' = [request EXCEPT ![r].at = "done"]
    BY DEF Places, Moves
  <2> QED  BY <1>1, <2>1, RequestMoves
<1>3. registry' \in Creds
  BY WantedIsCreds
<1>4. Together'
  <2> SUFFICES ASSUME up, ~apart PROVE Together'
    BY DEF Together
  <2>1. InProgress(r)
    BY DEF InProgress
  <2>2. Resolve = Wanted(r) /\ \A s \in Requests \ {r} : ~InProgress(s)
    BY <2>1, NoOther DEF Together
  <2>3. Resolve' = registry'
    BY <1>1, <2>2 DEF Resolve, HasAnyValue
  <2>4. HasAnyValue(registry') \/ registry' = env'
    BY <1>1, <2>2, ResolveHasValue
  <2>5. \A s \in Requests \ {r} : ~InProgress(s)'
    BY <1>2, <2>2 DEF InProgress
  <2> QED  BY <1>2, <2>3, <2>4, <2>5, OnlyOne
<1>5. Sourced'
  <2>1. ~Half(r) /\ ~Half(r)'
    BY <1>2 DEF Half
  <2>2. ASSUME name = "igdb", ~mixed
        PROVE  OneSource(registry') /\ OneSource(live') /\ Entered(r)'
    <3>1. OneSource(live) /\ OneSource(env) /\ Entered(r)
      BY <2>2 DEF Sourced
    <3>2. CASE request[r].at = "put"
      <4>1. /\ request[r].body \in Edits /\ request[r].kept \in Creds
            /\ OneSource(request[r].kept)
            /\ \A f \in DOMAIN request[r].body : request[r].body[f] = r
            /\ DOMAIN request[r].body \in {{}, Fields(name)}
        BY <3>1, <3>2 DEF Entered, IntegrationsTyped
      <4>2. Wanted(r) = Merge(request[r].kept, request[r].body)
        BY <3>2 DEF Wanted
      <4>3. DOMAIN request[r].kept = Fields(name)
        BY <4>1 DEF Creds
      <4>4. OneSource(Wanted(r))
        BY <4>1, <4>2, <4>3 DEF Merge, OneSource
      <4> QED  BY <1>2, <3>1, <4>4, <2>2 DEF Entered
    <3>3. CASE request[r].at = "clear"
      BY <1>2, <2>2, <3>1, <3>3 DEF Wanted, Entered
    <3> QED  BY <3>2, <3>3
  <2> QED  BY <1>1, <1>2, <2>1, <2>2, StaysSourced
<1> QED  BY <1>2, <1>3, <1>4, <1>5

(* Registry.Put, with a client that swaps in one step.                      *)
LEMMA CredRegistryPut ==
    ASSUME CredInv, NEW r \in Requests, RegistryPut(r)
    PROVE  CredInv'
<1> USE DEF CredInv
<1>1. Creds' = Creds /\ Edits' = Edits /\ Parts' = Parts
  BY DEF RegistryPut, fixed, Creds, Edits, Parts, Fields, Secret, Values
<1>2. /\ request[r].at \in {"put", "clear"} /\ up /\ up' = up
      /\ hooked' = hooked /\ name' = name
      /\ holder = NobodyHolds /\ holder' = NobodyHolds
      /\ registry' = Wanted(r) /\ Wanted(r) \in Creds
  BY WantedIsCreds DEF RegistryPut, At, daemonVars, fixed
<1>3. Together' /\ RequestsTyped' /\ registry' \in Creds /\ Sourced'
  BY <1>2, RegistryTakes DEF RegistryPut, Taken
<1>4. live' \in Creds
  BY <1>2, TakenIsCreds DEF RegistryPut, IntegrationsTyped
<1>5. IntegrationsTyped'
  BY <1>1, <1>3, <1>4
  DEF RegistryPut, IntegrationsTyped, fixed, daemonVars, callVars,
      tableVars, RequestsTyped
<1>6. Stopped' /\ Held'
  BY <1>2 DEF Stopped, Held
<1>7. RegistryIsLive'
  BY <1>2 DEF RegistryPut, RegistryIsLive, Taken, HasAnyValue
<1>8. CallsKnow'
  BY <1>2 DEF RegistryPut, CallsKnow, callVars, IntegrationsTyped
<1> QED  BY <1>3, <1>5, <1>6, <1>7, <1>8

(* The settings file of MakeMKV cannot be written.                          *)
LEMMA CredReconfigureFails ==
    ASSUME CredInv, NEW r \in Requests, ReconfigureFails(r)
    PROVE  CredInv'
<1> USE DEF CredInv
<1>1. Creds' = Creds /\ Edits' = Edits /\ Parts' = Parts
  BY DEF ReconfigureFails, fixed, Creds, Edits, Parts, Fields, Secret, Values
<1>2. /\ request[r].at \in {"put", "clear"} /\ up /\ up' = up
      /\ hooked' = hooked /\ name' = name /\ env' = env
      /\ name = "makemkv" /\ holder = NobodyHolds /\ holder' = NobodyHolds
      /\ live' \in {live, Torn} /\ registry' = registry
  BY DEF ReconfigureFails, At, daemonVars, fixed, Held
<1>3. \/ /\ request[r].at = "put" /\ apart' = apart
         /\ request' = [request EXCEPT ![r].at = "rollback"]
      \/ apart' = TRUE /\ request' = [request EXCEPT ![r].at = "done"]
  BY DEF ReconfigureFails, Moves
<1>4. /\ RequestsTyped'
      /\ request'[r].kept = request[r].kept
      /\ \A s \in Requests \ {r} : request'[s] = request[s]
  <2>1. PICK where \in {"rollback", "done"} :
            /\ request' = [request EXCEPT ![r].at = where]
            /\ where = "rollback" => request[r].at = "put"
    BY <1>3
  <2>2. where \in Places \ {"write"}
    BY <2>1 DEF Places
  <2>3. /\ RequestsTyped'
        /\ request'[r] = [request[r] EXCEPT !.at = where]
        /\ \A s \in Requests \ {r} : request'[s] = request[s]
    BY <1>2, <2>1, <2>2, RequestMoves
  <2> QED  BY <2>3 DEF IntegrationsTyped
<1>5. IntegrationsTyped'
  <2>1. live' \in Creds /\ apart' \in BOOLEAN
    BY <1>2, <1>3, UnsetIsCreds DEF IntegrationsTyped
  <2> QED  BY <1>1, <1>4, <2>1
           DEF ReconfigureFails, IntegrationsTyped, fixed, daemonVars,
               callVars, tableVars, RequestsTyped
<1>6. Together'
  <2> SUFFICES ASSUME ~apart' PROVE Together'
    BY DEF Together
  <2>1. request[r].at = "put" /\ ~apart /\ request'[r].at = "rollback"
    BY <1>3 DEF IntegrationsTyped
  <2>2. /\ request[r].kept = registry
        /\ \A s \in Requests \ {r} : ~InProgress(s)
        /\ HasAnyValue(registry) \/ registry = env
    BY <1>2, <2>1, NoOther DEF Together, InProgress
  <2>3. \A s \in Requests \ {r} : ~InProgress(s)'
    BY <1>4, <2>2 DEF InProgress
  <2> QED  BY <1>2, <1>4, <2>1, <2>2, <2>3, OnlyOne DEF InProgress
<1>7. Stopped' /\ Held'
  BY <1>2 DEF Stopped, Held
<1>8. RegistryIsLive'
  BY <1>2 DEF RegistryIsLive, Torn, Fields, Secret, HasAnyValue
<1>9. CallsKnow'
  BY <1>2 DEF ReconfigureFails, CallsKnow, callVars, IntegrationsTyped
<1>10. Sourced'
  BY <1>2 DEF Sourced
<1> QED  BY <1>5, <1>6, <1>7, <1>8, <1>9, <1>10

(* PutIntegration takes back what it wrote: first it removes the fields.    *)
LEMMA CredRollbackClears ==
    ASSUME CredInv, NEW r \in Requests, RollbackClears(r)
    PROVE  CredInv'
<1> USE DEF CredInv
<1>1. Creds' = Creds /\ Edits' = Edits /\ Parts' = Parts
  BY DEF RollbackClears, fixed, Creds, Edits, Parts, Fields, Secret, Values
<1>2. /\ request[r].at = "rollback" /\ up /\ up' = up
      /\ request' = [request EXCEPT ![r].at = "restore"]
      /\ name' = name /\ env' = env /\ registry' = registry
      /\ apart' = apart /\ mixed' = mixed /\ live' = live
      /\ store' \in {store, Unset}
  BY DEF RollbackClears, At, Moves, daemonVars, fixed
<1>3. /\ RequestsTyped' /\ request'[r].at = "restore"
      /\ request'[r].kept = request[r].kept
      /\ \A s \in Requests \ {r} : request'[s] = request[s]
  <2>1. "restore" \in Places \ {"write"}
    BY DEF Places
  <2> QED  BY <1>2, <2>1, RequestMoves
<1>4. IntegrationsTyped'
  BY <1>1, <1>2, <1>3, UnsetIsCreds
  DEF RollbackClears, IntegrationsTyped, fixed, daemonVars, callVars,
      RequestsTyped
<1>5. Together'
  <2> SUFFICES ASSUME ~apart PROVE Together'
    BY <1>2 DEF Together
  <2>1. /\ request[r].kept = registry
        /\ \A s \in Requests \ {r} : ~InProgress(s)
        /\ HasAnyValue(registry) \/ registry = env
    BY <1>2, NoOther DEF Together, InProgress
  <2>2. \A s \in Requests \ {r} : ~InProgress(s)'
    BY <1>3, <2>1 DEF InProgress
  <2> QED  BY <1>2, <1>3, <2>1, <2>2, OnlyOne DEF InProgress
<1>6. Stopped'
  BY <1>2 DEF Stopped
<1>7. Held'
  BY <1>2, <1>3, HeldStays DEF RollbackClears, Held, daemonVars,
       IntegrationsTyped
<1>8. RegistryIsLive' /\ CallsKnow'
  BY <1>2 DEF RollbackClears, RegistryIsLive, CallsKnow, daemonVars,
       callVars, Torn, HasAnyValue, Fields, Secret
<1>9. Sourced'
  <2>1. ~(name = "igdb" /\ ~mixed)
    BY <1>2 DEF Sourced, Entered
  <2> QED  BY <1>2, <2>1 DEF Sourced
<1> QED  BY <1>4, <1>5, <1>6, <1>7, <1>8, <1>9

(* Then it writes back what it found in the registry.                       *)
LEMMA CredRollbackRestores ==
    ASSUME CredInv, NEW r \in Requests, RollbackRestores(r)
    PROVE  CredInv'
<1> USE DEF CredInv
<1>1. Creds' = Creds /\ Edits' = Edits /\ Parts' = Parts
  BY DEF RollbackRestores, fixed, Creds, Edits, Parts, Fields, Secret, Values
<1>2. /\ request[r].at = "restore" /\ up /\ up' = up
      /\ request' = [request EXCEPT ![r].at = "done"]
      /\ name' = name /\ env' = env /\ registry' = registry
      /\ mixed' = mixed
      /\ store' \in {store} \cup ({request[r].kept} \ {Unset})
      /\ apart' = (apart \/ store' # request[r].kept)
  BY DEF RollbackRestores, At, Moves, daemonVars, fixed
<1>3. /\ RequestsTyped' /\ request'[r].at = "done"
      /\ \A s \in Requests \ {r} : request'[s] = request[s]
  <2>1. "done" \in Places \ {"write"}
    BY DEF Places
  <2> QED  BY <1>2, <2>1, RequestMoves
<1>4. IntegrationsTyped'
  <2>1. store' \in Creds
    BY <1>2 DEF IntegrationsTyped
  <2>2. apart' \in BOOLEAN
    BY <1>2 DEF IntegrationsTyped
  <2> QED  BY <1>1, <1>2, <1>3, <2>1, <2>2
           DEF RollbackRestores, IntegrationsTyped, fixed, daemonVars,
               callVars, RequestsTyped
<1>5. Together'
  <2> SUFFICES ASSUME ~apart' PROVE Together'
    BY DEF Together
  <2>1. /\ request[r].kept = registry
        /\ \A s \in Requests \ {r} : ~InProgress(s)
        /\ HasAnyValue(registry) \/ registry = env
        /\ store' = request[r].kept
    BY <1>2, NoOther DEF Together, InProgress
  <2>2. \A s \in Requests \ {r} : ~InProgress(s)'
    BY <1>3, <2>1 DEF InProgress
  <2>3. Resolve' = registry'
    BY <1>2, <2>1 DEF Resolve, HasAnyValue
  <2> QED  BY <1>2, <1>3, <2>1, <2>2, <2>3, OnlyOne DEF InProgress
<1>6. Stopped'
  BY <1>2 DEF Stopped
<1>7. Held'
  BY <1>2, <1>3, HeldStays DEF RollbackRestores, Held, daemonVars,
       IntegrationsTyped
<1>8. RegistryIsLive' /\ CallsKnow'
  BY <1>2 DEF RollbackRestores, RegistryIsLive, CallsKnow, daemonVars,
       callVars, Torn, HasAnyValue, Fields, Secret
<1>9. Sourced'
  <2>1. ~(name = "igdb" /\ ~mixed)
    BY <1>2 DEF Sourced, Entered
  <2> QED  BY <1>2, <2>1 DEF Sourced
<1> QED  BY <1>4, <1>5, <1>6, <1>7, <1>8, <1>9

(* The IGDB client swaps its configuration: every call under way is late.   *)
LEMMA CredSwap ==
    ASSUME CredInv, NEW r \in Requests, Swap(r)
    PROVE  CredInv'
<1> USE DEF CredInv
<1>1. Creds' = Creds /\ Edits' = Edits /\ Parts' = Parts
  BY DEF Swap, fixed, Creds, Edits, Parts, Fields, Secret, Values
<1>2. /\ request[r].at \in {"put", "clear"} /\ up /\ up' = up
      /\ hooked /\ hooked' /\ name = "igdb" /\ name' = name /\ env' = env
      /\ store' = store /\ registry' = registry /\ request' = request
      /\ apart' = apart /\ token' = token /\ overtaken' = overtaken
      /\ live' = Wanted(r) /\ holder' = r /\ r # NobodyHolds
      /\ mixed' = mixed
  BY IntegrationsAssumption DEF Swap, At, daemonVars, fixed, tableVars
<1>3. \A s \in Requests :
         Wanted(s)' = Wanted(s) /\ InProgress(s)' = InProgress(s)
  BY <1>2 DEF Wanted, Merge, InProgress
<1>4. Resolve' = Resolve /\ HasAnyValue(registry)' = HasAnyValue(registry)
  BY <1>2 DEF Resolve, HasAnyValue
<1>5. /\ call' \in [Callers -> [at : {"idle", "snapped", "fetching", "done"},
                             cfg : SUBSET Creds, old : BOOLEAN]]
      /\ \A c \in Callers :
            call'[c].at \in {"snapped", "fetching"} => call'[c].old
  BY ZenonT(60) DEF Swap, AgeCalls, IntegrationsTyped
<1>6. IntegrationsTyped'
  BY <1>1, <1>2, <1>5, WantedIsCreds DEF IntegrationsTyped
<1>7. Together'
  BY <1>2, SameRequests
<1>8. Stopped' /\ Held'
  BY <1>2, <1>3 DEF Stopped, Held
<1>9. RegistryIsLive' /\ CallsKnow'
  BY <1>2, <1>5 DEF RegistryIsLive, CallsKnow
<1>10. Sourced'
  <2> SUFFICES ASSUME ~mixed PROVE Sourced'
    BY <1>2 DEF Sourced
  <2>1. OneSource(live')
    <3>1. OneSource(env) /\ Entered(r)
      BY <1>2 DEF Sourced
    <3>2. CASE request[r].at = "put"
      <4>1. /\ request[r].body \in Edits /\ request[r].kept \in Creds
            /\ OneSource(request[r].kept)
            /\ \A f \in DOMAIN request[r].body : request[r].body[f] = r
            /\ DOMAIN request[r].body \in {{}, Fields(name)}
        BY <3>1, <3>2 DEF Entered, IntegrationsTyped
      <4>2. Wanted(r) = Merge(request[r].kept, request[r].body)
        BY <3>2 DEF Wanted
      <4>3. DOMAIN request[r].kept = Fields(name)
        BY <4>1 DEF Creds
      <4>4. OneSource(Wanted(r))
        BY <4>1, <4>2, <4>3 DEF Merge, OneSource
      <4> QED  BY <1>2, <4>4
    <3>3. CASE request[r].at = "clear"
      BY <1>2, <3>1, <3>3 DEF Wanted
    <3> QED  BY <1>2, <3>2, <3>3
  <2>2. \A s \in Requests : Entered(s)' = Entered(s) /\ Half(s)' = Half(s)
    BY <1>2 DEF Entered, OneSource, Half, Fields, Secret
  <2>3. /\ OneSource(env)' = OneSource(env)
        /\ OneSource(registry)' = OneSource(registry)
        /\ OneSource(store)' = OneSource(store)
    <3>1. env' = env /\ registry' = registry /\ store' = store
      BY <1>2
    <3> QED  BY <3>1 DEF OneSource
  <2>4. OneSource(live)'
    BY <2>1 DEF OneSource
  <2>5. Fields(name)' = Fields(name)
    BY <1>2 DEF Fields, Secret
  <2> QED  BY <1>2, <2>2, <2>3, <2>4, <2>5 DEF Sourced
<1> QED  BY <1>6, <1>7, <1>8, <1>9, <1>10

(* It flushes its token, and the registry enters the credentials.           *)
LEMMA CredFlush ==
    ASSUME CredInv, NEW r \in Requests, Flush(r)
    PROVE  CredInv'
<1> USE DEF CredInv
<1>1. Creds' = Creds /\ Edits' = Edits /\ Parts' = Parts
  BY DEF Flush, fixed, Creds, Edits, Parts, Fields, Secret, Values
<1>2. /\ request[r].at \in {"put", "clear"} /\ up /\ up' = up
      /\ hooked' = hooked /\ name = "igdb" /\ name' = name
      /\ registry' = Wanted(r) /\ live = Wanted(r) /\ live' = live
      /\ holder' = NobodyHolds /\ token' = {} /\ call' = call
  BY IntegrationsAssumption DEF Flush, daemonVars, fixed, Held
<1>3. Together' /\ RequestsTyped' /\ registry' \in Creds /\ Sourced'
  BY <1>2, RegistryTakes DEF Flush
<1>4. IntegrationsTyped'
  BY <1>1, <1>2, <1>3
  DEF Flush, IntegrationsTyped, fixed, daemonVars, tableVars, RequestsTyped
<1>5. Stopped' /\ Held'
  BY <1>2 DEF Stopped, Held
<1>6. RegistryIsLive' /\ CallsKnow'
  BY <1>2 DEF RegistryIsLive, CallsKnow
<1> QED  BY <1>3, <1>4, <1>5, <1>6

(* An IGDB call copies the configuration.                                   *)
LEMMA CredCallStarts ==
    ASSUME CredInv, NEW c \in Callers, CallStarts(c)
    PROVE  CredInv'
<1> USE DEF CredInv
<1>1. Creds' = Creds /\ Edits' = Edits /\ Parts' = Parts
  BY DEF CallStarts, fixed, Creds, Edits, Parts, Fields, Secret, Values
<1>2. /\ up /\ name = "igdb"
      /\ call' = [call EXCEPT ![c] =
                     [at |-> "snapped", cfg |-> {live}, old |-> FALSE]]
      /\ UNCHANGED <<name, env, store, registry, live, request, holder,
                     apart, mixed, hooked, up, token, overtaken>>
  BY DEF CallStarts, fixed, daemonVars, tableVars
<1>3. IntegrationsTyped'
  BY <1>1, <1>2 DEF IntegrationsTyped
<1>4. Together' /\ Sourced'
  BY <1>2, SameRequests, SameSources
<1>5. Stopped' /\ RegistryIsLive'
  BY <1>2 DEF Stopped, InProgress, RegistryIsLive, Torn, HasAnyValue,
     Fields, Secret
<1>6. Held'
  BY <1>2, HeldStays
<1>7. CallsKnow'
  BY <1>2 DEF CallsKnow, IntegrationsTyped
<1> QED  BY <1>3, <1>4, <1>5, <1>6, <1>7

(* It waits for the token, or finds it.                                     *)
LEMMA CredGetToken ==
    ASSUME CredInv, NEW c \in Callers, GetToken(c)
    PROVE  CredInv'
<1> USE DEF CredInv
<1>1. Creds' = Creds /\ Edits' = Edits /\ Parts' = Parts
  BY DEF GetToken, fixed, Creds, Edits, Parts, Fields, Secret, Values
<1>2. /\ call[c].at = "snapped"
      /\ \/ call' = [call EXCEPT ![c].at = "fetching"]
         \/ call' = [call EXCEPT ![c].at = "done"]
      /\ UNCHANGED <<name, env, store, registry, live, request, holder,
                     apart, mixed, hooked, up, token, overtaken>>
  BY DEF GetToken, fixed, daemonVars, tableVars
<1>3. IntegrationsTyped'
  BY <1>1, <1>2 DEF IntegrationsTyped
<1>4. Together' /\ Sourced'
  BY <1>2, SameRequests, SameSources
<1>5. Stopped' /\ RegistryIsLive'
  BY <1>2 DEF Stopped, InProgress, RegistryIsLive, Torn, HasAnyValue,
     Fields, Secret
<1>6. Held'
  BY <1>2, HeldStays
<1>7. CallsKnow'
  BY <1>2 DEF CallsKnow, IntegrationsTyped
<1> QED  BY <1>3, <1>4, <1>5, <1>6, <1>7

(* It caches the token of the credentials it has copied.                    *)
LEMMA CredFetched ==
    ASSUME CredInv, NEW c \in Callers, Fetched(c)
    PROVE  CredInv'
<1> USE DEF CredInv
<1>1. Creds' = Creds /\ Edits' = Edits /\ Parts' = Parts
  BY DEF Fetched, fixed, Creds, Edits, Parts, Fields, Secret, Values
<1>2. /\ call[c].at = "fetching"
      /\ \/ token' = call[c].cfg /\ overtaken' = call[c].old
         \/ token' = token /\ overtaken' = overtaken
      /\ call' = [call EXCEPT ![c].at = "done"]
      /\ UNCHANGED <<name, env, store, registry, live, request, holder,
                     apart, mixed, hooked, up>>
  BY DEF Fetched, fixed, daemonVars, tableVars
<1>3. IntegrationsTyped'
  BY <1>1, <1>2 DEF IntegrationsTyped
<1>4. Together' /\ Sourced'
  BY <1>2, SameRequests, SameSources
<1>5. Stopped' /\ RegistryIsLive'
  BY <1>2 DEF Stopped, InProgress, RegistryIsLive, Torn, HasAnyValue,
     Fields, Secret
<1>6. Held'
  BY <1>2, HeldStays
<1>7. CallsKnow'
  BY <1>2 DEF CallsKnow, IntegrationsTyped
<1> QED  BY <1>3, <1>4, <1>5, <1>6, <1>7

(* The token runs out.                                                      *)
LEMMA CredTokenExpires ==
    ASSUME CredInv, TokenExpires
    PROVE  CredInv'
<1> USE DEF CredInv
<1>1. Creds' = Creds /\ Edits' = Edits /\ Parts' = Parts
  BY DEF TokenExpires, fixed, Creds, Edits, Parts, Fields, Secret, Values
<1>2. /\ token' = {} /\ overtaken' = FALSE
      /\ UNCHANGED <<name, env, store, registry, live, request, holder,
                     apart, mixed, hooked, up, call>>
  BY DEF TokenExpires, fixed, daemonVars, tableVars
<1>3. IntegrationsTyped'
  BY <1>1, <1>2 DEF IntegrationsTyped
<1>4. Together' /\ Sourced'
  BY <1>2, SameRequests, SameSources
<1>5. Stopped' /\ RegistryIsLive'
  BY <1>2 DEF Stopped, InProgress, RegistryIsLive, Torn, HasAnyValue,
     Fields, Secret
<1>6. Held'
  BY <1>2, HeldStays
<1>7. CallsKnow'
  BY <1>2 DEF CallsKnow
<1> QED  BY <1>3, <1>4, <1>5, <1>6, <1>7

(* The process dies.                                                        *)
LEMMA CredCrash ==
    ASSUME CredInv, Crash
    PROVE  CredInv'
<1> USE DEF CredInv
<1>1. Creds' = Creds /\ Edits' = Edits /\ Parts' = Parts
  BY DEF Crash, fixed, Creds, Edits, Parts, Fields, Secret, Values
<1>2. /\ up' = FALSE /\ hooked' = FALSE /\ registry' = Unset
      /\ holder' = NobodyHolds /\ token' = {} /\ overtaken' = FALSE
      /\ apart' = FALSE
      /\ mixed' = (mixed \/ \E r \in Requests : Half(r))
      /\ UNCHANGED <<name, env, store, live>>
  BY DEF Crash, fixed
<1>3. /\ request' \in [Requests -> [at : Places, body : Edits \cup {<<>>},
                                    left : Parts, kept : Creds \cup {<<>>}]]
      /\ \A r \in Requests : request'[r].at \in {"idle", "done"}
  BY DEF Crash, IntegrationsTyped, InProgress, Places
<1>4. /\ call' \in [Callers -> [at : {"idle", "snapped", "fetching", "done"},
                                cfg : SUBSET Creds, old : BOOLEAN]]
      /\ \A c \in Callers : call'[c].at \in {"idle", "done"}
  BY DEF Crash, IdleCall
<1>5. IntegrationsTyped'
  <2>1. registry' \in Creds
    BY <1>2, UnsetIsCreds
  <2>2. mixed' \in BOOLEAN
    BY <1>2 DEF IntegrationsTyped, Half
  <2> QED  BY <1>1, <1>2, <1>3, <1>4, <2>1, <2>2 DEF IntegrationsTyped
<1>6. Together' /\ Stopped' /\ Held' /\ RegistryIsLive' /\ CallsKnow'
  BY <1>2, <1>3, <1>4
  DEF Together, Stopped, Held, RegistryIsLive, CallsKnow, InProgress
<1>7. Sourced'
  <2> SUFFICES ASSUME name = "igdb", ~mixed, \A r \in Requests : ~Half(r)
               PROVE  Sourced'
    BY <1>2 DEF Sourced
  <2>1. OneSource(env) /\ OneSource(live) /\ OneSource(store)
    BY DEF Sourced
  <2>2. /\ OneSource(env)' /\ OneSource(live)' /\ OneSource(store)'
        /\ OneSource(registry)'
    BY <1>2, <2>1 DEF OneSource, Unset
  <2>3. \A r \in Requests : ~Half(r)' /\ Entered(r)'
    BY <1>3 DEF Half, Entered
  <2> QED  BY <2>2, <2>3 DEF Sourced
<1> QED  BY <1>5, <1>6, <1>7

(* The daemon boots.                                                        *)
LEMMA CredBoot ==
    ASSUME CredInv, Boot
    PROVE  CredInv'
<1> USE DEF CredInv
<1>1. Creds' = Creds /\ Edits' = Edits /\ Parts' = Parts
  BY DEF Boot, fixed, Creds, Edits, Parts, Fields, Secret, Values
<1>2. /\ ~up /\ up' /\ holder = NobodyHolds /\ token = {}
      /\ \A r \in Requests : ~InProgress(r)
      /\ \A c \in Callers : call[c].at \notin {"snapped", "fetching"}
      /\ UNCHANGED <<name, env, store, request, holder, token, call,
                     mixed, overtaken>>
  BY DEF Boot, fixed, callVars, tableVars, Stopped
<1>3. \/ /\ registry' = Resolve /\ live' = Taken(Resolve)
         /\ hooked' = TRUE /\ apart' = apart
      \/ /\ registry' = Unset
         /\ live' \in {env, live, Torn} /\ hooked' \in BOOLEAN
         /\ hooked' => name = "makemkv"
         /\ name = "igdb" => live' = env
         /\ apart' = TRUE
  BY DEF Boot
<1>4. Resolve \in Creds /\ Taken(Resolve) \in Creds
  BY ResolveHasValue, TakenIsCreds DEF IntegrationsTyped
<1>5. IntegrationsTyped'
  <2>1. /\ registry' \in Creds /\ live' \in Creds
        /\ hooked' \in BOOLEAN /\ apart' \in BOOLEAN
    BY <1>3, <1>4, UnsetIsCreds DEF IntegrationsTyped
  <2> QED  BY <1>1, <1>2, <2>1 DEF IntegrationsTyped
<1>6. Together'
  <2> SUFFICES ASSUME ~apart' PROVE Together'
    BY DEF Together
  <2>1. registry' = Resolve
    BY <1>3
  <2>2. Resolve' = Resolve
    BY <1>2 DEF Resolve, HasAnyValue
  <2>3. HasAnyValue(registry') \/ registry' = env'
    BY <1>2, <2>1, ResolveHasValue
  <2>4. \A r \in Requests : ~InProgress(r)'
    BY <1>2 DEF InProgress
  <2>5. HasAnyValue(registry)' \/ registry' = env'
    BY <2>3 DEF HasAnyValue
  <2>6. \A r \in Requests : request'[r].at \notin
            {"write", "put", "clear", "rollback", "restore"}
    BY <2>4 DEF InProgress
  <2> QED  BY <2>1, <2>2, <2>4, <2>5, <2>6 DEF Together
<1>7. Stopped' /\ Held' /\ CallsKnow'
  BY <1>2 DEF Stopped, Held, CallsKnow
<1>8. RegistryIsLive'
  <2>1. ~HasAnyValue(Unset)
    BY UnsetIsCreds
  <2>2. CASE registry' = Resolve /\ live' = Taken(Resolve)
    BY <1>2, <2>2 DEF RegistryIsLive, Taken, HasAnyValue
  <2>3. CASE registry' = Unset /\ (hooked' => name = "makemkv")
    BY <1>2, <2>1, <2>3 DEF RegistryIsLive, HasAnyValue
  <2> QED  BY <1>3, <2>2, <2>3
<1>9. Sourced'
  <2> SUFFICES ASSUME name = "igdb", ~mixed PROVE Sourced'
    BY <1>2 DEF Sourced
  <2>1. \A r \in Requests : ~Half(r) /\ Entered(r)
    BY <1>2 DEF Half, InProgress, Sourced
  <2>2. OneSource(env) /\ OneSource(store)
    BY <2>1 DEF Sourced
  <2>3. OneSource(Resolve) /\ Taken(Resolve) = Resolve /\ OneSource(Unset)
    BY <2>2 DEF Resolve, Taken, OneSource, Unset
  <2>4. OneSource(registry') /\ OneSource(live')
    BY <1>3, <2>2, <2>3
  <2>5. \A r \in Requests : ~Half(r)' /\ Entered(r)'
    <3> SUFFICES ASSUME NEW r \in Requests PROVE ~Half(r)' /\ Entered(r)'
      OBVIOUS
    <3>1. request'[r] = request[r] /\ name' = name
      BY <1>2
    <3>2. request[r].at \notin {"rollback", "restore"}
      BY <2>1 DEF Entered
    <3>3. Entered(r)'
      BY <2>1, <3>1, <3>2, StillEntered
    <3>4. ~Half(r)'
      BY <2>1, <3>1 DEF Half
    <3> QED  BY <3>3, <3>4
  <2>6. /\ OneSource(env)' /\ OneSource(store)'
        /\ OneSource(registry)' /\ OneSource(live)'
    BY <1>2, <2>2, <2>4 DEF OneSource
  <2> QED  BY <2>5, <2>6 DEF Sourced
<1> QED  BY <1>5, <1>6, <1>7, <1>8, <1>9

----------------------------------------------------------------------------
(* Before the first boot.                                                   *)
LEMMA CredInit == IntegrationsInit => CredInv
<1> SUFFICES ASSUME IntegrationsInit PROVE CredInv
  OBVIOUS
<1>1. env \in Creds
  BY DEF IntegrationsInit, Environments, Creds, Values
<1>2. \A r \in Requests : ~InProgress(r) /\ request[r] = IdleRequest
  BY DEF IntegrationsInit, InProgress, IdleRequest
<1>3. request \in [Requests -> [at : Places, body : Edits \cup {<<>>},
                               left : Parts, kept : Creds \cup {<<>>}]]
  BY DEF IntegrationsInit, IdleRequest, Places, Parts
<1>4. call \in [Callers -> [at : {"idle", "snapped", "fetching", "done"},
                           cfg : SUBSET Creds, old : BOOLEAN]]
  BY DEF IntegrationsInit, IdleCall
<1>5. IntegrationsTyped
  BY <1>1, <1>2, <1>3, <1>4, UnsetIsCreds
  DEF IntegrationsInit, IntegrationsTyped, IdleRequest
<1>6. Together /\ Stopped /\ Held /\ RegistryIsLive /\ CallsKnow
  BY <1>2 DEF IntegrationsInit, Together, Stopped, Held, RegistryIsLive,
     CallsKnow, IdleCall
<1>7. Sourced
  <2>1. OneSource(env) /\ OneSource(Unset)
    BY DEF IntegrationsInit, Environments, OneSource, Unset
  <2>2. \A r \in Requests : ~Half(r) /\ Entered(r)
    BY <1>2 DEF Half, Entered, IdleRequest
  <2> QED  BY <2>1, <2>2 DEF Sourced, IntegrationsInit
<1> QED  BY <1>5, <1>6, <1>7 DEF CredInv

(* Every step of requests, calls and the daemon keeps it.                   *)
LEMMA CredNext ==
    ASSUME CredInv, IntegrationsNext \/ UNCHANGED integrationsVars
    PROVE  CredInv'
<1>1. CASE IntegrationsNext
  BY <1>1, CredPutReads, CredPutWrites, CredDeleteClears, CredRegistryPut,
     CredReconfigureFails, CredRollbackClears, CredRollbackRestores,
     CredSwap, CredFlush, CredCallStarts, CredGetToken, CredFetched,
     CredTokenExpires, CredCrash, CredBoot
  DEF IntegrationsNext
<1>2. CASE UNCHANGED integrationsVars
  <2> USE <1>2 DEF integrationsVars, CredInv
  <2>1. Creds' = Creds /\ Edits' = Edits /\ Parts' = Parts
    BY DEF Creds, Edits, Parts, Fields, Secret, Values
  <2>2. IntegrationsTyped'
    BY <2>1 DEF IntegrationsTyped
  <2>3. Together' /\ Sourced'
    BY SameRequests, SameSources
  <2>4. Held'
    BY HeldStays
  <2>5. Stopped' /\ RegistryIsLive' /\ CallsKnow'
    BY DEF Stopped, InProgress, RegistryIsLive, CallsKnow, Torn,
       HasAnyValue, Fields, Secret
  <2> QED  BY <2>2, <2>3, <2>4, <2>5
<1> QED  BY <1>1, <1>2

(* The property is what the invariant says of a daemon that runs.           *)
LEMMA CredInvHolds == CredInv => CredentialsHold
<1> SUFFICES ASSUME CredInv PROVE CredentialsHold
  OBVIOUS
<1>1. RestartKeeps
  BY DEF CredInv, Together, RestartKeeps, Quiet
<1>2. RegistryIsLive /\ TokenFits
  BY SMTT(30) DEF CredInv, CallsKnow, TokenFits
<1>3. EnteredTogether
  BY DEF CredInv, Sourced, EnteredTogether
<1> QED  BY <1>1, <1>2, <1>3 DEF CredentialsHold

----------------------------------------------------------------------------
(* DiscProbe.  What a disc shows decides its kind (DiscsAreMarked), what a *)
(* listing shows of it is true and complete or excused (FilesTell), and    *)
(* the order in which RefineDiscType looks at its markers takes none of    *)
(* them for another's (ListingRefines, ProbesRefine).                      *)

Kinds == {"DATA", "AUDIO_CD", "DVD", "VCD", "PSX", "PS2", "XBOX", "XBOX360",
          "BDMV", "UHD", "PS3", "SAT", "DC", "SEGACD", "3DO", "PCFX",
          "JAGCD", "CDI"}

(* What a disc shows to the probes, by its kind.                            *)
Markings(d) ==
    /\ d.kind \in Kinds
    /\ d.mode = "CD-DA" <=> d.kind = "AUDIO_CD"
    /\ d.bluray <=> d.kind \in {"BDMV", "UHD", "PS3"}
    /\ d.aacs2 <=> d.kind = "UHD"
    /\ d.boot # None <=> d.kind \in {"PSX", "PS2"}
    /\ d.boot = "BOOT2" <=> d.kind = "PS2"
    /\ d.xbe = "whole" <=> d.kind = "XBOX"
    /\ d.cdi <=> d.kind = "CDI"
    /\ d.sessions = 2 /\ d.second >= GDStart <=> d.kind = "DC"
    /\ XGD \subseteq d.pvd => d.kind \in {"XBOX", "XBOX360"}
    /\ d.kind = "XBOX360" => XGD \subseteq d.pvd
    /\ d.kind = "SAT" => d.sector = <<"SEGA_SEGASATURN", 0>>
    /\ d.kind = "SEGACD" => d.sector = <<"SEGADISCSYSTEM", 16>>
    /\ d.kind = "3DO" => d.sector = <<"ZZZZZ", 0>>
    /\ d.kind = "PCFX" => d.sector = <<"PC-FX:Hu_CD-ROM", 7>>
    /\ d.kind = "JAGCD" => d.sector = <<"ATARI_APPROVED", 9>>
    /\ d.kind \notin {"SAT", "SEGACD", "3DO", "PCFX", "JAGCD"} =>
           d.sector = <<None, 0>>

(* What isoinfo lists of it.                                                *)
Listings(d) ==
    /\ d.kind = "DATA" =>
           d.rows \in {Root({".", "..", "README.TXT"}), Root({"SYSTEM.CNF"}),
               Root({"setup.exe"}), Root({"AUTORUN"}),
               {Row(<<"BACKUP">>, "VIDEO_TS")}, Root({"default.xbe"})}
    /\ d.kind = "DVD" => d.rows = Root({"VIDEO_TS", "AUDIO_TS"})
    /\ d.kind = "VCD" =>
           d.rows \in {Root({"MPEGAV", "VCD"}), Root({"MPEG2", "SVCD"})}
    /\ d.kind \in {"PSX", "PS2"} => d.rows = Root({"SYSTEM.CNF"})
    /\ d.kind = "XBOX" => d.rows = Root({"default.xbe"})
    /\ d.kind = "XBOX360" =>
           d.rows \in {Root({"_SYSTEMU", "AUDIO_TS", "VIDEO_TS"}),
                       Root({"README.TXT"})}
    /\ d.kind \in {"BDMV", "UHD"} =>
           d.rows \in {{Row(<<"BDMV">>, "index.bdmv")}, {}}
    /\ d.kind = "PS3" => d.rows = {Row(<<"PS3_GAME">>, "PARAM.SFO")}
    /\ d.kind \notin {"DATA", "DVD", "VCD", "PSX", "PS2", "XBOX", "XBOX360",
                     "BDMV", "UHD", "PS3"} => d.rows = {}

(* Every disc bears the marks, and the listings, of its kind.               *)
LEMMA DiscsAreMarked ==
    ASSUME NEW d \in Discs
    PROVE  Markings(d) /\ Listings(d)
<1> USE DEF Blank, BluRay, CDGame, Markings, Listings, XGD, GDStart, None,
            Kinds
<1>1. CASE d = [Blank EXCEPT !.rows = Root({".", "..", "README.TXT"})]
  BY <1>1
<1>2. CASE d = [Blank EXCEPT !.rows = Root({"SYSTEM.CNF"})]
  BY <1>2
<1>3. CASE d = [Blank EXCEPT !.rows = Root({"setup.exe"}), !.pvd =
               {"publisher"}]
  BY <1>3
<1>4. CASE d = [Blank EXCEPT !.rows = Root({"AUTORUN"}), !.sessions = 2,
               !.second = GDStart - 1]
  BY <1>4
<1>5. CASE d = [Blank EXCEPT !.rows = {Row(<<"BACKUP">>, "VIDEO_TS")}]
  BY <1>5
<1>6. CASE d = [Blank EXCEPT !.kind = "AUDIO_CD", !.mode = "CD-DA"]
  BY <1>6
<1>7. CASE d = [Blank EXCEPT !.kind = "DVD", !.rows = Root({"VIDEO_TS",
               "AUDIO_TS"})]
  BY <1>7
<1>8. CASE d = [Blank EXCEPT !.kind = "VCD", !.rows = Root({"MPEGAV", "VCD"})]
  BY <1>8
<1>9. CASE d = [Blank EXCEPT !.kind = "VCD", !.rows = Root({"MPEG2", "SVCD"})]
  BY <1>9
<1>10. CASE d = [Blank EXCEPT !.kind = "PSX", !.rows = Root({"SYSTEM.CNF"}),
                !.boot = "BOOT"]
  BY <1>10
<1>11. CASE d = [Blank EXCEPT !.kind = "PS2", !.rows = Root({"SYSTEM.CNF"}),
                !.boot = "BOOT2"]
  BY <1>11
<1>12. CASE d = [Blank EXCEPT !.kind = "XBOX", !.rows = Root({"default.xbe"}),
                !.xbe = "whole", !.pvd = XGD]
  BY <1>12
<1>13. CASE d = [Blank EXCEPT !.rows = Root({"default.xbe"}), !.xbe =
                "truncated"]
  BY <1>13
<1>14. CASE d = [Blank EXCEPT !.kind = "XBOX360", !.pvd = XGD, !.rows =
                Root({"_SYSTEMU", "AUDIO_TS", "VIDEO_TS"})]
  BY <1>14
<1>15. CASE d = [Blank EXCEPT !.kind = "XBOX360", !.pvd = XGD, !.rows =
                Root({"README.TXT"})]
  BY <1>15
<1>16. CASE d = [BluRay("BDMV") EXCEPT !.rows = {Row(<<"BDMV">>,
                "index.bdmv")}]
  BY <1>16
<1>17. CASE d = BluRay("BDMV")
  BY <1>17
<1>18. CASE d = [BluRay("UHD") EXCEPT !.aacs2 = TRUE]
  BY <1>18
<1>19. CASE d = [BluRay("UHD") EXCEPT !.rows = {Row(<<"BDMV">>,
                "index.bdmv")}, !.aacs2 = TRUE]
  BY <1>19
<1>20. CASE d = [BluRay("PS3") EXCEPT !.rows = {Row(<<"PS3_GAME">>,
                "PARAM.SFO")}]
  BY <1>20
<1>21. CASE d = CDGame("SAT", "SEGA_SEGASATURN", 0)
  BY <1>21
<1>22. CASE d = [Blank EXCEPT !.kind = "DC", !.sessions = 2, !.second =
                GDStart]
  BY <1>22
<1>23. CASE d = CDGame("SEGACD", "SEGADISCSYSTEM", 16)
  BY <1>23
<1>24. CASE d = CDGame("3DO", "ZZZZZ", 0)
  BY <1>24
<1>25. CASE d = CDGame("PCFX", "PC-FX:Hu_CD-ROM", 7)
  BY <1>25
<1>26. CASE d = CDGame("JAGCD", "ATARI_APPROVED", 9)
  BY <1>26
<1>27. CASE d = [Blank EXCEPT !.kind = "CDI", !.cdi = TRUE]
  BY <1>27
<1> QED  BY <1>1, <1>2, <1>3, <1>4, <1>5, <1>6, <1>7, <1>8, <1>9, <1>10,
            <1>11, <1>12, <1>13, <1>14, <1>15, <1>16, <1>17, <1>18, <1>19,
            <1>20, <1>21, <1>22, <1>23, <1>24, <1>25, <1>26, <1>27, SMTT(30)
         DEF Discs

(* A name appended to the empty path.                                       *)
LEMMA AppendToNone ==
    ASSUME NEW S, NEW n \in S
    PROVE  Append(<<>>, n) = <<n>>
<1>1. <<>> \in Seq(S) /\ Len(<<>>) = 0
  BY EmptySeq
<1>2. /\ Append(<<>>, n) \in Seq(S) /\ Len(Append(<<>>, n)) = 1
      /\ Append(<<>>, n)[1] = n
  BY <1>1, AppendProperties
<1>3. <<n>> \in Seq(S) /\ Len(<<n>>) = 1 /\ <<n>>[1] = n
  OBVIOUS
<1> QED  BY <1>2, <1>3, SeqEqual

(* A name appended to the path of a directory.                              *)
LEMMA AppendToOne ==
    ASSUME NEW S, NEW d \in S, NEW n \in S
    PROVE  Append(<<d>>, n) = <<d, n>>
<1>1. <<d>> \in Seq(S) /\ Len(<<d>>) = 1 /\ <<d>>[1] = d
  OBVIOUS
<1>2. /\ Append(<<d>>, n) \in Seq(S) /\ Len(Append(<<d>>, n)) = 2
      /\ Append(<<d>>, n)[1] = d /\ Append(<<d>>, n)[2] = n
  BY <1>1, AppendProperties
<1>3. /\ <<d, n>> \in Seq(S) /\ Len(<<d, n>>) = 2
      /\ <<d, n>>[1] = d /\ <<d, n>>[2] = n
  OBVIOUS
<1>4. \A i \in 1..2 : Append(<<d>>, n)[i] = <<d, n>>[i]
  BY <1>2, <1>3
<1> QED  BY <1>2, <1>3, <1>4, SeqEqual

(* The listing of a root directory: every name but the two dots.            *)
LEMMA ListingOfRoot ==
    ASSUME NEW S
    PROVE  ParseIsoInfoListing(Root(S)) = {<<n>> : n \in S \ {".", ".."}}
<1>1. \A n \in S : Append(<<>>, n) = <<n>>
  BY AppendToNone
<1>2. \A r \in Root(S) : r.dir = <<>> /\ r.name \in S
  BY DEF Root, Row
<1>3. \A n \in S : \E r \in Root(S) : r.dir = <<>> /\ r.name = n
  <2>1. \A n \in S : Row(<<>>, n) \in Root(S)
    BY DEF Root
  <2>2. \A n \in S : Row(<<>>, n).dir = <<>> /\ Row(<<>>, n).name = n
    BY DEF Row
  <2> QED  BY <2>1, <2>2
<1> QED  BY <1>1, <1>2, <1>3 DEF ParseIsoInfoListing

(* The listing of one file in one directory.                                *)
LEMMA ListingOfFile ==
    ASSUME NEW d, NEW n, n \notin {".", ".."}
    PROVE  ParseIsoInfoListing({Row(<<d>>, n)}) = {<<d, n>>}
<1>1. Append(<<d>>, n) = <<d, n>>
  <2> DEFINE S == {d, n}
  <2>1. d \in S /\ n \in S
    OBVIOUS
  <2> HIDE DEF S
  <2> QED  BY <2>1, AppendToOne
<1>2. Row(<<d>>, n).dir = <<d>> /\ Row(<<d>>, n).name = n
  BY DEF Row
<1> QED  BY <1>1, <1>2 DEF ParseIsoInfoListing

(* What a listing says is true, and it says all of it.                      *)
Sound(list, kind) ==
    /\ <<"PS3_GAME", "PARAM.SFO">> \in list => kind = "PS3"
    /\ <<"BDMV", "index.bdmv">> \in list => kind \in {"BDMV", "UHD"}
    /\ <<"_SYSTEMU">> \in list => kind = "XBOX360"
    /\ <<"VIDEO_TS">> \in list /\ <<"_SYSTEMU">> \notin list => kind = "DVD"
    /\ \A n \in {"MPEGAV", "VCD", "MPEG2", "SVCD"} :
           <<n>> \in list => kind = "VCD"
    /\ <<"SYSTEM.CNF">> \in list => kind \in {"DATA", "PSX", "PS2"}
Complete(list, kind) ==
    /\ kind = "PS3" => <<"PS3_GAME", "PARAM.SFO">> \in list
    /\ kind = "DVD" => <<"VIDEO_TS">> \in list
    /\ kind = "VCD" => \E n \in {"MPEGAV", "VCD", "MPEG2", "SVCD"} :
                          <<n>> \in list
    /\ kind \in {"PSX", "PS2"} => <<"SYSTEM.CNF">> \in list
    /\ kind = "XBOX" => <<"default.xbe">> \in list

(* The listing of a disc shows its kind, and no other.                      *)
LEMMA ListingTells ==
    ASSUME NEW d \in Discs
    PROVE  /\ Sound(ParseIsoInfoListing(d.rows), d.kind)
           /\ Complete(ParseIsoInfoListing(d.rows), d.kind)
<1> DEFINE L == ParseIsoInfoListing(d.rows)
<1>1. Listings(d) /\ Markings(d)
  BY DiscsAreMarked
<1>2. ASSUME NEW S, d.rows = Root(S)
      PROVE  L = {<<n>> : n \in S \ {".", ".."}}
  BY <1>2, ListingOfRoot
<1>3. ASSUME NEW a, NEW n, n \notin {".", ".."}, d.rows = {Row(<<a>>, n)}
      PROVE  L = {<<a, n>>}
  BY <1>3, ListingOfFile
<1>4. d.rows = {} => L = {}
  BY DEF ParseIsoInfoListing
<1> HIDE DEF L
<1> SUFFICES Sound(L, d.kind) /\ Complete(L, d.kind)
  BY DEF L
<1> USE DEF Sound, Complete
<1>5. CASE d.kind = "DATA"
  <2>1. CASE d.rows = Root({".", "..", "README.TXT"})
    BY <1>2, <1>5, <2>1
  <2>2. CASE d.rows = Root({"SYSTEM.CNF"})
    BY <1>2, <1>5, <2>2
  <2>3. CASE d.rows = Root({"setup.exe"})
    BY <1>2, <1>5, <2>3
  <2>4. CASE d.rows = Root({"AUTORUN"})
    BY <1>2, <1>5, <2>4
  <2>5. CASE d.rows = {Row(<<"BACKUP">>, "VIDEO_TS")}
    BY <1>3, <1>5, <2>5
  <2>6. CASE d.rows = Root({"default.xbe"})
    BY <1>2, <1>5, <2>6
  <2> QED  BY <1>1, <1>5, <2>1, <2>2, <2>3, <2>4, <2>5, <2>6 DEF Listings
<1>6. CASE d.kind = "DVD"
  BY <1>1, <1>2, <1>6 DEF Listings
<1>7. CASE d.kind = "VCD"
  <2>1. CASE d.rows = Root({"MPEGAV", "VCD"})
    BY <1>2, <1>7, <2>1
  <2>2. CASE d.rows = Root({"MPEG2", "SVCD"})
    BY <1>2, <1>7, <2>2
  <2> QED  BY <1>1, <1>7, <2>1, <2>2 DEF Listings
<1>8. CASE d.kind \in {"PSX", "PS2"}
  BY <1>1, <1>2, <1>8 DEF Listings
<1>9. CASE d.kind = "XBOX"
  BY <1>1, <1>2, <1>9 DEF Listings
<1>10. CASE d.kind = "XBOX360"
  <2>1. CASE d.rows = Root({"_SYSTEMU", "AUDIO_TS", "VIDEO_TS"})
    BY <1>2, <1>10, <2>1
  <2>2. CASE d.rows = Root({"README.TXT"})
    BY <1>2, <1>10, <2>2
  <2> QED  BY <1>1, <1>10, <2>1, <2>2 DEF Listings
<1>11. CASE d.kind \in {"BDMV", "UHD"}
  <2>1. CASE d.rows = {Row(<<"BDMV">>, "index.bdmv")}
    BY <1>3, <1>11, <2>1
  <2>2. CASE d.rows = {}
    BY <1>4, <1>11, <2>2
  <2> QED  BY <1>1, <1>11, <2>1, <2>2 DEF Listings
<1>12. CASE d.kind = "PS3"
  BY <1>1, <1>3, <1>12 DEF Listings
<1>13. CASE d.kind \in {"AUDIO_CD", "SAT", "DC", "SEGACD", "3DO", "PCFX",
                       "JAGCD", "CDI"}
  BY <1>1, <1>4, <1>13 DEF Listings
<1> QED  BY <1>1, <1>5, <1>6, <1>7, <1>8, <1>9, <1>10, <1>11, <1>12, <1>13
         DEF Markings, Kinds

----------------------------------------------------------------------------
(* A probe that the answer hung on gave up while there was time, or the     *)
(* daemon has no such probe.                                                *)
Excused(missed) == missed \cap Evidence # {} \/ Unwired

(* What the classifier has, it has from the disc or for a reason.           *)
Heard ==
    \/ files = ParseIsoInfoListing(disc.rows)
    \/ files \in {{}, {<<"cut">>}} /\ "list" \in lost

ProbeInv ==
    /\ expired \in BOOLEAN
    /\ pc # "done" => disc \in Discs /\ recorded = None
    /\ pc = "cd-info" => said \in {"nothing", "label", "Unknown", disc.mode}
    /\ pc \in {"list", "refine", "SYSTEM.CNF"} => disc.kind # "AUDIO_CD"
    /\ pc \in {"refine", "SYSTEM.CNF"} => Heard \/ expired
    /\ pc = "SYSTEM.CNF" => disc.kind \in {"DATA", "PSX", "PS2"}
                              \/ expired
    /\ pc = "typed" => type = disc.kind \/ Excused(lost) \/ expired
    /\ pc = "unreadable" => "cd-info" \in lost \/ expired
    /\ KindKept

(* Evidence, kind by kind.                                                  *)
LEMMA EvidenceOf ==
    /\ "cd-info" \in Evidence
    /\ disc.kind \in {"DVD", "VCD", "PS3", "PSX", "PS2", "XBOX", "XBOX360"} =>
           "list" \in Evidence
    /\ disc.kind \in {"BDMV", "UHD"} =>
           "udev" \in Evidence /\ "bd" \in Evidence
    /\ disc.kind \in {"PSX", "PS2"} => "SYSTEM.CNF" \in Evidence
    /\ disc.kind = "XBOX" => "xbox" \in Evidence
    /\ disc.kind = "XBOX360" => "xgdDecoy" \in Evidence
    /\ disc.kind = "SAT" => "saturn" \in Evidence
    /\ disc.kind = "DC" => "dc" \in Evidence
    /\ disc.kind \in {"SEGACD", "3DO", "PCFX", "JAGCD", "CDI"} =>
           "cdGame" \in Evidence
BY DEF Evidence

(* The files RefineDiscType sees say nothing wrong, and they say all there  *)
(* is unless the listing is excused.                                        *)
LEMMA FilesTell ==
    ASSUME disc \in Discs, Heard
    PROVE  /\ Sound(files, disc.kind)
           /\ Complete(files, disc.kind) \/ lost \cap Evidence # {}
<1>1. CASE files = ParseIsoInfoListing(disc.rows)
  BY <1>1, ListingTells
<1>2. CASE files \in {{}, {<<"cut">>}} /\ "list" \in lost
  <2>1. \A a \in {"_SYSTEMU", "VIDEO_TS", "MPEGAV", "VCD", "MPEG2", "SVCD",
                   "SYSTEM.CNF"} : <<a>> # <<"cut">>
    OBVIOUS
  <2>2. /\ <<"PS3_GAME", "PARAM.SFO">> # <<"cut">>
        /\ <<"BDMV", "index.bdmv">> # <<"cut">>
    OBVIOUS
  <2>3. Sound(files, disc.kind)
    BY <1>2, <2>1, <2>2 DEF Sound
  <2>4. Complete(files, disc.kind) \/ "list" \in Evidence
    BY EvidenceOf DEF Complete
  <2> QED  BY <1>2, <2>3, <2>4
<1> QED  BY <1>1, <1>2 DEF Heard

(* Blu-ray media, as udev and the AACS directory tell it.                   *)
LEMMA BluRayTells ==
    ASSUME disc \in Discs, ~expired, NEW deaf
    PROVE  /\ MediaIsBluRay(deaf) =>
                  disc.kind \in {"BDMV", "UHD", "PS3"}
           /\ disc.kind \in {"BDMV", "UHD"} =>
                  MediaIsBluRay(deaf) \/ deaf \cap Evidence # {}
           /\ disc.kind \in {"BDMV", "UHD"} =>
                  BluRayType(deaf) = disc.kind \/ deaf \cap Evidence # {}
<1>1. Markings(disc)
  BY DiscsAreMarked
<1>2. Answers(deaf, "udev") <=> "udev" \notin deaf
  BY DEF Answers, UsesContext, Optional
<1>3. Answers(deaf, "bd") <=> "bd" \notin deaf
  BY DEF Answers, UsesContext, Optional
<1> QED  BY <1>1, <1>2, <1>3, EvidenceOf
         DEF Markings, MediaIsBluRay, BluRayType, HasAACS2

(* The first half of RefineDiscType is right, or a probe is to blame.       *)
LEMMA ListingRefines ==
    ASSUME disc \in Discs, disc.kind # "AUDIO_CD", ~expired, Heard,
           NEW deaf, (lost \cup deaf) \cap Evidence = {}
    PROVE  IF RefineByListing(deaf) # None
           THEN RefineByListing(deaf) = disc.kind
           ELSE disc.kind \notin {"PS3", "BDMV", "UHD", "DVD", "VCD"}
<1>1. Sound(files, disc.kind) /\ Complete(files, disc.kind)
  BY FilesTell
<1>2. /\ MediaIsBluRay(deaf) => disc.kind \in {"BDMV", "UHD", "PS3"}
      /\ disc.kind \in {"BDMV", "UHD"} =>
             MediaIsBluRay(deaf) /\ BluRayType(deaf) = disc.kind
  BY BluRayTells
<1>3. disc.kind # None
  BY DiscsAreMarked DEF Markings, Kinds, None
<1> QED  BY <1>1, <1>2, <1>3
         DEF RefineByListing, HasPath, HasRoot, Sound, Complete, None

(* The magic of the console that has one.                                   *)
LEMMA MagicTells ==
    ASSUME disc \in Discs, ~expired, NEW deaf, "cdGame" \notin deaf
    PROVE  ProbeCDGame(deaf) = {disc.kind}
               \cap {"SEGACD", "3DO", "PCFX", "JAGCD", "CDI"}
<1>1. Markings(disc)
  BY DiscsAreMarked
<1>2. Answers(deaf, "cdGame")
  BY InstalledAssumption DEF Answers, UsesContext
<1>3. MatchMagicTable = {disc.kind} \cap {"SEGACD", "3DO", "PCFX", "JAGCD"}
  <2>1. \A n \in {7, 9} : n \in Anywhere
    BY DEF Anywhere
  <2>2. \A t : t \in MatchMagicTable <=>
           \/ /\ t = "SEGACD" /\ disc.sector[2] \in {0, 16}
              /\ disc.sector[1] \in {"SEGADISCSYSTEM", "SEGABOOTDISC"}
           \/ /\ t = "3DO" /\ disc.sector[2] = 0
              /\ disc.sector[1] = "ZZZZZ"
           \/ /\ t = "PCFX" /\ disc.sector[2] \in Anywhere
              /\ disc.sector[1] = "PC-FX:Hu_CD-ROM"
           \/ /\ t = "JAGCD" /\ disc.sector[2] \in Anywhere
              /\ disc.sector[1] = "ATARI_APPROVED"
    <3>1. \A t : t \in MatchMagicTable <=>
             \E x \in CDGameMagicTable : /\ x.type = t
                                        /\ x.magic = disc.sector[1]
                                        /\ disc.sector[2] \in x.at
      BY DEF MatchMagicTable
    <3>2. \A x : x \in CDGameMagicTable <=>
             \/ x = [type |-> "SEGACD", magic |-> "SEGADISCSYSTEM",
                     at |-> {0, 16}]
             \/ x = [type |-> "SEGACD", magic |-> "SEGABOOTDISC",
                     at |-> {0, 16}]
             \/ x = [type |-> "3DO", magic |-> "ZZZZZ", at |-> {0}]
             \/ x = [type |-> "PCFX", magic |-> "PC-FX:Hu_CD-ROM",
                     at |-> Anywhere]
             \/ x = [type |-> "JAGCD", magic |-> "ATARI_APPROVED",
                     at |-> Anywhere]
      BY DEF CDGameMagicTable
    <3>3. SUFFICES ASSUME NEW t, NEW y, NEW n,
                          y = disc.sector[1], n = disc.sector[2]
                   PROVE  t \in MatchMagicTable <=>
                     \/ /\ t = "SEGACD" /\ n \in {0, 16}
                        /\ y \in {"SEGADISCSYSTEM", "SEGABOOTDISC"}
                     \/ t = "3DO" /\ n = 0 /\ y = "ZZZZZ"
                     \/ t = "PCFX" /\ n \in Anywhere /\ y = "PC-FX:Hu_CD-ROM"
                     \/ t = "JAGCD" /\ n \in Anywhere /\ y = "ATARI_APPROVED"
      OBVIOUS
    <3>4. t \in MatchMagicTable <=>
             \E x \in CDGameMagicTable :
                x.type = t /\ x.magic = y /\ n \in x.at
      BY <3>1, <3>3
    <3>5. ASSUME NEW x \in CDGameMagicTable,
                 x.type = t, x.magic = y, n \in x.at
          PROVE  \/ /\ t = "SEGACD" /\ n \in {0, 16}
                    /\ y \in {"SEGADISCSYSTEM", "SEGABOOTDISC"}
                 \/ t = "3DO" /\ n = 0 /\ y = "ZZZZZ"
                 \/ t = "PCFX" /\ n \in Anywhere /\ y = "PC-FX:Hu_CD-ROM"
                 \/ t = "JAGCD" /\ n \in Anywhere /\ y = "ATARI_APPROVED"
      BY <3>2, <3>5
    <3>6. ASSUME NEW u, NEW m, NEW a, y = m, t = u, n \in a,
                 [type |-> u, magic |-> m, at |-> a] \in CDGameMagicTable
          PROVE  t \in MatchMagicTable
      BY <3>4, <3>6
    <3>7. CASE /\ t = "SEGACD" /\ n \in {0, 16}
               /\ y \in {"SEGADISCSYSTEM", "SEGABOOTDISC"}
      BY <3>2, <3>6, <3>7
    <3>8. CASE t = "3DO" /\ n = 0 /\ y = "ZZZZZ"
      BY <3>2, <3>6, <3>8
    <3>9. CASE t = "PCFX" /\ n \in Anywhere /\ y = "PC-FX:Hu_CD-ROM"
      BY <3>2, <3>6, <3>9
    <3>10. CASE t = "JAGCD" /\ n \in Anywhere /\ y = "ATARI_APPROVED"
      BY <3>2, <3>6, <3>10
    <3> QED  BY <3>4, <3>5, <3>7, <3>8, <3>9, <3>10
  <2>3. ASSUME NEW m, NEW n, disc.sector = <<m, n>>
        PROVE  disc.sector[1] = m /\ disc.sector[2] = n
    BY <2>3
  <2>4. CASE disc.kind = "SEGACD"
    BY <1>1, <2>2, <2>3, <2>4 DEF Markings
  <2>5. CASE disc.kind = "3DO"
    BY <1>1, <2>2, <2>3, <2>5 DEF Markings
  <2>6. CASE disc.kind = "PCFX"
    BY <1>1, <2>1, <2>2, <2>3, <2>6 DEF Markings
  <2>7. CASE disc.kind = "JAGCD"
    BY <1>1, <2>1, <2>2, <2>3, <2>7 DEF Markings
  <2>8. CASE disc.kind \notin {"SEGACD", "3DO", "PCFX", "JAGCD"}
    <3>1. disc.sector[1] \in {"SEGA_SEGASATURN", None}
      BY <1>1, <2>3, <2>8 DEF Markings
    <3> QED  BY <2>2, <2>8, <3>1 DEF None
  <2> QED  BY <2>4, <2>5, <2>6, <2>7, <2>8
<1>4. ProbeCDi = {disc.kind} \cap {"CDI"}
  BY <1>1 DEF ProbeCDi, Markings
<1> QED  BY <1>2, <1>3, <1>4 DEF ProbeCDGame

(* So is the second half.                                                   *)
LEMMA ProbesRefine ==
    ASSUME disc \in Discs, disc.kind # "AUDIO_CD", ~expired, Heard,
           NEW deaf, (lost \cup deaf) \cap Evidence = {}, ~Unwired,
           disc.kind \notin {"PS3", "BDMV", "UHD", "DVD", "VCD", "PSX", "PS2"}
    PROVE  RefineByProbes(deaf) = disc.kind
<1>1. Complete(files, disc.kind)
  BY FilesTell
<1>2. Markings(disc) /\ disc.kind \in Kinds
  BY DiscsAreMarked DEF Markings
<1>3. ProbeXBE(deaf) <=> disc.kind = "XBOX"
  BY <1>2, EvidenceOf, InstalledAssumption
  DEF ProbeXBE, Answers, Markings, UsesContext
<1>4. ProbeSaturn(deaf) <=> disc.kind = "SAT"
  <2>1. disc.kind = "SAT" => Answers(deaf, "saturn")
    BY EvidenceOf DEF Answers, UsesContext, Unwired
  <2> QED  BY <1>2, <2>1 DEF ProbeSaturn, Markings, None
<1>5. LooksLikeDreamcast(deaf) <=> disc.kind = "DC"
  BY <1>2, EvidenceOf
  DEF LooksLikeDreamcast, Answers, Markings, Unwired
<1>6. IF disc.kind \in {"SEGACD", "3DO", "PCFX", "JAGCD", "CDI"}
      THEN ProbeCDGame(deaf) = {disc.kind}
      ELSE ProbeCDGame(deaf) = {}
  <2>1. CASE "cdGame" \notin deaf
    BY <2>1, MagicTells
  <2>2. CASE "cdGame" \in deaf
    BY <2>2, EvidenceOf DEF ProbeCDGame, Answers
  <2> QED  BY <2>1, <2>2
<1>7. /\ MatchesXGDDecoy(deaf) => disc.kind \in {"XBOX", "XBOX360"}
      /\ disc.kind = "XBOX360" => MatchesXGDDecoy(deaf)
  BY <1>2, EvidenceOf, InstalledAssumption
  DEF MatchesXGDDecoy, Answers, Markings, UsesContext
<1>8. disc.kind = "XBOX" => HasRoot({"default.xbe"})
  BY <1>1 DEF Complete, HasRoot, HasPath
<1>9. (CHOOSE t \in {disc.kind} : TRUE) = disc.kind
  OBVIOUS
<1> QED  BY <1>2, <1>3, <1>4, <1>5, <1>6, <1>7, <1>8, <1>9
         DEF RefineByProbes, Kinds

----------------------------------------------------------------------------
(* What has been missed stays missed.                                       *)
LEMMA ExcuseStays ==
    ASSUME disc' = disc, lost \subseteq lost'
    PROVE  /\ Evidence' = Evidence /\ (Unwired' <=> Unwired)
           /\ Excused(lost) => Excused(lost)'
           /\ Heard /\ files' = files => Heard'
<1>1. Evidence' = Evidence /\ (Unwired' <=> Unwired)
  BY DEF Evidence, Unwired
<1> QED  BY <1>1 DEF Excused, Heard

(* Every step of the classifier keeps the invariant.                        *)
LEMMA ProbeKeeps ==
    ASSUME ProbeInv, ProbeNext
    PROVE  ProbeInv'
<1> USE DEF ProbeInv
<1>0. KindKept = (recorded \in {None, disc.kind} \/ Excused(lost))
  BY DEF KindKept, Excused
<1>1. ASSUME disc' = disc, lost \subseteq lost', recorded' = recorded
      PROVE  KindKept'
  BY <1>0, <1>1, ExcuseStays DEF KindKept, Excused
<1>2. CASE CDInfoWrites
  BY <1>1, <1>2 DEF CDInfoWrites, given
<1>3. CASE CDInfoAnswers
  <2>1. said = disc.mode /\ disc \in Discs /\ lost' = lost /\ disc' = disc
    BY <1>3 DEF CDInfoAnswers, Fired, LooksLikeCDInfoError, given
  <2>2. disc.mode = "CD-DA" <=> disc.kind = "AUDIO_CD"
    BY <2>1, DiscsAreMarked DEF Markings
  <2> QED  BY <1>1, <1>3, <2>1, <2>2
           DEF CDInfoAnswers, ClassifyFromCDInfo, Goto, given
<1>4. CASE CDInfoFails
  BY <1>1, <1>4 DEF CDInfoFails, TryAgain, LastTry, GiveUp, Goto, given
<1>5. CASE Listed
  <2>1. /\ disc' = disc /\ pc' = "refine" /\ recorded' = recorded
        /\ lost \subseteq lost' /\ expired' = expired /\ pc = "list"
    BY <1>5 DEF Listed, GiveUp, Goto, given
  <2>2. Heard'
    BY <1>5 DEF Listed, GiveUp, Heard, given
  <2> QED  BY <1>1, <2>1, <2>2
<1>6. CASE NotListed
  <2>1. /\ disc' = disc /\ recorded' = recorded /\ pc = "list"
        /\ lost \subseteq lost' /\ expired' = expired
    BY <1>6 DEF NotListed, TryAgain, LastTry, GiveUp, given
  <2>2. CASE TryAgain("list") /\ pc' = pc
    BY <1>1, <2>1, <2>2
  <2>3. CASE LastTry("list") /\ files' = {} /\ Goto("refine")
    <3>1. expired \/ "list" \in lost'
      BY <2>3 DEF LastTry, GiveUp
    <3>2. Heard' \/ expired'
      BY <2>1, <2>3, <3>1 DEF Heard
    <3> QED  BY <1>1, <2>1, <2>3, <3>2 DEF Goto
  <2> QED  BY <1>6, <2>2, <2>3 DEF NotListed
<1>7. CASE RefineDiscType
  <2>1. PICK deaf \in Deaf :
          /\ IF RefineByListing(deaf) # None
             THEN Goto("typed") /\ type' = RefineByListing(deaf)
             ELSE IF HasRoot({"SYSTEM.CNF"})
             THEN Goto("SYSTEM.CNF") /\ UNCHANGED type
             ELSE Goto("typed") /\ type' = RefineByProbes(deaf)
          /\ lost' = IF expired THEN lost ELSE lost \cup deaf
    BY <1>7 DEF RefineDiscType
  <2>2. /\ pc = "refine" /\ disc \in Discs /\ disc' = disc
        /\ disc.kind # "AUDIO_CD" /\ expired' = expired
        /\ files' = files /\ recorded' = recorded /\ recorded = None
        /\ lost \subseteq lost' /\ pc' \in {"typed", "SYSTEM.CNF"}
    BY <1>7, <2>1 DEF RefineDiscType, given, Goto
  <2>3. KindKept'
    BY <1>1, <2>2
  <2>4. CASE expired
    BY <2>2, <2>3, <2>4
  <2>5. CASE ~expired /\ Excused(lost)'
    <3>1. Heard /\ Heard'
      BY <2>2, <2>5, ExcuseStays
    <3>2. HasRoot({"SYSTEM.CNF"}) => disc.kind \in {"DATA", "PSX", "PS2"}
      BY <2>2, <3>1, FilesTell DEF Sound, HasRoot, HasPath
    <3>3. pc' = "SYSTEM.CNF" => HasRoot({"SYSTEM.CNF"})
      BY <2>1 DEF Goto
    <3> QED  BY <2>2, <2>3, <2>5, <3>1, <3>2, <3>3
  <2>6. CASE ~expired /\ ~Excused(lost)'
    <3>1. (lost \cup deaf) \cap Evidence = {} /\ ~Unwired
      BY <2>1, <2>2, <2>6, ExcuseStays DEF Excused
    <3>2. Heard /\ Heard'
      BY <2>2, <2>6, ExcuseStays
    <3>3. /\ Sound(files, disc.kind) /\ Complete(files, disc.kind)
      BY <2>2, <3>1, <3>2, FilesTell
    <3>4. IF RefineByListing(deaf) # None
          THEN RefineByListing(deaf) = disc.kind
          ELSE disc.kind \notin {"PS3", "BDMV", "UHD", "DVD", "VCD"}
      BY <2>2, <2>6, <3>1, <3>2, ListingRefines
    <3>5. IF HasRoot({"SYSTEM.CNF"})
          THEN disc.kind \in {"DATA", "PSX", "PS2"}
          ELSE disc.kind \notin {"PSX", "PS2"}
      BY <3>3 DEF Sound, Complete, HasRoot, HasPath
    <3>6. CASE RefineByListing(deaf) # None
      BY <2>1, <2>2, <2>3, <3>4, <3>6 DEF Goto
    <3>7. CASE RefineByListing(deaf) = None /\ HasRoot({"SYSTEM.CNF"})
      BY <2>1, <2>2, <2>3, <3>2, <3>5, <3>7 DEF Goto
    <3>8. CASE RefineByListing(deaf) = None /\ ~HasRoot({"SYSTEM.CNF"})
      <4>1. RefineByProbes(deaf) = disc.kind
        BY <2>2, <2>6, <3>1, <3>2, <3>4, <3>5, <3>8, ProbesRefine
      <4> QED  BY <2>1, <2>2, <2>3, <3>8, <4>1 DEF Goto
    <3> QED  BY <3>6, <3>7, <3>8
  <2> QED  BY <2>4, <2>5, <2>6
<1>8. CASE SystemCNFRead
  <2>1. Markings(disc) /\ disc.kind \in {"DATA", "PSX", "PS2"}
    BY <1>8, DiscsAreMarked DEF SystemCNFRead
  <2> QED  BY <1>1, <1>8, <2>1 DEF SystemCNFRead, Markings, Goto, given
<1>9. CASE SystemCNFNotRead
  <2>1. /\ disc' = disc /\ recorded' = recorded /\ expired' = expired
        /\ lost \subseteq lost' /\ files' = files /\ pc = "SYSTEM.CNF"
    BY <1>9 DEF SystemCNFNotRead, TryAgain, LastTry, GiveUp, given
  <2>2. CASE TryAgain("SYSTEM.CNF") /\ pc' = pc
    BY <1>1, <2>1, <2>2, ExcuseStays
  <2>3. CASE LastTry("SYSTEM.CNF") /\ type' = "DATA" /\ Goto("typed")
    <3>1. expired \/ "SYSTEM.CNF" \in lost'
      BY <2>3 DEF LastTry, GiveUp
    <3>2. disc.kind \in {"PSX", "PS2"} /\ ~expired => Excused(lost)'
      BY <2>1, <3>1, EvidenceOf, ExcuseStays DEF Excused
    <3> QED  BY <1>1, <2>1, <2>3, <3>2 DEF Goto
  <2> QED  BY <1>9, <2>2, <2>3 DEF SystemCNFNotRead
<1>10. CASE EjectWrong
  BY <1>1, <1>10 DEF EjectWrong, Goto, given
<1>11. CASE Persist
  BY <1>0, <1>1, <1>11, ExcuseStays
     DEF Persist, Goto, given, KindKept, Excused
<1>12. CASE Unreadable
  BY <1>0, <1>1, <1>12, ExcuseStays, EvidenceOf
  DEF Unreadable, Goto, given, KindKept, Excused
<1>13. CASE Expire
  BY <1>1, <1>13, ExcuseStays DEF Expire, given
<1> QED  BY <1>2, <1>3, <1>4, <1>5, <1>6, <1>7, <1>8, <1>9, <1>10, <1>11,
            <1>12, <1>13 DEF ProbeNext

----------------------------------------------------------------------------
(* Lookup.  The candidates are films the servers have, told apart by their *)
(* ids; the one a row is named after at first is preceded by none of those *)
(* that were delivered.  The order they are sorted in is one: fractions of *)
(* common words, compared crosswise, then media type and popularity.       *)

IsCandidate(c) == \E f \in Films : c = [f EXCEPT !.score = c.score]

RowTyped ==
    /\ row = [name |-> row.name, cands |-> row.cands, about |-> row.about,
              runtime |-> row.runtime, titles |-> row.titles,
              episodes |-> row.episodes, missed |-> row.missed,
              starts |-> row.starts]
    /\ row.titles \in BOOLEAN /\ row.missed \in BOOLEAN /\ row.starts \in Nat
    /\ \A i \in DOMAIN row.cands : IsCandidate(row.cands[i])

(* None of the candidates delivered goes before this one.                   *)
First(t) == \A i \in DOMAIN out : ~Before(query, PreferMedia, out[i], out[t])

LookupInv ==
    /\ medium \in Media \cup {NoMedium}
    /\ waiting \subseteq {"movie", "tv"}
    /\ out \in Seq(Films)
    /\ RowTyped
    /\ stage \in {"search", "found"} => IsFiniteSet(query) /\ query # {}
    /\ stage = "discid" => /\ query = DiscID(ParseCDParanoiaQ)
                           /\ medium.kind = "AUDIO_CD"
    /\ stage = "identified" /\ row.starts = 0 /\ medium.kind # "AUDIO_CD" =>
          \/ row.name = Nothing
          \/ \E t \in DOMAIN out : out[t].id = row.name /\ First(t)
    /\ AboutItsName

(* A comparison of fractions carries over.                                 *)
LEMMA Crosswise ==
    ASSUME NEW a \in Nat, NEW b \in Nat \ {0}, NEW c \in Nat,
           NEW d \in Nat \ {0}, NEW e \in Nat, NEW f \in Nat \ {0},
           a * d <= c * b, c * f <= e * d
    PROVE  a * f <= e * b
<1>1. (a * d) * f <= (c * b) * f
  OBVIOUS
<1>2. (c * f) * b <= (e * d) * b
  OBVIOUS
<1>3. d * (a * f) = (a * d) * f /\ d * (e * b) = (e * d) * b
      /\ (c * b) * f = (c * f) * b
  OBVIOUS
<1>4. d * (a * f) <= d * (e * b)
  BY <1>1, <1>2, <1>3
<1>5. \A x, y \in Nat : d * x <= d * y => x <= y
  OBVIOUS
<1>6. a * f \in Nat /\ e * b \in Nat
  OBVIOUS
<1> QED  BY <1>4, <1>5, <1>6

(* A title has finitely many words, as many after its digits are spelt.    *)
LEMMA TokensFinite ==
    ASSUME NEW t, IsFiniteSet(t)
    PROVE  IsFiniteSet(Tokenise(t)) /\ (t # {} => Tokenise(t) # {})
<1> DEFINE f == [w \in t |-> DigitWord(w)]
<1>1. f \in Surjection(t, Tokenise(t))
  BY DEF Surjection, Tokenise
<1>2. IsFiniteSet(Tokenise(t))
  BY <1>1, FS_Surjection
<1> QED  BY <1>2 DEF Tokenise

(* The fraction of common words is one.                                    *)
LEMMA Similarity ==
    ASSUME NEW q, NEW t, IsFiniteSet(q), q # {}, IsFiniteSet(t)
    PROVE  Common(q, t) \in Nat /\ Union(q, t) \in Nat \ {0}
<1>1. IsFiniteSet(Tokenise(q)) /\ IsFiniteSet(Tokenise(t))
      /\ Tokenise(q) # {}
  BY TokensFinite
<1>2. IsFiniteSet(Tokenise(q) \cap Tokenise(t))
  BY <1>1, FS_Subset
<1>3. IsFiniteSet(Tokenise(q) \cup Tokenise(t))
  BY <1>1, FS_Union
<1>4. Union(q, t) \in Nat /\ Common(q, t) \in Nat
  BY <1>2, <1>3, FS_CardinalityType DEF Union, Common
<1>5. Union(q, t) # 0
  BY <1>1, <1>3, FS_EmptySet DEF Union
<1> QED  BY <1>4, <1>5

(* Nearer orders titles.                                                   *)
LEMMA NearerOrders ==
    ASSUME NEW q, IsFiniteSet(q), q # {}, NEW r, NEW s, NEW t,
           IsFiniteSet(r), IsFiniteSet(s), IsFiniteSet(t)
    PROVE  /\ ~(Nearer(q, r, s) /\ Nearer(q, s, r))
           /\ ~Nearer(q, r, s) /\ ~Nearer(q, s, t) => ~Nearer(q, r, t)
<1>1. PICK a \in Nat, b \in Nat \ {0} : a = Common(q, r) /\ b = Union(q, r)
  BY Similarity
<1>2. PICK c \in Nat, d \in Nat \ {0} : c = Common(q, s) /\ d = Union(q, s)
  BY Similarity
<1>3. PICK e \in Nat, f \in Nat \ {0} : e = Common(q, t) /\ f = Union(q, t)
  BY Similarity
<1>4. /\ Nearer(q, r, s) <=> a * d > c * b
      /\ Nearer(q, s, r) <=> c * b > a * d
      /\ Nearer(q, s, t) <=> c * f > e * d
      /\ Nearer(q, r, t) <=> a * f > e * b
  BY <1>1, <1>2, <1>3 DEF Nearer
<1>5. a * d \in Nat /\ c * b \in Nat /\ c * f \in Nat /\ e * d \in Nat
      /\ a * f \in Nat /\ e * b \in Nat
  OBVIOUS
<1>6. a * d <= c * b /\ c * f <= e * d => a * f <= e * b
  BY Crosswise
<1> QED  BY <1>4, <1>5, <1>6

(* Before orders candidates: by fraction, then by the media type preferred, *)
(* then by popularity.                                                      *)
LEMMA BeforeOrders ==
    ASSUME NEW q, IsFiniteSet(q), q # {}, NEW p,
           NEW c \in Films, NEW d \in Films, NEW e \in Films
    PROVE  /\ ~(Before(q, p, c, d) /\ Before(q, p, d, c))
           /\ ~Before(q, p, c, d) /\ ~Before(q, p, d, e) => ~Before(q, p, c, e)
<1>1. /\ IsFiniteSet(c.title) /\ IsFiniteSet(d.title) /\ IsFiniteSet(e.title)
      /\ c.score \in Nat /\ d.score \in Nat /\ e.score \in Nat
  BY FilmsAssumption
<1> DEFINE N(x, y) == Nearer(q, x.title, y.title)
           Likes(x) == x.media = p
           Next2(x, y) == \/ Likes(x) /\ ~Likes(y)
                          \/ (Likes(y) => Likes(x)) /\ x.score > y.score
<1>2. \A x, y \in {c, d, e} :
         Before(q, p, x, y) <=> N(x, y) \/ (~N(y, x) /\ Next2(x, y))
  BY DEF Before
<1>3. \A x, y, z \in {c, d, e} :
         /\ ~(N(x, y) /\ N(y, x))
         /\ ~N(x, y) /\ ~N(y, z) => ~N(x, z)
  BY <1>1, NearerOrders
<1>4. \A x, y, z \in {c, d, e} :
         /\ ~(Next2(x, y) /\ Next2(y, x))
         /\ ~Next2(x, y) /\ ~Next2(y, z) => ~Next2(x, z)
  BY <1>1
<1> HIDE DEF N, Next2
<1> QED  BY <1>2, <1>3, <1>4

(* The positions of those that go before the i-th of a list, and itself.   *)
Ahead(q, p, s, i) ==
    {j \in DOMAIN s : Before(q, p, s[j], s[i])
                        \/ (~Before(q, p, s[i], s[j]) /\ j <= i)}

(* One of two positions is ahead of the other.                             *)
LEMMA AheadOrders ==
    ASSUME NEW q, IsFiniteSet(q), q # {}, NEW p, NEW s \in Seq(Films)
    PROVE  /\ \A i \in DOMAIN s : i \in Ahead(q, p, s, i)
           /\ \A i, j \in DOMAIN s : i # j =>
                 \/ /\ Ahead(q, p, s, i) \subseteq Ahead(q, p, s, j)
                    /\ j \notin Ahead(q, p, s, i)
                 \/ /\ Ahead(q, p, s, j) \subseteq Ahead(q, p, s, i)
                    /\ i \notin Ahead(q, p, s, j)
<1> DEFINE B(i, j) == Before(q, p, s[i], s[j])
           Leads(i, j) == B(i, j) \/ (~B(j, i) /\ i <= j)
<1>1. /\ DOMAIN s = 1..Len(s) /\ Len(s) \in Nat
      /\ \A i \in DOMAIN s : s[i] \in Films
  OBVIOUS
<1>2. \A i, j, k \in DOMAIN s : /\ ~(B(i, j) /\ B(j, i))
                                /\ ~B(i, j) /\ ~B(j, k) => ~B(i, k)
  BY <1>1, BeforeOrders
<1>3. \A i \in DOMAIN s : Ahead(q, p, s, i) = {j \in DOMAIN s : Leads(j, i)}
  BY DEF Ahead
<1> HIDE DEF B
<1>4. \A i \in DOMAIN s : Leads(i, i)
  BY <1>1, <1>2
<1>5. \A i, j \in DOMAIN s : i # j => (Leads(i, j) <=> ~Leads(j, i))
  BY <1>1, <1>2
<1>6. \A i, j, k \in DOMAIN s : Leads(i, j) /\ Leads(j, k) => Leads(i, k)
  BY <1>1, <1>2
<1> HIDE DEF Leads
<1>7. \A i, j \in DOMAIN s : i # j /\ Leads(i, j) =>
         /\ Ahead(q, p, s, i) \subseteq Ahead(q, p, s, j)
         /\ j \notin Ahead(q, p, s, i)
  BY <1>3, <1>5, <1>6
<1> QED  BY <1>3, <1>4, <1>5, <1>7

Sorted(q, p, s) ==
    LET Less(c, d) == Before(q, p, c, d) IN StablySorted(s, Less)

(* The first of a sorted list is preceded by no other.                     *)
LEMMA SortedFirst ==
    ASSUME NEW q, IsFiniteSet(q), q # {}, NEW p, NEW s \in Seq(Films)
    PROVE  /\ Sorted(q, p, s) \in Seq(Films)
           /\ Len(Sorted(q, p, s)) = Len(s)
           /\ s # <<>> => \E t \in DOMAIN s :
                 /\ Sorted(q, p, s)[1] = s[t]
                 /\ \A i \in DOMAIN s : ~Before(q, p, s[i], s[t])
<1> DEFINE K == DOMAIN s
           D == [i \in K |-> Ahead(q, p, s, i)]
<1>1. /\ IsFiniteSet(K) /\ Cardinality(K) = Len(s) /\ Len(s) \in Nat
      /\ K = 1..Len(s)
  BY SomePositions
<1>2. Sorted(q, p, s) = [k \in K |-> s[CHOOSE i \in K :
                            Cardinality(Ahead(q, p, s, i)) = k]]
  BY DEF Sorted, StablySorted, Ahead
<1>3. /\ D \in [K -> SUBSET K] /\ \A i \in K : D[i] = Ahead(q, p, s, i)
  BY DEF Ahead
<1> HIDE DEF D
<1>4. /\ \A i \in K : i \in D[i]
      /\ \A i, j \in K : i # j => \/ D[i] \subseteq D[j] /\ j \notin D[i]
                                  \/ D[j] \subseteq D[i] /\ i \notin D[j]
  BY <1>3, AheadOrders
<1>5. /\ \A i \in K : IsFiniteSet(D[i])
      /\ \A k \in 1..Cardinality(K) : \E i \in K : Cardinality(D[i]) = k
  <2>1. Nested(K, D)
    BY <1>3, <1>4 DEF Nested
  <2>2. Ranked(K, D)
    BY <1>1, <2>1, Ranks
  <2> QED  BY <2>2 DEF Ranked
<1>6. \A k \in K :
         /\ (CHOOSE i \in K : Cardinality(Ahead(q, p, s, i)) = k) \in K
         /\ Cardinality(Ahead(q, p, s, CHOOSE i \in K :
               Cardinality(Ahead(q, p, s, i)) = k)) = k
  <2> SUFFICES ASSUME NEW k \in K
               PROVE  \E i \in K : Cardinality(Ahead(q, p, s, i)) = k
    OBVIOUS
  <2> QED  BY <1>1, <1>3, <1>5
<1>7. \A k \in K : Sorted(q, p, s)[k] \in Films
  BY <1>2, <1>6
<1>8. /\ Sorted(q, p, s) \in Seq(Films) /\ Len(Sorted(q, p, s)) = Len(s)
  BY <1>1, <1>2, <1>7, IsASeq, LenProperties
<1>9. ASSUME s # <<>>
      PROVE  \E t \in K : /\ Sorted(q, p, s)[1] = s[t]
                          /\ \A i \in K : ~Before(q, p, s[i], s[t])
  <2>1. 1 \in K
    BY <1>1, <1>9
  <2>2. PICK t \in K : /\ Sorted(q, p, s)[1] = s[t]
                       /\ Cardinality(Ahead(q, p, s, t)) = 1
    BY <1>2, <1>6, <2>1
  <2>3. D[t] = {t}
    <3>1. Cardinality(D[t]) = 1 /\ IsFiniteSet(D[t]) /\ t \in D[t]
      BY <1>3, <1>4, <1>5, <2>2
    <3> QED  BY <3>1, FS_Singleton
  <2>4. \A i \in K : Before(q, p, s[i], s[t]) => i = t
    BY <1>3, <2>3 DEF Ahead
  <2>5. ~Before(q, p, s[t], s[t])
    BY BeforeOrders
  <2> QED  BY <2>2, <2>4, <2>5
<1> QED  BY <1>8, <1>9

(* What is kept of a list are films still, its first as long as there is   *)
(* one.                                                                    *)
LEMMA CappedIs ==
    ASSUME NEW s \in Seq(Films)
    PROVE  /\ Capped(s) \in Seq(Films)
           /\ s # <<>> => Capped(s) # <<>> /\ Capped(s)[1] = s[1]
           /\ s = <<>> => Capped(s) = <<>>
<1> DEFINE n == IF Len(s) > Cap THEN Cap ELSE Len(s)
<1>1. Len(s) \in Nat /\ n \in 0..Len(s) /\ (Len(s) > 0 => n > 0)
  BY LookupAssumption
<1>2. \A i \in 1..n : s[i] \in Films
  BY <1>1
<1>3. 1 \in Int /\ n \in Int
  BY <1>1
<1>4. Capped(s) = SubSeq(s, 1, n)
  BY DEF Capped
<1> HIDE DEF n
<1>5. /\ SubSeq(s, 1, n) \in Seq(Films)
      /\ Len(SubSeq(s, 1, n)) = IF 1 <= n THEN n - 1 + 1 ELSE 0
      /\ \A i \in 1..n - 1 + 1 : SubSeq(s, 1, n)[i] = s[1 + i - 1]
  BY <1>2, <1>3, SubSeqProperties
<1>6. Len(Capped(s)) = n /\ Capped(s) \in Seq(Films)
  BY <1>1, <1>4, <1>5
<1>7. n > 0 => Capped(s)[1] = s[1]
  <2> SUFFICES ASSUME n > 0 PROVE Capped(s)[1] = s[1]
    OBVIOUS
  <2>1. 1 \in 1..n - 1 + 1 /\ 1 + 1 - 1 = 1
    BY <1>1
  <2> QED  BY <1>4, <1>5, <2>1
<1> QED  BY <1>1, <1>6, <1>7

(* What an endpoint answers are films.                                     *)
LEMMA AnswersAreFilms ==
    ASSUME NEW S \in SUBSET Films, NEW offer \in Offers(S)
    PROVE  SearchAnswers(offer) \in Seq(Films)
<1> DEFINE K == {i \in DOMAIN offer : offer[i] # Malformed}
           A == Appended(offer, K)
<1>1. offer \in Seq(Films)
  BY DEF Offers
<1>2. K \in SUBSET Nat /\ IsFiniteSet(K)
  BY <1>1, SomePositions
<1>3. /\ Cardinality(K) \in Nat /\ DOMAIN A = 1..Cardinality(K)
      /\ \A k \in 1..Cardinality(K) : A[k] \in Films
  <2> HIDE DEF K
  <2>1. /\ Cardinality(K) \in Nat
        /\ DOMAIN A = 1..Cardinality(K)
        /\ \A k \in 1..Cardinality(K) :
              Nth(K, k) \in K /\ A[k] = offer[Nth(K, k)]
    BY <1>2, AppendedIs
  <2>2. \A k \in K : offer[k] \in Films
    BY <1>1 DEF K
  <2> QED  BY <2>1, <2>2
<1>4. A \in Seq(Films)
  <2>1. A = [k \in 1..Cardinality(K) |-> A[k]]
    BY DEF Appended
  <2> HIDE DEF A, K
  <2> QED  BY <1>3, <2>1, IsASeq
<1> QED  BY <1>4, CappedIs DEF SearchAnswers

(* Where a row starts: with nothing, or with candidates.                   *)
LEMMA NewRowIs ==
    ASSUME NEW n, NEW cands,
           \A i \in DOMAIN cands : IsCandidate(cands[i])
    PROVE  row' = NewRow(n, cands) =>
              /\ RowTyped' /\ row'.name = n /\ row'.starts = 0
              /\ AboutItsName'
BY DEF NewRow, RowTyped, AboutItsName, IsCandidate

(* A film or release with another score is a candidate.                    *)
LEMMA Scored ==
    ASSUME NEW f \in Films, NEW n
    PROVE  /\ IsCandidate(f) /\ IsCandidate([f EXCEPT !.score = n])
           /\ [f EXCEPT !.score = n].id = f.id
<1>1. f = Film(f.id, f.media, f.title, f.score)
  BY FilmsAssumption
<1> QED  BY <1>1 DEF IsCandidate, Film

(* The parts of the invariant that most steps leave alone.                 *)
Unnamed == UNCHANGED <<medium, out, row>> /\ stage' # "identified"

(* A step that does not name the disc keeps the invariant.                 *)
LEMMA UnnamedStays ==
    ASSUME LookupInv, Unnamed, waiting' \subseteq {"movie", "tv"},
           stage' \in {"search", "found"} =>
               IsFiniteSet(query') /\ query' # {},
           stage' = "discid" => /\ query' = DiscID(ParseCDParanoiaQ)
                                /\ medium.kind = "AUDIO_CD"
    PROVE  LookupInv'
BY DEF LookupInv, Unnamed, RowTyped, AboutItsName, ParseCDParanoiaQ, Start,
       IsCandidate

(* The label of a disc leads to a search for some words, to no candidates, *)
(* or to a failure.                                                        *)
LEMMA SearchKeeps ==
    ASSUME LookupInv, stage = "probe", NEW label, IsFiniteSet(label),
           SearchFor(label), UNCHANGED <<medium, errors, out>>
    PROVE  LookupInv'
<1> DEFINE q == NormaliseDVDLabel(label)
<1>1. IsFiniteSet(q)
  BY FS_EmptySet DEF NormaliseDVDLabel
<1>2. CASE VolumeLabel = NoLabel
  BY <1>2, UnnamedStays DEF SearchFor, Fails, Unnamed, LookupInv
<1>3. CASE VolumeLabel # NoLabel /\ q = {}
  <2>1. /\ stage' = "identified" /\ row' = NewRow(Nothing, <<>>)
        /\ UNCHANGED <<query, waiting>>
    BY <1>3 DEF SearchFor, NoCandidates
  <2>2. RowTyped' /\ row'.name = Nothing /\ AboutItsName'
    BY <2>1, NewRowIs
  <2> QED  BY <2>1, <2>2 DEF LookupInv
<1>4. CASE VolumeLabel # NoLabel /\ q # {}
  <2>1. /\ stage' \in {"search", "found"} /\ query' = q
        /\ waiting' \subseteq {"movie", "tv"} /\ UNCHANGED row
    BY <1>4 DEF SearchFor
  <2> QED  BY <1>1, <1>4, <2>1, UnnamedStays DEF Unnamed
<1> QED  BY <1>2, <1>3, <1>4

(* The labels of a disc have finitely many words.                          *)
LEMMA LabelsFinite ==
    ASSUME medium \in Media \cup {NoMedium}
    PROVE  /\ IsFiniteSet(VolumeLabel) /\ IsFiniteSet(BDSearchLabel)
           /\ medium.pregap \in Nat /\ medium.relative \in BOOLEAN
<1>1. IsFiniteSet(NoLabel) /\ IsFiniteSet({})
  BY FS_EmptySet, FS_Singleton DEF NoLabel
<1>2. /\ IsFiniteSet(medium.iso) /\ IsFiniteSet(medium.udev)
      /\ IsFiniteSet(medium.name) /\ medium.pregap \in Nat
      /\ medium.relative \in BOOLEAN
  <2>1. CASE medium \in Media
    BY <2>1, MediaAssumption
  <2>2. CASE medium = NoMedium
    <3>1. medium.iso = NoLabel /\ medium.udev = NoLabel /\ medium.name = {}
          /\ medium.pregap = 0 /\ medium.relative \in BOOLEAN
      BY <2>2 DEF NoMedium, Video
    <3>2. medium.relative \in BOOLEAN /\ medium.pregap \in Nat
      BY <3>1
    <3>3. IsFiniteSet(medium.iso) /\ IsFiniteSet(medium.udev)
      BY <1>1, <3>1
    <3>4. IsFiniteSet(medium.name)
      BY <1>1, <3>1
    <3> QED  BY <3>2, <3>3, <3>4
  <2> QED  BY <2>1, <2>2
<1> QED  BY <1>2 DEF VolumeLabel, BDSearchLabel

(* The three handlers of video discs.                                      *)
LEMMA IdentifyKeeps ==
    ASSUME LookupInv, IdentifyDVD \/ IdentifyBDMV \/ IdentifyUHD
    PROVE  LookupInv'
<1>1. /\ stage = "probe" /\ UNCHANGED <<medium, errors, out>>
      /\ IsFiniteSet(VolumeLabel) /\ IsFiniteSet(BDSearchLabel)
  BY LabelsFinite DEF LookupInv, IdentifyDVD, IdentifyBDMV, IdentifyUHD
<1>2. CASE IdentifyDVD
  BY <1>1, <1>2, SearchKeeps DEF IdentifyDVD
<1>3. CASE IdentifyBDMV
  BY <1>1, <1>3, SearchKeeps DEF IdentifyBDMV
<1>4. CASE IdentifyUHD /\ keydb
  BY <1>1, <1>4, SearchKeeps DEF IdentifyUHD
<1>5. CASE IdentifyUHD /\ ~keydb
  BY <1>1, <1>5, UnnamedStays DEF IdentifyUHD, Fails, Unnamed, LookupInv
<1> QED  BY <1>2, <1>3, <1>4, <1>5

(* A search that answers adds films, or fails.                             *)
LEMMA SearchReturnsKeeps ==
    ASSUME LookupInv, NEW media \in {"movie", "tv"}, SearchReturns(media)
    PROVE  LookupInv'
<1>1. /\ stage = "search" /\ stage' \in {"search", "found"}
      /\ waiting' \subseteq {"movie", "tv"}
      /\ UNCHANGED <<medium, query, row>>
  BY DEF SearchReturns, LookupInv
<1>2. out' \in Seq(Films)
  <2>1. CASE UNCHANGED out
    BY <2>1 DEF LookupInv
  <2>2. ASSUME NEW offer \in Offers(IF media = "movie" THEN Movies ELSE Shows),
               out' = out \o (IF key THEN SearchAnswers(offer) ELSE <<>>)
        PROVE  out' \in Seq(Films)
    <3>1. offer \in Offers(Movies) \/ offer \in Offers(Shows)
      BY <2>2
    <3>2. Movies \in SUBSET Films /\ Shows \in SUBSET Films
      BY DEF Films
    <3>3. SearchAnswers(offer) \in Seq(Films)
      BY <3>1, <3>2, AnswersAreFilms
    <3>4. out \in Seq(Films) /\ <<>> \in Seq(Films)
      BY DEF LookupInv
    <3> QED  BY <2>2, <3>3, <3>4
  <2> QED  BY <2>1, <2>2 DEF SearchReturns
<1>3. RowTyped' /\ AboutItsName'
  BY <1>1 DEF LookupInv, RowTyped, IsCandidate, AboutItsName
<1> QED  BY <1>1, <1>2, <1>3 DEF LookupInv

(* The first of the ranked candidates names the disc.                      *)
LEMMA SearchBothKeeps ==
    ASSUME LookupInv, SearchBoth
    PROVE  LookupInv'
<1> DEFINE sorted == Sorted(query, PreferMedia, out)
           ranked == ApplyRankConfidence(query, Capped(sorted))
<1>1. /\ stage = "found" /\ UNCHANGED <<medium, waiting, out, query>>
      /\ \/ Fails
         \/ NoCandidates
         \/ /\ ranked # <<>> /\ stage' = "identified"
            /\ row' = NewRow(ranked[1].id, ranked)
  BY DEF SearchBoth, Sorted
<1>2. /\ out \in Seq(Films) /\ IsFiniteSet(query) /\ query # {}
      /\ medium \in Media \cup {NoMedium} /\ waiting \subseteq {"movie", "tv"}
  BY <1>1 DEF LookupInv
<1>3. CASE Fails
  BY <1>1, <1>2, <1>3, UnnamedStays DEF Fails, Unnamed
<1>4. CASE NoCandidates
  <2>1. stage' = "identified" /\ row' = NewRow(Nothing, <<>>)
    BY <1>4 DEF NoCandidates
  <2>2. RowTyped' /\ row'.name = Nothing /\ AboutItsName'
    BY <2>1, NewRowIs
  <2> QED  BY <1>1, <1>2, <2>1, <2>2 DEF LookupInv
<1>5. CASE /\ ranked # <<>> /\ stage' = "identified"
           /\ row' = NewRow(ranked[1].id, ranked)
  <2>1. /\ sorted \in Seq(Films) /\ Len(sorted) = Len(out)
        /\ out # <<>> => \E t \in DOMAIN out :
              /\ sorted[1] = out[t]
              /\ \A i \in DOMAIN out :
                    ~Before(query, PreferMedia, out[i], out[t])
    BY <1>2, SortedFirst
  <2> HIDE DEF sorted
  <2>2. /\ Capped(sorted) \in Seq(Films)
        /\ sorted # <<>> => Capped(sorted) # <<>>
                            /\ Capped(sorted)[1] = sorted[1]
        /\ sorted = <<>> => Capped(sorted) = <<>>
    BY <2>1, CappedIs
  <2>3. /\ DOMAIN ranked = DOMAIN Capped(sorted)
        /\ \A i \in DOMAIN ranked :
              ranked[i] = [Capped(sorted)[i] EXCEPT
                             !.score = Percent(query, Capped(sorted)[i].title)]
    BY DEF ApplyRankConfidence
  <2>4. \A i \in DOMAIN ranked : /\ IsCandidate(ranked[i])
                                 /\ ranked[i].id = Capped(sorted)[i].id
    <3> SUFFICES ASSUME NEW i \in DOMAIN ranked
                 PROVE  /\ IsCandidate(ranked[i])
                        /\ ranked[i].id = Capped(sorted)[i].id
      OBVIOUS
    <3>1. PICK f \in Films : f = Capped(sorted)[i]
      BY <2>2, <2>3
    <3>2. ranked[i] = [f EXCEPT !.score = Percent(query, f.title)]
      BY <2>3, <3>1
    <3> HIDE DEF ranked
    <3> QED  BY <3>1, <3>2, Scored
  <2>5. Capped(sorted) # <<>>
    BY <1>5, <2>2 DEF ApplyRankConfidence
  <2>6. 1 \in DOMAIN Capped(sorted) /\ sorted # <<>> /\ out # <<>>
    BY <1>2, <2>1, <2>2, <2>5
  <2>7. PICK t \in DOMAIN out :
           /\ sorted[1] = out[t]
           /\ \A i \in DOMAIN out : ~Before(query, PreferMedia, out[i], out[t])
    BY <2>1, <2>6
  <2>8. ranked[1].id = out[t].id
    BY <2>2, <2>3, <2>4, <2>6, <2>7
  <2> HIDE DEF ranked
  <2>9. RowTyped' /\ row'.name = out[t].id /\ AboutItsName'
    BY <1>5, <2>4, <2>8, NewRowIs
  <2>10. First(t)'
    BY <1>1, <2>7 DEF First, PreferMedia, Before, Nearer, Common, Union,
       Tokenise, DigitWord
  <2> QED  BY <1>1, <1>2, <1>5, <2>7, <2>9, <2>10 DEF LookupInv
<1> QED  BY <1>1, <1>3, <1>4, <1>5

(* A table of contents leads to its disc id.                               *)
LEMMA ReadTOCKeeps ==
    ASSUME LookupInv, ReadTOC
    PROVE  LookupInv'
<1>1. CASE stage' = "discid" /\ query' = DiscID(ParseCDParanoiaQ)
  BY <1>1, UnnamedStays DEF ReadTOC, Unnamed, LookupInv
<1>2. CASE stage' = "failed" /\ UNCHANGED query
  BY <1>2, UnnamedStays DEF ReadTOC, Unnamed, LookupInv
<1> QED  BY <1>1, <1>2 DEF ReadTOC

(* So does a disc id to the releases with it.                              *)
LEMMA MBLookupKeeps ==
    ASSUME LookupInv, MBLookup
    PROVE  LookupInv'
<1>1. /\ stage = "discid" /\ medium.kind = "AUDIO_CD"
      /\ UNCHANGED <<medium, waiting, out, query>>
  BY DEF MBLookup, LookupInv
<1>2. CASE Fails
  BY <1>1, <1>2, UnnamedStays DEF Fails, Unnamed, LookupInv
<1>3. ASSUME NEW answer \in Offers(Releases),
             LET cands == ToCandidates(answer) IN
             IF cands = <<>> THEN NoCandidates
             ELSE stage' = "identified" /\ row' = NewRow(cands[1].id, cands)
      PROVE  LookupInv'
  <2> DEFINE cands == ToCandidates(answer)
  <2>1. PICK n : cands = [i \in DOMAIN answer |->
                            [answer[i] EXCEPT !.score = n]]
    BY DEF ToCandidates
  <2>2. \A i \in DOMAIN answer : answer[i] \in Films
    BY DEF Offers, Films
  <2>3. \A i \in DOMAIN cands : IsCandidate(cands[i])
    <3> SUFFICES ASSUME NEW i \in DOMAIN cands PROVE IsCandidate(cands[i])
      OBVIOUS
    <3>1. PICK f \in Films : f = answer[i]
      BY <2>1, <2>2
    <3>2. cands[i] = [f EXCEPT !.score = n]
      BY <2>1, <3>1
    <3> HIDE DEF cands
    <3> QED  BY <3>1, <3>2, Scored
  <2> HIDE DEF cands
  <2>4. /\ stage' = "identified"
        /\ row' = NewRow(Nothing, <<>>) \/ row' = NewRow(cands[1].id, cands)
    BY <1>3 DEF NoCandidates, cands
  <2>5. RowTyped' /\ row'.starts = 0 /\ AboutItsName'
    BY <2>3, <2>4, NewRowIs
  <2> QED  BY <1>1, <2>4, <2>5 DEF LookupInv
<1> QED  BY <1>2, <1>3 DEF MBLookup

(* Two candidates with the same id are of the same media type.             *)
LEMMA SameCandidate ==
    ASSUME NEW c, NEW d, IsCandidate(c), IsCandidate(d), c.id = d.id
    PROVE  c.media = d.media
<1>1. PICK f \in Films : c = [f EXCEPT !.score = c.score]
  BY DEF IsCandidate
<1>2. PICK g \in Films : d = [g EXCEPT !.score = d.score]
  BY DEF IsCandidate
<1>3. /\ f = Film(f.id, f.media, f.title, f.score)
      /\ g = Film(g.id, g.media, g.title, g.score)
  BY FilmsAssumption
<1>4. c.id = f.id /\ d.id = g.id /\ c.media = f.media /\ d.media = g.media
  BY <1>1, <1>2, <1>3 DEF Film
<1> QED  BY <1>4, FilmsAssumption

(* What a row may become when the user starts its disc.                    *)
About(r) ==
    ~r.missed =>
        /\ r.titles \/ r.about \in {Nothing, r.name}
        /\ \A i \in DOMAIN r.cands :
              r.cands[i].id = r.name /\ r.cands[i].media = "movie" =>
                  r.runtime \in {Nothing, r.name}
Shaped(r) ==
    /\ r = [name |-> r.name, cands |-> r.cands, about |-> r.about,
            runtime |-> r.runtime, titles |-> r.titles,
            episodes |-> r.episodes, missed |-> r.missed,
            starts |-> r.starts]
    /\ r.titles \in BOOLEAN /\ r.missed \in BOOLEAN /\ r.starts \in Nat
    /\ \A i \in DOMAIN r.cands : IsCandidate(r.cands[i])

(* Promoting a candidate keeps what a row says about its name.             *)
LEMMA PromotedAbout ==
    ASSUME NEW r, Shaped(r), About(r), NEW p \in Promoted(r)
    PROVE  Shaped(p) /\ About(p) /\ p.starts = r.starts
<1> DEFINE Runtimes(i) == {FALSE, key /\ r.cands[i].media = "movie"}
           Details(i) == {"empty", "error"} \cup
               (IF key \/ r.cands[i].media = "cd" THEN {"told"} ELSE {})
           S(i) == {Promote(r, r.cands[i], runtime, details) :
                      runtime \in Runtimes(i), details \in Details(i)}
<1>1. PICK i \in DOMAIN r.cands : p \in S(i)
  <2>0. Promoted(r) = UNION {S(i) : i \in DOMAIN r.cands}
    BY DEF Promoted
  <2>1. p \in UNION {S(i) : i \in DOMAIN r.cands}
    <3> HIDE DEF S
    <3> QED  BY <2>0
  <2> HIDE DEF S
  <2> QED  BY <2>1
<1> DEFINE c == r.cands[i]
<1>2. PICK runtime \in BOOLEAN, details \in {"empty", "error", "told"} :
         p = Promote(r, c, runtime, details)
  <2>1. PICK runtime \in Runtimes(i), details \in Details(i) :
           p = Promote(r, r.cands[i], runtime, details)
    <3> HIDE DEF Runtimes, Details
    <3> QED  BY <1>1
  <2>2. details \in {"empty", "error", "told"}
    BY <2>1
  <2>3. runtime \in BOOLEAN
    BY <2>1
  <2> QED  BY <2>1, <2>2, <2>3
<1>3. /\ p.name = c.id /\ p.cands = r.cands
      /\ p.runtime = IF runtime THEN c.id ELSE r.runtime
      /\ details = "told" => p.about = c.id
      /\ p.missed \in BOOLEAN /\ p.titles \in BOOLEAN
      /\ p.starts = r.starts
      /\ ~p.missed => details = "told" /\ ~(c.media = "movie" /\ ~runtime)
  BY <1>2 DEF Promote, Shaped
<1>4. p = [name |-> p.name, cands |-> p.cands, about |-> p.about,
           runtime |-> p.runtime, titles |-> p.titles,
           episodes |-> p.episodes, missed |-> p.missed,
           starts |-> p.starts]
  BY <1>2 DEF Promote, Shaped
<1>5. Shaped(p)
  BY <1>3, <1>4 DEF Shaped
<1>6. ASSUME ~p.missed, NEW j \in DOMAIN p.cands, p.cands[j].id = p.name,
             p.cands[j].media = "movie"
      PROVE  p.runtime \in {Nothing, p.name}
  <2>1. IsCandidate(c) /\ IsCandidate(r.cands[j]) /\ r.cands[j].id = c.id
    BY <1>3, <1>6 DEF Shaped
  <2>2. c.media = "movie"
    BY <1>3, <1>6, <2>1, SameCandidate
  <2> QED  BY <1>3, <1>6, <2>2
<1> QED  BY <1>3, <1>5, <1>6 DEF About

(* So does merging the titles picked, and counting the start.              *)
LEMMA StartedAbout ==
    ASSUME NEW r, NEW p, NEW e, About(p), Shaped(p)
    PROVE  /\ Shaped([p EXCEPT !.starts = @ + 1])
           /\ About([p EXCEPT !.starts = @ + 1])
           /\ [p EXCEPT !.starts = @ + 1].starts = p.starts + 1
           /\ Shaped(MergeTitles(p, r, e)) /\ About(MergeTitles(p, r, e))
           /\ MergeTitles(p, r, e).starts = p.starts
<1>0. PICK x : MergeTitles(p, r, e) = [p EXCEPT !.about = r.about,
                                          !.titles = TRUE, !.episodes = x]
  BY DEF MergeTitles
<1>1. ASSUME NEW n \in Nat
      PROVE  /\ Shaped([p EXCEPT !.starts = n])
             /\ About([p EXCEPT !.starts = n])
             /\ [p EXCEPT !.starts = n].starts = n
  BY <1>1 DEF Shaped, About
<1>2. Shaped(MergeTitles(p, r, e)) /\ MergeTitles(p, r, e).starts = p.starts
  BY <1>0 DEF Shaped
<1>3. About(MergeTitles(p, r, e))
  <2> DEFINE m == MergeTitles(p, r, e)
  <2>1. /\ m.titles = TRUE /\ m.name = p.name /\ m.cands = p.cands
        /\ m.runtime = p.runtime /\ m.missed = p.missed
    BY <1>0 DEF Shaped
  <2> HIDE DEF m
  <2>2. m.titles
    BY <2>1
  <2> QED  BY <2>1, <2>2 DEF About, m
<1>4. p.starts + 1 \in Nat
  BY DEF Shaped
<1> QED  BY <1>1, <1>2, <1>3, <1>4

(* A start keeps what the row says about its name.                         *)
LEMMA StartDiscKeeps ==
    ASSUME LookupInv, StartDisc
    PROVE  LookupInv'
<1>1. Shaped(row) /\ About(row)
  BY DEF LookupInv, RowTyped, Shaped, About, AboutItsName, StartDisc
<1>2. /\ stage = "identified"
      /\ UNCHANGED <<medium, key, stage, query, waiting, out>>
  BY DEF StartDisc
<1>3. PICK old \in seen, picked \in {row} \cup Promoted(row) :
         \/ row' = [picked EXCEPT !.starts = @ + 1]
         \/ \E mapped \in {Nothing, ResolveEpisodeMap(old, TRUE),
                           ResolveEpisodeMap(old, FALSE)} :
               row' = [MergeTitles(picked, old, mapped) EXCEPT
                         !.starts = @ + 1]
  BY DEF StartDisc
<1>4. Shaped(picked) /\ About(picked) /\ picked.starts \in Nat
  <2>1. Shaped(picked) /\ About(picked)
    BY <1>1, <1>3, PromotedAbout
  <2> QED  BY <2>1 DEF Shaped
<1>5. Shaped(row') /\ About(row') /\ row'.starts # 0
  <2>1. CASE row' = [picked EXCEPT !.starts = @ + 1]
    BY <1>1, <1>4, <2>1, StartedAbout
  <2>2. ASSUME NEW mapped,
               row' = [MergeTitles(picked, old, mapped) EXCEPT
                         !.starts = @ + 1]
        PROVE  Shaped(row') /\ About(row') /\ row'.starts # 0
    <3>1. PICK m : m = MergeTitles(picked, old, mapped)
      OBVIOUS
    <3>2. /\ Shaped(MergeTitles(picked, old, mapped))
          /\ About(MergeTitles(picked, old, mapped))
          /\ MergeTitles(picked, old, mapped).starts = picked.starts
      BY <1>1, <1>4, StartedAbout, ZenonT(60)
    <3>3. /\ Shaped(m) /\ About(m) /\ m.starts \in Nat
          /\ row' = [m EXCEPT !.starts = @ + 1]
      BY <1>4, <2>2, <3>1, <3>2
    <3> QED  BY <1>1, <3>3, StartedAbout
  <2> QED  BY <1>3, <2>1, <2>2
<1>6. RowTyped' /\ AboutItsName'
  BY <1>5 DEF RowTyped, Shaped, About, AboutItsName, IsCandidate
<1> QED  BY <1>2, <1>5, <1>6 DEF LookupInv

(* Where nothing of the lookup changes but the key, its invariant stays.   *)
LEMMA LookupSame ==
    ASSUME LookupInv, UNCHANGED <<medium, stage, query, waiting, out, row>>
    PROVE  LookupInv'
BY DEF LookupInv, RowTyped, AboutItsName, IsCandidate, First, PreferMedia,
       ParseCDParanoiaQ, Start

(* Every step keeps the invariant.                                         *)
LEMMA LookupKeeps ==
    ASSUME LookupInv, LookupNext \/ UNCHANGED lookupVars
    PROVE  LookupInv'
<1>1. CASE Unconfigure \/ ReadDisc
  BY <1>1, LookupSame DEF Unconfigure, ReadDisc
<1>2. CASE UNCHANGED lookupVars
  BY <1>2, LookupSame DEF lookupVars
<1> QED  BY <1>1, <1>2, IdentifyKeeps, SearchReturnsKeeps, SearchBothKeeps,
            ReadTOCKeeps, MBLookupKeeps, StartDiscKeeps DEF LookupNext

(* The invariant implies the three properties.                             *)
LEMMA LookupInvHolds == LookupInv => IdentifiedRight
<1> SUFFICES ASSUME LookupInv PROVE IdentifiedRight
  OBVIOUS
<1>1. BestMatch
  <2> SUFFICES ASSUME stage = "identified", row.starts = 0,
                      medium.kind # "AUDIO_CD",
                      NEW i \in DOMAIN out, NEW j \in DOMAIN out,
                      out[j].id = row.name
               PROVE  /\ ~Nearer(query, out[i].title, out[j].title)
                      /\ \/ Nearer(query, out[j].title, out[i].title)
                         \/ PreferMedia \in {Nothing, out[j].media}
                         \/ out[i].media # PreferMedia
    BY DEF BestMatch
  <2>1. out[i] \in Films /\ out[j] \in Films
    BY DEF LookupInv
  <2>2. PICK t \in DOMAIN out : out[t].id = row.name /\ First(t)
    BY <2>1, FilmsAssumption DEF LookupInv
  <2>3. out[t] = out[j]
    BY <2>1, <2>2, FilmsAssumption DEF LookupInv
  <2>4. ~Before(query, PreferMedia, out[i], out[j])
    BY <2>2, <2>3 DEF First
  <2> QED  BY <2>4 DEF Before
<1>2. TrueDiscID
  <2> SUFFICES ASSUME stage = "discid", ~(medium.relative
                                          /\ medium.pregap >= LeadIn)
               PROVE  query = DiscID(Start(TRUE))
    BY DEF TrueDiscID
  <2>1. medium.pregap \in Nat /\ medium.relative \in BOOLEAN
    BY LabelsFinite DEF LookupInv
  <2>2. ParseCDParanoiaQ = Start(TRUE)
    BY <2>1 DEF ParseCDParanoiaQ, Start, LeadIn
  <2> QED  BY <2>2 DEF LookupInv
<1> QED  BY <1>1, <1>2 DEF IdentifiedRight, LookupInv

----------------------------------------------------------------------------
(* The way of the disc: each component takes its own steps, and has fixed  *)
(* values before and after its stage.                                      *)
LookupAtRest ==
    /\ stage = "probe" /\ waiting = {} /\ out = <<>>
    /\ row = NewRow(Nothing, <<>>)
    /\ medium \in Media \cup {NoMedium}
TitlesAtRest ==
    /\ phase = "select" /\ chosen = <<>> /\ ripped = {}
    /\ library = [p \in {} |-> Others] /\ theirs = {} /\ tries = 0
JobAtRest == rip \in Jobs(Engines) /\ TitlesAtRest

PathInv ==
    /\ CredInv /\ ProbeInv /\ LookupInv
    /\ at = "keys" => pc = "done" /\ said = "nothing" /\ recorded = None
    /\ at \in {"keys", "type"} => LookupAtRest
    /\ at = "job" => order.kind \in {"DVD", "BDMV", "UHD"}
    /\ IF at = "files" THEN TitlesInv ELSE TitlesAtRest

(* Where nothing of a component changes, its invariant stays.              *)
LEMMA ProbeSame ==
    ASSUME ProbeInv, UNCHANGED probeVars
    PROVE  ProbeInv'
BY DEF ProbeInv, probeVars, Heard, KindKept, Excused, Evidence, Unwired

(* A step of another part keeps the credentials.                            *)
LEMMA CredSame ==
    ASSUME CredInv, UNCHANGED integrationsVars
    PROVE  CredInv'
BY CredNext

(* A step of another part keeps what is known of the name.                  *)
LEMMA NameSame ==
    ASSUME LookupInv, UNCHANGED lookupVars
    PROVE  LookupInv' /\ (LookupAtRest => LookupAtRest')
<1>1. LookupInv'
  BY LookupSame DEF lookupVars
<1> QED  BY <1>1 DEF lookupVars, LookupAtRest, NewRow

(* A step of another part keeps the titles.                                 *)
LEMMA FilesSame ==
    ASSUME UNCHANGED titlesVars
    PROVE  /\ TitlesInv => TitlesInv'
           /\ TitlesAtRest => TitlesAtRest'
<1>1. TitlesInv => TitlesInv'
  BY TitlesKeeps
<1> QED  BY <1>1 DEF titlesVars, TitlesAtRest

(* A disc nobody has identified yet satisfies the invariant of Lookup.      *)
LEMMA NameStart == LookupAtRest => LookupInv
<1> SUFFICES ASSUME LookupAtRest PROVE LookupInv
  OBVIOUS
<1>1. out \in Seq(Films)
  BY DEF LookupAtRest
<1> QED  BY <1>1
         DEF LookupAtRest, LookupInv, NewRow, RowTyped, AboutItsName

(* A job that has not begun satisfies the invariant of Titles.              *)
LEMMA JobStart == JobAtRest => TitlesInv
BY TitlesStart DEF JobAtRest, TitlesAtRest

(* The initial state satisfies the invariant.                               *)
LEMMA PathInit_Inv == PathInit => PathInv
<1> SUFFICES ASSUME PathInit PROVE PathInv
  OBVIOUS
<1>1. CredInv
  BY CredInit DEF PathInit
<1>2. ProbeInv
  BY DEF PathInit, ProbeInv, KindKept
<1>3. LookupAtRest
  BY DEF PathInit, LookupAtRest
<1>4. TitlesAtRest
  BY DEF PathInit, TitlesAtRest
<1> QED  BY <1>1, <1>2, <1>3, <1>4, NameStart DEF PathInit, PathInv

(* Every step keeps the invariant.                                          *)
LEMMA PathNext_Inv ==
    ASSUME PathInv, PathNext \/ UNCHANGED pathVars
    PROVE  PathInv'
<1> USE DEF PathInv
<1>1. CASE /\ at = "keys" /\ IntegrationsNext
           /\ UNCHANGED <<at, order, probeVars, lookupVars, titlesVars>>
  <2>1. CredInv' /\ ProbeInv' /\ LookupInv' /\ LookupAtRest'
    BY <1>1, CredNext, ProbeSame, NameSame
  <2>2. TitlesAtRest'
    BY <1>1, FilesSame
  <2> QED  BY <1>1, <2>1, <2>2 DEF probeVars
<1>2. CASE InsertDisc
  <2>1. IntegrationsInit'
    BY <1>2 DEF InsertDisc, NoKeys, IntegrationsInit, Names, Environments,
       Unset, Fields, HasAnyValue, IdleRequest, IdleCall
  <2>2. IntegrationsInit' => CredInv'
    BY CredInit, PTL
  <2>3. ProbeInv'
    BY <1>2 DEF InsertDisc, ProbeInv, KindKept
  <2>4. LookupInv' /\ LookupAtRest'
    BY <1>2, LookupSame DEF InsertDisc, LookupAtRest, NewRow
  <2>5. TitlesAtRest'
    BY <1>2, FilesSame DEF InsertDisc
  <2> QED  BY <1>2, <2>1, <2>2, <2>3, <2>4, <2>5 DEF InsertDisc
<1>3. CASE /\ at = "type" /\ ProbeNext
           /\ UNCHANGED <<at, order, integrationsVars, lookupVars>>
           /\ UNCHANGED titlesVars
  <2>1. TitlesAtRest'
    BY <1>3, FilesSame
  <2> QED  BY <1>3, <2>1, ProbeKeeps, CredSame, NameSame
<1>4. CASE IdentifyDisc
  <2>1. ProbeInv'
    BY <1>4 DEF IdentifyDisc, NoProbe, ProbeInv, KindKept
  <2>2. LookupAtRest'
    BY <1>4 DEF IdentifyDisc, LookupAtRest, NewRow
  <2>3. LookupAtRest' => LookupInv'
    BY NameStart, PTL
  <2>4. TitlesAtRest'
    BY <1>4, FilesSame DEF IdentifyDisc
  <2> QED  BY <1>4, <2>1, <2>2, <2>3, <2>4, CredSame DEF IdentifyDisc
<1>5. CASE /\ at = "name" /\ LookupNext
           /\ UNCHANGED <<at, order, integrationsVars, probeVars, titlesVars>>
  <2>1. TitlesAtRest'
    BY <1>5, FilesSame
  <2> QED  BY <1>5, <2>1, CredSame, ProbeSame, LookupKeeps
<1>6. CASE SubmitJob
  <2>1. LookupAtRest'
    BY <1>6 DEF SubmitJob, NoLookup, LookupAtRest, NewRow
  <2>2. LookupAtRest' => LookupInv'
    BY NameStart, PTL
  <2>3. TitlesAtRest'
    BY <1>6, FilesSame DEF SubmitJob
  <2>4. order'.kind \in {"DVD", "BDMV", "UHD"}
    <3>1. medium \in Media \cup {NoMedium} /\ medium.kind # "AUDIO_CD"
      BY <1>6 DEF SubmitJob, LookupInv
    <3>2. medium.kind \in {"DVD", "BDMV", "UHD"}
      BY <3>1, MediaAssumption DEF NoMedium, Video
    <3> QED  BY <1>6, <3>2 DEF SubmitJob
  <2>5. CredInv' /\ ProbeInv'
    BY <1>6, CredSame, ProbeSame DEF SubmitJob
  <2> QED  BY <1>6, <2>1, <2>2, <2>3, <2>4, <2>5 DEF SubmitJob
<1>7. CASE BeginJob
  <2>1. CredInv' /\ ProbeInv' /\ LookupInv'
    BY <1>7, CredSame, ProbeSame, NameSame DEF BeginJob
  <2>2. rip' \in Jobs(Engines)
    <3>1. rip' \in Jobs(EnginesFor(order.kind))
      BY <1>7 DEF BeginJob
    <3>2. EnginesFor(order.kind) \subseteq Engines
      BY <1>7 DEF BeginJob, EnginesFor, Engines, OnDVD
    <3> QED  BY <3>1, <3>2 DEF Jobs
  <2>3. TitlesAtRest'
    BY <1>7 DEF BeginJob, TitlesAtRest
  <2>4. JobAtRest' => TitlesInv'
    BY JobStart, PTL
  <2>5. TitlesInv'
    BY <2>2, <2>3, <2>4 DEF JobAtRest
  <2> QED  BY <1>7, <2>1, <2>5 DEF BeginJob
<1>8. CASE /\ at = "files" /\ TitlesNext
           /\ UNCHANGED <<at, order, integrationsVars, probeVars, lookupVars>>
  BY <1>8, CredSame, ProbeSame, NameSame, TitlesKeeps
<1>9. CASE UNCHANGED pathVars
  <2>1. CredInv' /\ ProbeInv' /\ LookupInv' /\ (LookupAtRest => LookupAtRest')
    BY <1>9, CredSame, ProbeSame, NameSame DEF pathVars
  <2>2. (TitlesInv => TitlesInv') /\ (TitlesAtRest => TitlesAtRest')
    BY <1>9, FilesSame DEF pathVars
  <2> QED  BY <1>9, <2>1, <2>2 DEF pathVars, probeVars
<1> QED  BY <1>1, <1>2, <1>3, <1>4, <1>5, <1>6, <1>7, <1>8, <1>9 DEF PathNext

(* The credentials of an integration survive edits, failed edits, requests *)
(* in flight and restarts, and no cached token outlives them unnoticed     *)
(* (integrations.go, registry.go, igdb/client.go).                         *)
THEOREM CredentialsKept == PathSpec => []CredentialsHold
<1>1. PathInv => CredentialsHold
  BY CredInvHolds DEF PathInv
<1> QED  BY <1>1, PathInit_Inv, PathNext_Inv, PTL DEF PathSpec

(* A disc is recorded as what it is unless a probe the answer hung on gave *)
(* up while there was time (identify/classify.go, probers and retries).    *)
THEOREM KindIsKept == PathSpec => []KindKept
<1>1. PathInv => KindKept
  BY DEF PathInv, ProbeInv
<1> QED  BY <1>1, PathInit_Inv, PathNext_Inv, PTL DEF PathSpec

(* A disc is named after the candidate that fits its label best, an audio  *)
(* CD by its true table of contents, and its row tells of nothing else, in *)
(* whichever order the searches answer and whatever the user picks         *)
(* (tmdb/client.go, musicbrainz/client.go, discs.go).                      *)
THEOREM DiscIsIdentifiedRight == PathSpec => []IdentifiedRight
<1>1. PathInv => IdentifiedRight
  BY LookupInvHolds DEF PathInv
<1> QED  BY <1>1, PathInit_Inv, PathNext_Inv, PTL DEF PathSpec

(* What was picked of a disc that has come this far is in the library      *)
(* under its own name, whatever failed on the way (movie_move.go, move.go, *)
(* extras.go, dvdvideo.go).                                                *)
THEOREM DiscIsPaired == PathSpec => []Paired
<1>1. TitlesAtRest => Paired
  BY DEF TitlesAtRest, Paired, NothingReplaced, AllOnce, RightNames, Ours
<1>2. PathInv => Paired
  BY <1>1, TitlesInvHolds DEF PathInv
<1> QED  BY <1>2, PathInit_Inv, PathNext_Inv, PTL DEF PathSpec

=============================================================================
