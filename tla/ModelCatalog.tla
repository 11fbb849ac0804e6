---------------------------- MODULE ModelCatalog ----------------------------
(* The model lists workbuddy advertises (workbuddy/models.go,                 *)
(* models_persist.go, models_groups.go).  A query for a credential is         *)
(* answered from its realm's cache, else by a discovery of several probes at  *)
(* once, else by the last list, else by a snapshot in a credential file; a    *)
(* discovery's list goes into the cache and into the asker's file.            *)
(* A list is what its probes brought: the number of the catalog each gateway  *)
(* served.  Pinned lists and the per-account filters are left out.            *)
EXTENDS Naturals

CONSTANTS Creds,       \* the credential files
          Changes,     \* how often something comes in between: a gateway's catalog changes,
                       \* probes or a save fail, a file is rebuilt, the plugin is restarted
          Home,        \* the realm the accounts are of at first
          Horizon      \* snapshot times are told apart up to here

VARIABLES upstream,    \* per realm, the catalog its gateway serves
          down,        \* whether the gateways fail
          cache,       \* dynamicModelsCache: per realm the last list, and whether it is fresh
          docs,        \* per file its realm, its token's serial and its model_cache
          query,       \* per credential, the query being answered
          rewrite,     \* per file, what a typed rebuild is about to save
          clock, events

vars == <<upstream, down, cache, docs, query, rewrite, clock, events>>

Realms == {"cn", "global"}
\* The identities of v3ProbeUAsFor are taken as one.
Probes == {"enterprise", "v3"}

\* A list: where it was discovered, and what each answering probe brought.
Nothing == [realm |-> "none", got |-> {}]
Blank(r) == [Nothing EXCEPT !.realm = r]
NoSnapshot == [realm |-> "none", list |-> Nothing, at |-> 0]
Part(p, catalog) == [probe |-> p, catalog |-> catalog]
\* What an earlier process left in a file, which may have moved since.
Earlier(r) ==
  [realm |-> r, list |-> [Blank(r) EXCEPT !.got = {Part("enterprise", 0)}], at |-> 0]
Resting == [at |-> "rest", store |-> [realm |-> "none", token |-> 0, cache |-> NoSnapshot],
            left |-> {}, list |-> Nothing]
NotWriting == [writes |-> FALSE, doc |-> Resting.store]

Happens == events < Changes /\ events' = events + 1

Init ==
  /\ upstream = [r \in Realms |-> 1] /\ down = FALSE
  /\ cache = [r \in Realms |-> [list |-> Nothing, fresh |-> FALSE]]
  /\ docs \in [Creds -> [realm : {Home}, token : {0}, cache : {NoSnapshot} \cup {Earlier(r) : r \in Realms}]]
  /\ query = [c \in Creds |-> Resting]
  /\ rewrite = [c \in Creds |-> NotWriting]
  /\ clock = 0
  /\ events = 0

At(c, where) == query[c].at = where
Answers(c) == query' = [query EXCEPT ![c] = Resting]

-----------------------------------------------------------------------------
\* cachedDynamicModels: the cache's list answers while it is younger than the TTL.
Cached(r) == cache[r].list # Nothing /\ cache[r].fresh
CachedAnyAge(r) == cache[r].list # Nothing

\* model.for_auth, or the panel's refresh through this credential.
Asks(c) ==
  LET r == docs[c].realm IN
  /\ At(c, "rest")
  /\ IF Cached(r)
     THEN Answers(c)
     ELSE query' = [query EXCEPT ![c] = [at |-> "probing", store |-> docs[c],
                                         left |-> Probes, list |-> Blank(r)]]
  /\ UNCHANGED <<upstream, down, cache, docs, rewrite, clock, events>>

\* The enterprise's table, through the paths it may be at, and the rosters of
\* /v3/config: what is selectable of the catalog, or nothing when the gateway fails.
Table(r) == IF down THEN {} ELSE {Part("enterprise", upstream[r])}
Roster(r) == IF down THEN {} ELSE {Part("v3", upstream[r])}
\* mergeDiscoveryLists.
Merged(list, parts) == [list EXCEPT !.got = @ \cup parts]

\* callModelsAPI: the probes run at once, and each fails or brings its part.
ProbeReturns(c, p) ==
  LET r == query[c].store.realm IN
  /\ At(c, "probing") /\ p \in query[c].left
  /\ query' = [query EXCEPT ![c].left = @ \ {p},
                 ![c].list = Merged(@, IF p = "enterprise" THEN Table(r) ELSE Roster(r))]
  /\ UNCHANGED <<upstream, down, cache, docs, rewrite, clock, events>>

Probed(c) == At(c, "probing") /\ query[c].left = {}
Failed(c) == query[c].list = Blank(query[c].store.realm)

\* storeDynamicModels.
Discovers(c) ==
  LET q == query[c] IN
  /\ Probed(c) /\ ~ Failed(c)
  /\ cache' = [cache EXCEPT ![q.store.realm] = [list |-> q.list, fresh |-> TRUE]]
  /\ query' = [query EXCEPT ![c].at = "located"]
  /\ UNCHANGED <<upstream, down, docs, rewrite, clock, events>>

\* persistedSnapshotForStorage: the asker's own snapshot, else the freshest of the realm.
ServesAny(doc, r) == doc.cache.realm \in Realms
Serves(doc, r) == doc.cache.realm = r
Freshest(holders) ==
  {docs[d].cache.list : d \in {d \in holders : \A e \in holders : docs[e].cache.at <= docs[d].cache.at}}
Snapshots(store, r) ==
  IF Serves(store, r) THEN {store.cache.list} ELSE Freshest({d \in Creds : Serves(docs[d], r)})

\* noteRealmError leaves the list of the last discovery, which then answers.
Offered(c) ==
  LET q == query[c]
      r == q.store.realm IN
  IF CachedAnyAge(r) THEN {cache[r].list} ELSE Snapshots(q.store, r)
FailedProbes(c) == Probed(c) /\ Failed(c)
Fails(c) ==
  /\ FailedProbes(c)
  /\ Answers(c)
  /\ UNCHANGED <<upstream, down, cache, docs, rewrite, clock, events>>

-----------------------------------------------------------------------------
\* persistModelSnapshot: the file is found by the asker's token, and saved
\* whole when its snapshot is another.
UnchangedRealm(doc, q) == Serves(doc, q.store.realm)
Unchanged(doc, q) == Serves(doc, q.store.realm) /\ doc.cache.list = q.list
Locates(c) ==
  LET q == query[c] IN
  /\ At(c, "located")
  /\ IF docs[c].token # q.store.token \/ Unchanged(docs[c], q)
     THEN Answers(c)
     ELSE query' = [query EXCEPT ![c].at = "saving", ![c].store = [docs[c] EXCEPT !.cache =
                      [realm |-> q.store.realm, list |-> q.list, at |-> clock]]]
  /\ UNCHANGED <<upstream, down, cache, docs, rewrite, clock, events>>
Saves(c) ==
  LET q == query[c] IN
  /\ At(c, "saving")
  /\ Answers(c)
  /\ \/ docs' = [docs EXCEPT ![c] = q.store] /\ UNCHANGED events
     \/ Happens /\ UNCHANGED docs
  /\ UNCHANGED <<upstream, down, cache, rewrite, clock>>

\* The other writers build a file anew: a note, a renewed token, a login of the
\* account, at its own realm or the other (cn and global share the file's name).
\* hostAuthSaveJSON reads the file for the keys to preserve, and saves.
Rebuilt(doc) ==
  {doc} \cup {[doc EXCEPT !.token = @ + 1, !.realm = r] : r \in Realms}
Preserves(c) ==
  /\ ~ rewrite[c].writes /\ Happens
  /\ \E doc \in Rebuilt(docs[c]) : rewrite' = [rewrite EXCEPT ![c] = [writes |-> TRUE, doc |-> doc]]
  /\ UNCHANGED <<upstream, down, cache, docs, query, clock>>
Rebuilds(c) ==
  /\ rewrite[c].writes
  /\ docs' = [docs EXCEPT ![c] = rewrite[c].doc]
  /\ rewrite' = [rewrite EXCEPT ![c] = NotWriting]
  /\ UNCHANGED <<upstream, down, cache, query, clock, events>>

-----------------------------------------------------------------------------
\* The TTL of a realm's list passes.
Expires(r) ==
  /\ cache[r].fresh
  /\ cache' = [cache EXCEPT ![r].fresh = FALSE]
  /\ clock' = IF clock < Horizon THEN clock + 1 ELSE clock
  /\ UNCHANGED <<upstream, down, docs, query, rewrite, events>>
Publishes(r) ==
  /\ Happens
  /\ upstream' = [upstream EXCEPT ![r] = @ + 1]
  /\ UNCHANGED <<down, cache, docs, query, rewrite, clock>>
Outage ==
  /\ IF down THEN down' = FALSE /\ UNCHANGED events ELSE down' = TRUE /\ Happens
  /\ UNCHANGED <<upstream, cache, docs, query, rewrite, clock>>
Restarted ==
  /\ Happens
  /\ cache' = [r \in Realms |-> [list |-> Nothing, fresh |-> FALSE]]
  /\ query' = [c \in Creds |-> Resting] /\ rewrite' = [c \in Creds |-> NotWriting]
  /\ UNCHANGED <<upstream, down, docs, clock>>

Queries(c) ==
  \/ Asks(c) \/ \E p \in Probes : ProbeReturns(c, p)
  \/ Discovers(c) \/ Fails(c) \/ Locates(c) \/ Saves(c)
Next ==
  \/ \E c \in Creds : Queries(c) \/ Preserves(c) \/ Rebuilds(c)
  \/ \E r \in Realms : Expires(r) \/ Publishes(r)
  \/ Outage \/ Restarted

\* The host asks again for every credential over time; probes end on their
\* timeout; rebuilds end; hours pass.
Spec ==
  /\ Init /\ [][Next]_vars
  /\ \A c \in Creds : WF_vars(Queries(c)) /\ WF_vars(Rebuilds(c))
  /\ \A r \in Realms : WF_vars(Expires(r))
  /\ WF_vars(Outage /\ down)

-----------------------------------------------------------------------------
\* models_groups.go buildModelGroup: what the panel shows of a realm without a refresh.
Shown(r) == Freshest({d \in Creds : docs[d].realm = r /\ Serves(docs[d], r)})

\* The variables have their types; a realm's cache holds its own lists.
TypeOK ==
  /\ clock \in 0 .. Horizon
  /\ \A c \in Creds : /\ query[c].at \in {"rest", "probing", "located", "saving"}
                      /\ query[c].left \subseteq Probes
  /\ \A r \in Realms : cache[r].list # Nothing => cache[r].list.realm = r

\* No credential is answered, and no panel group shows, a list of another realm,
\* also after the account moved and its file kept a snapshot (models_persist.go:16-21).
RealmKept ==
  /\ \A c \in Creds : FailedProbes(c) =>
       \A list \in Offered(c) : list.realm = query[c].store.realm
  /\ \A r \in Realms : \A list \in Shown(r) : list.realm = r

\* In the end the cache answers every credential with what its gateway serves, and
\* the catalog is in a file for the next restart (models_persist.go:1-14).
Current(list, r) == list = [realm |-> r, got |-> [probe : Probes, catalog : {upstream[r]}]]
CatalogSettles ==
  <>[](\A c \in Creds : LET r == docs[c].realm IN
         Current(cache[r].list, r) /\ \E d \in Creds : Current(docs[d].cache.list, r))
=============================================================================
