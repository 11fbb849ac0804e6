---------------------------- MODULE TraeCredential ----------------------------
(* The credential document of one trae account and everyone who renews or    *)
(* rewrites it: executors, model discovery, the host's auth.refresh, manual  *)
(* check-ins, the panel, the scheduler over the pool's copy, the note and    *)
(* model snapshot writers.  Each renewal rotates the refresh token upstream. *)
EXTENDS Naturals

CONSTANTS Lanes,       \* operations under way at once
          NoPair,
          MaxPairs     \* bound: token pairs the account is issued

VARIABLES family,      \* "cn" (cn and solo) or "intl"
          doc,         \* the stored document
          live,        \* upstream: the pair whose refresh token renews
          pool,        \* the pair of the pool's copy (cn only)
          lane,
          alone        \* history: whether only renewals that save came by

vars == <<family, doc, live, pool, lane, alone>>

Pairs == 0..MaxPairs
Keys == {"none", "login", "minted"}
Docs == [pair : Pairs, keys : Keys, cache : BOOLEAN, note : BOOLEAN]
Idle == [by |-> "none", at |-> "idle",
         doc |-> [pair |-> 0, keys |-> "none", cache |-> FALSE, note |-> FALSE]]
CnRenewers == {"execute", "refresh", "checkin", "panel", "scheduler"}
IntlRenewers == {"execute", "discovery", "refresh"}
Renewers == IF family = "cn" THEN CnRenewers ELSE IntlRenewers

TypeOK ==
    /\ family \in {"cn", "intl"}
    /\ doc \in Docs /\ live \in Pairs /\ alone \in BOOLEAN
    /\ pool \in Pairs \cup {NoPair} /\ (family = "intl" => pool = NoPair)
    /\ lane \in [Lanes -> [at : {"idle", "exchange", "save"}, doc : Docs,
                           by : CnRenewers \cup IntlRenewers \cup {"none", "note", "models"}]]

Init ==
    /\ family \in {"cn", "intl"}
    /\ doc = [pair |-> 0, keys |-> "login", cache |-> FALSE, note |-> FALSE]
    /\ live = 0 /\ alone = TRUE
    /\ pool = IF family = "cn" THEN 0 ELSE NoPair
    /\ lane = [l \in Lanes |-> Idle]
-----------------------------------------------------------------------------
(* What a renewer's save holds.  The merge starts from the document the call *)
(* came with; the rebuilds start from nothing, and the panel's view of an    *)
(* account has no device keys, so that a renewal made from it mints some.    *)
mergeAuthStorageOld(d, pair) == d  \* mutant: the new pair is not merged
mergeAuthStorage(d, pair) == [d EXCEPT !.pair = pair]
Rebuilt(pair, keys) == [pair |-> pair, keys |-> keys, cache |-> FALSE, note |-> FALSE]
storageJSONForAuth(pair) == Rebuilt(pair, "minted")
intlpersistRefreshedAuthTo(pair) == Rebuilt(pair, "none")
intlhandleRefreshAuth(d, pair) == Rebuilt(pair, d.keys)

handleRefreshAuth(d, pair) == IF family = "cn" THEN mergeAuthStorage(d, pair)
                              ELSE intlhandleRefreshAuth(d, pair)
persistRefreshedAuth(d, pair) == IF family = "cn" THEN mergeAuthStorage(d, pair)
                                 ELSE intlpersistRefreshedAuthTo(pair)

Draft(by, d, pair) == CASE by = "checkin" -> storageJSONForAuth(pair)
                        [] by = "refresh" -> handleRefreshAuth(d, pair)
                        [] OTHER -> persistRefreshedAuth(d, pair)

(* The plugin's own saves carry over the keys that the draft lacks and the   *)
(* stored document has; the host's save after auth.refresh does not.         *)
preservePluginDocKeys(d) == [d EXCEPT !.cache = @ \/ doc.cache]
Stored(by, d) == IF by = "refresh" THEN d ELSE preservePluginDocKeys(d)
-----------------------------------------------------------------------------
Begins(l, by) ==
    /\ lane[l] = Idle
    /\ lane' = [lane EXCEPT ![l] = [by |-> by, at |-> "exchange", doc |->
                  IF by = "scheduler" THEN [doc EXCEPT !.pair = pool] ELSE doc]]
    /\ UNCHANGED <<family, doc, live, pool, alone>>

Ends(l) == lane' = [lane EXCEPT ![l] = Idle]

(* A call saves what it renewed; the panel's has nobody to save it, and the  *)
(* scheduler's only changes the pool's copy: its SaveAtomic has no file path.*)
Drafts(l, pair) ==
    /\ lane[l].by \notin {"panel", "scheduler"}
    /\ lane' = [lane EXCEPT ![l].at = "save", ![l].doc = Draft(lane[l].by, @, pair)]
    /\ UNCHANGED <<pool, alone>>
PanelDrops(l) == lane[l].by = "panel" /\ Ends(l) /\ alone' = FALSE /\ UNCHANGED pool
SchedulerKeeps(l, pair) ==
    lane[l].by = "scheduler" /\ Ends(l) /\ alone' = FALSE /\ pool' = pair
AnswerLost(l) == Ends(l) /\ alone' = FALSE /\ UNCHANGED pool

(* The bound exchange renews with a live refresh token only.  When its       *)
(* answer is lost, the legacy hosts are sent the token it spent.             *)
boundExchange(pair) == pair = live /\ live < MaxPairs /\ live' = live + 1

Renews(l) ==
    /\ lane[l].at = "exchange"
    /\ boundExchange(lane[l].doc.pair)
    /\ Drafts(l, live + 1) \/ PanelDrops(l) \/ SchedulerKeeps(l, live + 1) \/ AnswerLost(l)
    /\ UNCHANGED <<family, doc>>

Refused(l) ==
    /\ lane[l].at = "exchange"
    /\ Ends(l)
    /\ UNCHANGED <<family, doc, live, pool, alone>>

(* The note and the model snapshot are merged into the document read here.   *)
noteInto(d) == [d EXCEPT !.note = TRUE]
modelsInto(d) == [d EXCEPT !.cache = TRUE]

Merges(l, by) ==
    /\ lane[l] = Idle
    /\ lane' = [lane EXCEPT ![l] = [by |-> by, at |-> "save", doc |->
                  IF by = "note" THEN noteInto(doc) ELSE modelsInto(doc)]]
    /\ UNCHANGED <<family, doc, live, pool, alone>>

(* A save lands whole, whatever was stored since the draft's document was    *)
(* read, or fails and is only logged.                                        *)
Saves(l) ==
    LET d == lane[l].doc
    IN /\ lane[l].at = "save"
       /\ Ends(l)
       /\ \/ /\ doc' = Stored(lane[l].by, d)
             /\ alone' = (alone /\ d.pair >= doc.pair)
          \/ doc' = doc /\ alone' = (alone /\ d.pair <= doc.pair)
       /\ UNCHANGED <<family, live, pool>>

(* auth.parse on every change of the file puts the stored pair in the pool.  *)
Parse ==
    /\ family = "cn" /\ pool' = doc.pair
    /\ UNCHANGED <<family, doc, live, lane, alone>>

(* A new login or an import by the user; older refresh tokens are void.      *)
Login ==
    /\ live < MaxPairs /\ live' = live + 1
    /\ doc' = [pair |-> live + 1, keys |-> "login", cache |-> FALSE, note |-> FALSE]
    /\ pool' = IF family = "cn" THEN live + 1 ELSE pool
    /\ alone' = (alone /\ \A l \in Lanes : lane[l].at # "save")
    /\ UNCHANGED <<family, lane>>

Next ==
    \/ \E l \in Lanes : \/ \E by \in Renewers : Begins(l, by)
                        \/ \E by \in {"note", "models"} : Merges(l, by)
                        \/ Renews(l) \/ Refused(l) \/ Saves(l)
    \/ Parse \/ Login

Spec == Init /\ [][Next]_vars
-----------------------------------------------------------------------------
Held(l) == lane[l].at = "save" /\ lane[l].doc.pair = live

(* Each request renews its own copy of the pair, and no lock joins them: as  *)
(* long as every renewal that went through is saved, the stored refresh      *)
(* token renews or the one caller that rotated it still holds the new one.   *)
PairKept == alone => doc.pair = live \/ \E l \in Lanes : Held(l)

(* A document has a model catalog until a login or the host's own save       *)
(* replaces it: no rebuild of the plugin drops what was stored when it saved.*)
CatalogStays ==
    doc.cache /\ ~doc'.cache =>
      Login \/ \E l \in Lanes : lane[l].by = "refresh" /\ Saves(l)

(* Both, along every step: the live pair and the catalog are kept.           *)
CredentialKept == [][PairKept' /\ CatalogStays]_vars

(* The device keys a login bound are what a bound renewal signs with; "lost, *)
(* only the bare renewal is left" (management.go:1336-1337): no save of a cn *)
(* credential replaces them.                                                 *)
(* The code does not keep this; see the README, section 7.                   *)
LoginKeyKept == family = "cn" => doc.keys = "login"
=============================================================================
