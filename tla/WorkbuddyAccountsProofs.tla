------------------------ MODULE WorkbuddyAccountsProofs ------------------------
(***************************************************************************)
(* The workbuddy accounts, for every set of goroutines and accounts, every *)
(* guardrail and every bound: one check-in a day from the panel, no        *)
(* account deleted that was not empty, a selection that does not move      *)
(* among dead accounts, a daily loop that leaves nothing undone and pays   *)
(* for no chat it does not need.                                           *)
(***************************************************************************)
EXTENDS MCWorkbuddyAccounts, WellFoundedInduction, TLAPS

-----------------------------------------------------------------------------
(* One account: its handlers, its check-in lock and its lifecycle.           *)

Places == {"idle", "status", "claim", "refresh", "store", "reconcile", "fetch", "fetching",
           "wait", "decide", "confirm", "disable", "reenable", "delete", "note"}

Handlers == [kind : {"none", "tick", "hand", "life", "look"}, at : Places, credits : Credits,
             unchecked : BOOLEAN, disabled : BOOLEAN, prev : Credits, emptied : BOOLEAN]

SharedTypes ==
  /\ region \in {"cn", "global"}
  /\ up \in [credits : {"empty", "some"}, checked : BOOLEAN]
  /\ doc \in [there : BOOLEAN, disabled : BOOLEAN]
  /\ cache \in [there : BOOLEAN, credits : Credits]
  /\ memo \in [there : BOOLEAN, disabled : BOOLEAN, credits : Credits]
  /\ flight \in Goroutines \cup {Nobody} /\ lock \in Goroutines \cup {Nobody}
  /\ claims \in Nat /\ events \in 0 .. MaxEvents

\* What handler g may hold in region r, with these credits upstream, this
\* holder of the check-in lock and n claims today.
Sound(g, t, r, credits, holder, n) ==
  \* the panel's check-in holds the lock from its first call to its last, and one
  \* that has read "not checked in" today has seen a day without claim;
  /\ t.kind = "hand" => holder = g /\ t.at \in {"status", "claim", "refresh"}
  /\ t.kind = "hand" /\ t.at # "refresh" /\ t.unchecked => n = 0
  /\ t.at \in {"status", "claim", "refresh"} => t.kind \in {"tick", "hand"}
  \* the lifecycle's places are the lifecycle's, and only Global accounts die;
  /\ t.at \in {"reconcile", "decide", "confirm", "delete"} => t.kind = "life"
  /\ t.at \in {"fetch", "fetching", "wait"} => t.kind \in {"life", "look"}
  /\ t.at \in {"confirm", "delete"} => r = "global"
  \* credits that are gone at its decision have been gone under its eyes.
  /\ /\ r = "global" /\ t.kind = "life" /\ credits = "empty"
     /\ t.at \in {"fetch", "fetching", "wait", "decide", "confirm"}
     => t.emptied
  /\ t.at = "delete" => t.emptied

SoundNow(g) == Sound(g, task[g], region, up.credits, lock, claims)

AccountInv ==
  /\ SharedTypes
  /\ task \in [Goroutines -> Handlers]
  /\ \A g \in Goroutines : SoundNow(g)
  /\ claims <= 1 /\ (claims = 1 => up.checked)

\* One handler moves: what the others hold stays sound if credits are not lost
\* and the lock and the claims are changed by who may.
LEMMA OneMoves ==
  ASSUME AccountInv, NEW g \in Goroutines, NEW t \in Handlers, Becomes(g, t),
         region' = region, up'.credits = "empty" => up.credits = "empty",
         lock' = lock \/ lock \in {g, Nobody}, claims' = claims \/ lock = g,
         Sound(g, t, region', up'.credits, lock', claims')
  PROVE  task' \in [Goroutines -> Handlers] /\ \A h \in Goroutines : SoundNow(h)'
<1>1. task \in [Goroutines -> Handlers] /\ \A h \in Goroutines : SoundNow(h)
  BY DEF AccountInv
<1>2. task' \in [Goroutines -> Handlers] /\ task'[g] = t /\ \A h \in Goroutines \ {g} : task'[h] = task[h]
  BY <1>1 DEF Becomes
<1>3. SoundNow(g)'
  BY <1>2 DEF SoundNow
<1>4. ASSUME NEW h \in Goroutines \ {g} PROVE SoundNow(h)'
  <2>1. Sound(h, task[h], region, up.credits, lock, claims)
    BY <1>1 DEF SoundNow
  <2>2. task[h].kind = "hand" => lock' = lock /\ claims' = claims
    BY <2>1, WorkbuddyAccountsAssumption DEF Sound
  <2>3. Sound(h, task[h], region', up'.credits, lock', claims')
    BY <2>1, <2>2 DEF Sound
  <2> QED  BY <1>2, <2>3 DEF SoundNow
<1> QED  BY <1>2, <1>3, <1>4

\* A handler that ends, or that begins a reconcile, is sound whatever is around.
LEMMA RestSound ==
  \A g, r, credits, holder, n :
    /\ Sound(g, Idle, r, credits, holder, n)
    /\ Sound(g, [Idle EXCEPT !.kind = "life", !.at = "reconcile"], r, credits, holder, n)
BY DEF Sound, Idle

LEMMA RestTyped ==
  /\ Idle \in Handlers
  /\ [Idle EXCEPT !.kind = "life", !.at = "reconcile"] \in Handlers
BY DEF Idle, Handlers, Places, Credits

\* A handler that moves on keeps what it holds.
LEMMA Moved ==
  ASSUME NEW r \in Handlers, NEW place \in Places
  PROVE  LET t == [r EXCEPT !.at = place] IN
         /\ t \in Handlers /\ t.kind = r.kind /\ t.at = place
         /\ t.unchecked = r.unchecked /\ t.emptied = r.emptied
BY DEF Handlers

LEMMA MovedUnchecked ==
  ASSUME NEW r \in Handlers
  PROVE  LET t == [r EXCEPT !.unchecked = TRUE, !.at = "claim"] IN
         /\ t \in Handlers /\ t.kind = r.kind /\ t.at = "claim"
         /\ t.unchecked = TRUE /\ t.emptied = r.emptied
BY DEF Handlers, Places

LEMMA MovedFetching ==
  ASSUME NEW r \in Handlers, NEW found \in Credits
  PROVE  LET t == [r EXCEPT !.prev = found, !.at = "fetching"] IN
         /\ t \in Handlers /\ t.kind = r.kind /\ t.at = "fetching"
         /\ t.unchecked = r.unchecked /\ t.emptied = r.emptied
BY DEF Handlers, Places

LEMMA MovedReading ==
  ASSUME NEW r \in Handlers, NEW flag \in BOOLEAN, NEW told \in BOOLEAN
  PROVE  LET t == [r EXCEPT !.disabled = flag, !.at = "fetch", !.emptied = told] IN
         /\ t \in Handlers /\ t.kind = r.kind /\ t.at = "fetch"
         /\ t.unchecked = r.unchecked /\ t.emptied = told
BY DEF Handlers, Places

LEMMA MovedDecided ==
  ASSUME NEW r \in Handlers, NEW place \in Places
  PROVE  LET t == [r EXCEPT !.disabled = FALSE, !.at = place] IN
         /\ t \in Handlers /\ t.kind = r.kind /\ t.at = place
         /\ t.unchecked = r.unchecked /\ t.emptied = r.emptied
BY DEF Handlers

LEMMA MovedToDecide ==
  ASSUME NEW r \in Handlers, NEW found \in Credits
  PROVE  LET t == [r EXCEPT !.at = "decide", !.credits = found, !.prev = "unknown"] IN
         /\ t \in Handlers /\ t.kind = r.kind /\ t.at = "decide"
         /\ t.unchecked = r.unchecked /\ t.emptied = r.emptied
BY DEF Handlers, Places, Credits

LEMMA MovedEmptied ==
  ASSUME NEW r \in Handlers, NEW told \in BOOLEAN
  PROVE  LET t == [r EXCEPT !.emptied = told] IN
         /\ t \in Handlers /\ t.kind = r.kind /\ t.at = r.at
         /\ t.unchecked = r.unchecked /\ t.emptied = told
BY DEF Handlers

LEMMA MovedNewDay ==
  ASSUME NEW r \in Handlers
  PROVE  LET t == [r EXCEPT !.unchecked = FALSE] IN
         /\ t \in Handlers /\ t.kind = r.kind /\ t.at = r.at
         /\ t.unchecked = FALSE /\ t.emptied = r.emptied
BY DEF Handlers

LEMMA AccountInit == Init => AccountInv
<1> SUFFICES ASSUME Init PROVE AccountInv
  OBVIOUS
<1>1. SharedTypes
  <2>1. up \in [credits : {"empty", "some"}, checked : BOOLEAN] /\ doc \in [there : BOOLEAN, disabled : BOOLEAN]
    BY DEF Init
  <2>2. cache \in [there : BOOLEAN, credits : Credits] /\ memo \in [there : BOOLEAN, disabled : BOOLEAN, credits : Credits]
    BY DEF Init, NoEntry, NoMemo, Credits
  <2>3. claims \in Nat /\ events \in 0 .. MaxEvents
    BY WorkbuddyAccountsAssumption DEF Init
  <2> QED  BY <2>1, <2>2, <2>3 DEF Init, SharedTypes
<1>2. task \in [Goroutines -> Handlers] /\ \A g \in Goroutines : SoundNow(g)
  BY RestSound, RestTyped DEF Init, SoundNow
<1> QED  BY <1>1, <1>2 DEF Init, AccountInv

\* The variables that are not the handlers' keep their types.
LEMMA SharedTypesStep ==
  ASSUME SharedTypes, task \in [Goroutines -> Handlers], [Next]_vars
  PROVE  SharedTypes'
<1>0. \A g \in Goroutines : task[g].credits \in Credits /\ task[g].prev \in Credits
  BY DEF Handlers
<1>a. Fault \/ NoFault => events' \in 0 .. MaxEvents
  <2>1. events \in 0 .. MaxEvents /\ MaxEvents \in Nat
    BY WorkbuddyAccountsAssumption DEF SharedTypes
  <2> QED  BY ONLY <2>1 DEF Fault, NoFault
<1>b. UNCHANGED events => NoFault
  BY DEF NoFault
<1>c. ASSUME NEW g \in Goroutines, NEW d \in BOOLEAN, Saves(g, d)
      PROVE  /\ doc' \in [there : BOOLEAN, disabled : BOOLEAN]
             /\ memo' \in [there : BOOLEAN, disabled : BOOLEAN, credits : Credits]
             /\ events' \in 0 .. MaxEvents
  <2>1. events' \in 0 .. MaxEvents
    BY <1>c, <1>a DEF Saves
  <2>2. doc' = doc \/ doc' = [there |-> TRUE, disabled |-> d]
    BY <1>c DEF Saves
  <2>3. memo' = memo \/ memo' = [there |-> TRUE, disabled |-> d, credits |-> task[g].credits]
    BY <1>c DEF Saves
  <2>4. doc' \in [there : BOOLEAN, disabled : BOOLEAN]
    <3>1. CASE doc' = doc
      BY <3>1 DEF SharedTypes
    <3>2. CASE doc' = [there |-> TRUE, disabled |-> d]
      BY <3>2
    <3> QED  BY <2>2, <3>1, <3>2
  <2>5. memo' \in [there : BOOLEAN, disabled : BOOLEAN, credits : Credits]
    <3>1. CASE memo' = memo
      BY <3>1 DEF SharedTypes
    <3>2. CASE memo' = [there |-> TRUE, disabled |-> d, credits |-> task[g].credits]
      BY <1>0, <3>2
    <3> QED  BY <2>3, <3>1, <3>2
  <2> QED  BY <2>1, <2>4, <2>5
<1> USE <1>0, <1>a, <1>b DEF SharedTypes, Credits
<1>1. ASSUME NEW g \in Goroutines, Tick(g) PROVE SharedTypes'
  BY <1>1 DEF Tick, Patched, Invalidated
<1>2. ASSUME NEW g \in Goroutines, HandBegins(g) PROVE SharedTypes'
  BY <1>2 DEF HandBegins, shared
<1>3. ASSUME NEW g \in Goroutines, ErrorBegins(g) PROVE SharedTypes'
  BY <1>3 DEF ErrorBegins, shared
<1>4. ASSUME NEW g \in Goroutines, ClaimsTrial(g) PROVE SharedTypes'
  BY <1>4 DEF ClaimsTrial, Patched, Invalidated
<1>5. ASSUME NEW g \in Goroutines, Queries(g) PROVE SharedTypes'
  BY <1>5 DEF Queries, ReadCredits
<1>6. ASSUME NEW g \in Goroutines, Looks(g) PROVE SharedTypes'
  BY <1>6 DEF Looks, shared
<1>7. ASSUME NEW g \in Goroutines, StatusRead(g) PROVE SharedTypes'
  BY <1>7 DEF StatusRead, Merged, Unlocks
<1>8. ASSUME NEW g \in Goroutines, StatusFails(g) PROVE SharedTypes'
  BY <1>8 DEF StatusFails, Merged, Unlocks
<1>9. ASSUME NEW g \in Goroutines, Claim(g) PROVE SharedTypes'
  BY <1>9 DEF Claim, shared
<1>10. ASSUME NEW g \in Goroutines, ClaimFails(g) PROVE SharedTypes'
  BY <1>10 DEF ClaimFails, shared, Unlocks
<1>11. ASSUME NEW g \in Goroutines, Refresh(g) PROVE SharedTypes'
  BY <1>11 DEF Refresh, Patched, ReadCredits, Merged, Unlocks
<1>12. ASSUME NEW g \in Goroutines, \E guarded \in BOOLEAN : Store(g, guarded) PROVE SharedTypes'
  BY <1>12 DEF Store, ReadCredits
<1>13. ASSUME NEW g \in Goroutines, Reconcile(g) PROVE SharedTypes'
  BY <1>13 DEF Reconcile, shared
<1>14. ASSUME NEW g \in Goroutines, Fetch(g) PROVE SharedTypes'
  BY <1>14 DEF Fetch, shared
<1>15. ASSUME NEW g \in Goroutines, Fetched(g) PROVE SharedTypes'
  <2>1. PICK ok \in BOOLEAN : cache' = Stored(g, ok) /\ (IF ok THEN NoFault ELSE Fault)
    BY <1>15 DEF Fetched
  <2>2. cache' \in [there : BOOLEAN, credits : Credits]
    BY <2>1 DEF Stored, ReadCredits
  <2>3. events' \in 0 .. MaxEvents
    BY <2>1
  <2> QED  BY <1>15, <2>2, <2>3 DEF Fetched
<1>16. ASSUME NEW g \in Goroutines, Decide(g) PROVE SharedTypes'
  BY <1>16 DEF Decide, shared
<1>17. ASSUME NEW g \in Goroutines, Confirm(g) PROVE SharedTypes'
  BY <1>17 DEF Confirm, shared
<1>18. ASSUME NEW g \in Goroutines, SetsFlag(g) PROVE SharedTypes'
  <2>1. /\ doc' \in [there : BOOLEAN, disabled : BOOLEAN]
        /\ memo' \in [there : BOOLEAN, disabled : BOOLEAN, credits : Credits]
        /\ events' \in 0 .. MaxEvents
    BY <1>18, <1>c DEF SetsFlag, At
  <2>2. cache' \in [there : BOOLEAN, credits : Credits]
    BY <1>18 DEF SetsFlag, NoEntry
  <2> QED  BY <1>18, <2>1, <2>2 DEF SetsFlag
<1>19. ASSUME NEW g \in Goroutines, SyncsNote(g) PROVE SharedTypes'
  <2>1. doc.disabled \in BOOLEAN
    OBVIOUS
  <2>2. /\ doc' \in [there : BOOLEAN, disabled : BOOLEAN]
        /\ memo' \in [there : BOOLEAN, disabled : BOOLEAN, credits : Credits]
        /\ events' \in 0 .. MaxEvents
    BY <1>19, <1>c, <2>1 DEF SyncsNote
  <2> QED  BY <1>19, <2>2 DEF SyncsNote
<1>20. ASSUME NEW g \in Goroutines, Delete(g) PROVE SharedTypes'
  BY <1>20 DEF Delete, NoMemo, NoEntry
<1>21. CASE Spends
  BY <1>21 DEF Spends, Patched, Invalidated
<1>22. CASE Buys
  BY <1>22 DEF Buys, shared
<1>23. CASE Edits
  BY <1>23 DEF Edits, shared
<1>24. CASE NewDay
  BY <1>24 DEF NewDay, shared
<1>25. CASE MemoExpires
  BY <1>25 DEF MemoExpires, NoMemo
<1>26. CASE Prunes
  BY <1>26 DEF Prunes, NoEntry
<1>27. CASE UNCHANGED vars
  BY <1>27 DEF vars, shared
<1> QED
  BY <1>1, <1>2, <1>3, <1>4, <1>5, <1>6, <1>7, <1>8, <1>9, <1>10, <1>11, <1>12, <1>13, <1>14, <1>15, <1>16, <1>17, <1>18, <1>19, <1>20, <1>21, <1>22, <1>23, <1>24, <1>25, <1>26, <1>27
     DEF Next, Begins, Works, Checkin, Details, Lifecycle, Outside

LEMMA AccountStep == AccountInv /\ [Next]_vars => AccountInv'
<1> SUFFICES ASSUME AccountInv, [Next]_vars PROVE AccountInv'
  OBVIOUS
<1> DEFINE Better == task' \in [Goroutines -> Handlers] /\ \A h \in Goroutines : SoundNow(h)'
<1>a. SharedTypes /\ task \in [Goroutines -> Handlers] /\ SharedTypes'
  BY SharedTypesStep DEF AccountInv
\* Handlers that end or begin a reconcile.
<1>b. ASSUME NEW g \in Goroutines, Ends(g) \/ Reconciles(g),
             region' = region, up'.credits = "empty" => up.credits = "empty",
             lock' = lock \/ lock \in {g, Nobody}, claims' = claims
      PROVE  Better
  <2> DEFINE begun == [Idle EXCEPT !.kind = "life", !.at = "reconcile"]
  <2>1. Idle \in Handlers /\ begun \in Handlers
    BY RestTyped
  <2>2. Sound(g, Idle, region', up'.credits, lock', claims')
    BY RestSound
  <2>3. Sound(g, begun, region', up'.credits, lock', claims')
    BY RestSound
  <2>4. Becomes(g, Idle) \/ Becomes(g, begun)
    BY <1>b DEF Ends, Reconciles
  <2> HIDE DEF begun
  <2>5. CASE Becomes(g, Idle)
    BY <1>b, <2>1, <2>2, <2>5, OneMoves
  <2>6. CASE Becomes(g, begun)
    BY <1>b, <2>1, <2>3, <2>6, OneMoves
  <2> QED  BY <2>4, <2>5, <2>6
<1>c. ASSUME NEW g \in Goroutines
      PROVE  /\ task[g] \in Handlers
             /\ Sound(g, task[g], region, up.credits, lock, claims)
             /\ \A place \in Places : [task[g] EXCEPT !.at = place] \in Handlers
  BY <1>a DEF AccountInv, SoundNow, Handlers
<1> HIDE DEF Better
<1>1. ASSUME NEW g \in Goroutines, Tick(g) PROVE Better
  <2>1. CASE region = "cn"
    <3> DEFINE t == [Idle EXCEPT !.kind = "tick", !.at = "status"]
    <3>1. t \in Handlers /\ Sound(g, t, region', up'.credits, lock', claims')
      BY DEF Sound, Idle, Handlers, Places, Credits
    <3> HIDE DEF t
    <3> QED  BY <1>1, <2>1, <3>1, OneMoves DEF Tick, t, Better
  <2>2. CASE region # "cn"
    BY <1>1, <1>b, <2>2 DEF Tick
  <2> QED  BY <2>1, <2>2
<1>2. ASSUME NEW g \in Goroutines, HandBegins(g) PROVE Better
  <2> DEFINE t == [Idle EXCEPT !.kind = "hand", !.at = "status"]
  <2>1. t \in Handlers /\ Sound(g, t, region', up'.credits, lock', claims')
    BY <1>2 DEF Sound, Idle, Handlers, Places, Credits, HandBegins
  <2>2. Becomes(g, t)
    BY <1>2 DEF HandBegins
  <2> HIDE DEF t
  <2> QED  BY <1>2, <2>1, <2>2, OneMoves DEF HandBegins, Better
<1>3. ASSUME NEW g \in Goroutines, ErrorBegins(g) PROVE Better
  BY <1>3, <1>b DEF ErrorBegins
<1>4. ASSUME NEW g \in Goroutines, ClaimsTrial(g) PROVE Better
  <2>1. up'.credits = "empty" => up.credits = "empty"
    BY <1>4, <1>a DEF ClaimsTrial, SharedTypes
  <2> QED  BY <1>4, <1>b, <2>1 DEF ClaimsTrial
<1>5. ASSUME NEW g \in Goroutines, Queries(g) PROVE Better
  <2> DEFINE t == [Idle EXCEPT !.kind = "life", !.at = "note", !.credits = ReadCredits]
  <2>1. t \in Handlers /\ Sound(g, t, region', up'.credits, lock', claims')
    BY <1>5, <1>a DEF Sound, Idle, Handlers, Places, Credits, Queries, ReadCredits, SharedTypes
  <2>2. Becomes(g, t)
    BY <1>5 DEF Queries, Goes
  <2> HIDE DEF t
  <2> QED  BY <1>5, <2>1, <2>2, OneMoves DEF Queries, Better
<1>6. ASSUME NEW g \in Goroutines, Looks(g) PROVE Better
  <2> DEFINE t == [Idle EXCEPT !.kind = "look", !.at = "fetch"]
  <2>1. t \in Handlers /\ Sound(g, t, region', up'.credits, lock', claims')
    BY <1>6 DEF Sound, Idle, Handlers, Places, Credits, Looks
  <2>2. Becomes(g, t)
    BY <1>6 DEF Looks, Goes
  <2> HIDE DEF t
  <2> QED  BY <1>6, <2>1, <2>2, OneMoves DEF Looks, Better
<1>7. ASSUME NEW g \in Goroutines, StatusRead(g) PROVE Better
  <2>1. CASE ~ up.checked
    <3> DEFINE t == [task[g] EXCEPT !.unchecked = TRUE, !.at = "claim"]
    <3>1. claims = 0
      BY <1>a, <2>1 DEF AccountInv, SharedTypes
    <3>2. /\ t \in Handlers /\ t.kind = task[g].kind /\ t.at = "claim"
          /\ t.unchecked = TRUE /\ t.emptied = task[g].emptied
      BY <1>c, MovedUnchecked
    <3>3. Becomes(g, t)
      BY <1>7, <2>1 DEF StatusRead
    <3> HIDE DEF t
    <3>4. Sound(g, t, region', up'.credits, lock', claims')
      BY <1>7, <1>c, <2>1, <3>1, <3>2 DEF Sound, StatusRead, At
    <3> QED  BY <1>7, <2>1, <3>2, <3>3, <3>4, OneMoves DEF StatusRead, Better
  <2>2. CASE up.checked /\ task[g].kind = "tick"
    <3> DEFINE t == [task[g] EXCEPT !.at = "store"]
    <3>1. /\ t \in Handlers /\ t.kind = task[g].kind /\ t.at = "store"
      BY <1>c, Moved DEF Places
    <3>2. Becomes(g, t)
      BY <1>7, <2>2 DEF StatusRead, Goes
    <3> HIDE DEF t
    <3>3. Sound(g, t, region', up'.credits, lock', claims')
      BY <2>2, <3>1 DEF Sound
    <3> QED  BY <1>7, <2>2, <3>1, <3>2, <3>3, OneMoves DEF StatusRead, Better
  <2>3. CASE up.checked /\ task[g].kind # "tick"
    <3>1. lock = g
      BY <1>7, <1>c, <2>3 DEF Sound, StatusRead, At, Handlers
    <3> QED  BY <1>7, <1>b, <2>3, <3>1 DEF StatusRead
  <2> QED  BY <2>1, <2>2, <2>3
<1>8. ASSUME NEW g \in Goroutines, StatusFails(g) PROVE Better
  <2>1. CASE Becomes(g, [task[g] EXCEPT !.at = "claim"]) /\ task[g].kind # "tick" /\ UNCHANGED lock
    <3> DEFINE t == [task[g] EXCEPT !.at = "claim"]
    <3>1. /\ t \in Handlers /\ t.kind = task[g].kind /\ t.at = "claim"
          /\ t.unchecked = task[g].unchecked /\ t.emptied = task[g].emptied
      BY <1>c, Moved DEF Places
    <3>2. Becomes(g, t)
      BY <2>1
    <3> HIDE DEF t
    <3>3. Sound(g, t, region', up'.credits, lock', claims')
      BY <1>8, <1>c, <2>1, <3>1 DEF Sound, StatusFails, At
    <3> QED  BY <1>8, <2>1, <3>1, <3>2, <3>3, OneMoves DEF StatusFails, Better
  <2>2. CASE Becomes(g, [task[g] EXCEPT !.at = "store"]) /\ task[g].kind = "tick" /\ UNCHANGED lock
    <3> DEFINE t == [task[g] EXCEPT !.at = "store"]
    <3>1. /\ t \in Handlers /\ t.kind = task[g].kind /\ t.at = "store"
      BY <1>c, Moved DEF Places
    <3>2. Becomes(g, t)
      BY <2>2
    <3> HIDE DEF t
    <3>3. Sound(g, t, region', up'.credits, lock', claims')
      BY <2>2, <3>1 DEF Sound
    <3> QED  BY <1>8, <2>2, <3>1, <3>2, <3>3, OneMoves DEF StatusFails, Better
  <2>3. CASE Reconciles(g) /\ UNCHANGED lock
    BY <1>8, <1>b, <2>3 DEF StatusFails
  <2>4. CASE Ends(g) /\ Unlocks /\ task[g].kind # "tick"
    <3>1. lock = g
      BY <1>8, <1>c, <2>4 DEF Sound, StatusFails, At, Handlers
    <3> QED  BY <1>8, <1>b, <2>4, <3>1 DEF StatusFails
  <2> QED  BY <1>8, <2>1, <2>2, <2>3, <2>4 DEF StatusFails, Goes
<1>9. ASSUME NEW g \in Goroutines, Claim(g) PROVE Better
  <2>0. up'.credits = "empty" => up.credits = "empty"
    BY <1>9 DEF Claim
  <2>1. claims' = claims \/ lock = g
    BY <1>9, <1>c DEF Claim, Sound
  <2>2. CASE task[g].kind = "tick" /\ up.checked
    <3> DEFINE t == [task[g] EXCEPT !.at = "store"]
    <3>1. /\ t \in Handlers /\ t.kind = task[g].kind /\ t.at = "store"
          /\ t.unchecked = task[g].unchecked /\ t.emptied = task[g].emptied
      BY <1>c, Moved DEF Places
    <3>2. Becomes(g, t)
      BY <1>9, <2>2 DEF Claim, Goes
    <3> HIDE DEF t
    <3>3. Sound(g, t, region', up'.credits, lock', claims')
      BY <1>9, <1>c, <2>2, <3>1 DEF Sound, Claim, At
    <3> QED  BY <1>9, <2>2, <3>1, <3>2, <3>3, OneMoves, <2>0, <2>1 DEF Claim, Better
  <2>3. CASE ~ (task[g].kind = "tick" /\ up.checked)
    <3> DEFINE t == [task[g] EXCEPT !.at = "refresh"]
    <3>1. /\ t \in Handlers /\ t.kind = task[g].kind /\ t.at = "refresh"
          /\ t.unchecked = task[g].unchecked /\ t.emptied = task[g].emptied
      BY <1>c, Moved DEF Places
    <3>2. Becomes(g, t)
      BY <1>9, <2>3 DEF Claim, Goes
    <3> HIDE DEF t
    <3>3. Sound(g, t, region', up'.credits, lock', claims')
      BY <1>9, <1>c, <2>3, <3>1 DEF Sound, Claim, At
    <3> QED  BY <1>9, <2>3, <3>1, <3>2, <3>3, OneMoves, <2>0, <2>1 DEF Claim, Better
  <2> QED  BY <2>2, <2>3
<1>10. ASSUME NEW g \in Goroutines, ClaimFails(g) PROVE Better
  <2>1. CASE task[g].kind = "tick"
    <3> DEFINE t == [task[g] EXCEPT !.at = "store"]
    <3>1. /\ t \in Handlers /\ t.kind = task[g].kind /\ t.at = "store"
          /\ t.unchecked = task[g].unchecked /\ t.emptied = task[g].emptied
      BY <1>c, Moved DEF Places
    <3>2. Becomes(g, t)
      BY <1>10, <2>1 DEF ClaimFails, Goes
    <3> HIDE DEF t
    <3>3. Sound(g, t, region', up'.credits, lock', claims')
      BY <1>10, <1>c, <2>1, <3>1 DEF Sound, ClaimFails, At
    <3> QED  BY <1>10, <2>1, <3>1, <3>2, <3>3, OneMoves DEF ClaimFails, Better
  <2>2. CASE task[g].kind # "tick"
    <3>1. lock = g
      BY <1>10, <1>c, <2>2 DEF Sound, ClaimFails, At
    <3> QED  BY <1>10, <1>b, <2>2, <3>1 DEF ClaimFails, Unlocks
  <2> QED  BY <2>1, <2>2
<1>11. ASSUME NEW g \in Goroutines, Refresh(g) PROVE Better
  <2>1. CASE task[g].kind = "tick"
    <3> DEFINE t == [task[g] EXCEPT !.at = "store"]
    <3>1. /\ t \in Handlers /\ t.kind = task[g].kind /\ t.at = "store"
          /\ t.unchecked = task[g].unchecked /\ t.emptied = task[g].emptied
      BY <1>c, Moved DEF Places
    <3>2. Becomes(g, t)
      BY <1>11, <2>1 DEF Refresh, Goes
    <3> HIDE DEF t
    <3>3. Sound(g, t, region', up'.credits, lock', claims')
      BY <1>11, <1>c, <2>1, <3>1 DEF Sound, Refresh, At
    <3> QED  BY <1>11, <2>1, <3>1, <3>2, <3>3, OneMoves DEF Refresh, Better
  <2>2. CASE task[g].kind # "tick"
    <3>1. lock = g
      BY <1>11, <1>c, <2>2 DEF Sound, Refresh, At
    <3> QED  BY <1>11, <1>b, <2>2, <3>1 DEF Refresh, Unlocks
  <2> QED  BY <2>1, <2>2
<1>12. ASSUME NEW g \in Goroutines, NEW guarded \in BOOLEAN, Store(g, guarded) PROVE Better
  BY <1>12, <1>b DEF Store
<1>13. ASSUME NEW g \in Goroutines, Reconcile(g) PROVE Better
  <2>1. CASE doc.there
    <3> DEFINE told == region = "global" /\ up.credits = "empty"
               flag == doc.disabled
               t == [task[g] EXCEPT !.disabled = flag, !.at = "fetch", !.emptied = told]
    <3>0. told \in BOOLEAN /\ flag \in BOOLEAN
      BY <1>a DEF SharedTypes
    <3>1. /\ t \in Handlers /\ t.kind = task[g].kind /\ t.at = "fetch"
          /\ t.unchecked = task[g].unchecked /\ t.emptied = told
      <4> HIDE DEF told, flag
      <4>1. task[g] \in Handlers
        BY <1>c
      <4>3. t \in Handlers /\ t.emptied = told
        BY <3>0, <4>1, MovedReading
      <4>4. t.kind = task[g].kind /\ t.at = "fetch"
        BY <4>1 DEF Handlers
      <4>5. t.unchecked = task[g].unchecked
        BY <4>1 DEF Handlers
      <4> QED  BY <4>3, <4>4, <4>5
    <3>2. Becomes(g, t)
      BY <1>13, <2>1 DEF Reconcile
    <3> HIDE DEF t
    <3>3. Sound(g, t, region', up'.credits, lock', claims')
      BY <1>13, <1>c, <3>1 DEF Sound, Reconcile, At
    <3> QED  BY <1>13, <3>1, <3>2, <3>3, OneMoves DEF Reconcile, Better
  <2>2. CASE ~ doc.there
    BY <1>13, <1>b, <2>2 DEF Reconcile
  <2> QED  BY <2>1, <2>2
<1>14. ASSUME NEW g \in Goroutines, Fetch(g) PROVE Better
  <2>1. CASE flight = Nobody
    <3> DEFINE t == [task[g] EXCEPT !.prev = cache.credits, !.at = "fetching"]
    <3>0. cache.credits \in Credits
      BY <1>a DEF SharedTypes
    <3>1. /\ t \in Handlers /\ t.kind = task[g].kind /\ t.at = "fetching"
          /\ t.unchecked = task[g].unchecked /\ t.emptied = task[g].emptied
      BY <3>0, <1>c, MovedFetching
    <3>2. Becomes(g, t)
      BY <1>14, <2>1 DEF Fetch
    <3> HIDE DEF t
    <3>3. Sound(g, t, region', up'.credits, lock', claims')
      BY <1>14, <1>c, <3>1 DEF Sound, Fetch, At
    <3> QED  BY <1>14, <3>1, <3>2, <3>3, OneMoves DEF Fetch, Better
  <2>2. CASE flight # Nobody
    <3> DEFINE t == [task[g] EXCEPT !.at = "wait"]
    <3>1. /\ t \in Handlers /\ t.kind = task[g].kind /\ t.at = "wait"
          /\ t.unchecked = task[g].unchecked /\ t.emptied = task[g].emptied
      BY <1>c, Moved DEF Places
    <3>2. Becomes(g, t)
      BY <1>14, <2>2 DEF Fetch, Goes
    <3> HIDE DEF t
    <3>3. Sound(g, t, region', up'.credits, lock', claims')
      BY <1>14, <1>c, <2>2, <3>1 DEF Sound, Fetch, At
    <3> QED  BY <1>14, <2>2, <3>1, <3>2, <3>3, OneMoves DEF Fetch, Better
  <2> QED  BY <2>1, <2>2
<1>15. ASSUME NEW g \in Goroutines, Decide(g) PROVE Better
  <2>1. CASE task[g].credits = "unknown"
    BY <1>15, <1>b, <2>1 DEF Decide
  <2>2. CASE task[g].credits # "unknown"
    <3> DEFINE next ==
          CASE region = "cn" /\ task[g].disabled /\ task[g].credits = "some" -> "reenable"
            [] region = "cn" /\ ~ task[g].disabled /\ task[g].credits = "empty" -> "disable"
            [] region = "global" /\ task[g].credits = "empty" -> "confirm"
            [] OTHER -> "note"
    <3>1. /\ next \in {"reenable", "disable", "confirm", "note"}
          /\ next = "confirm" => region = "global"
      BY <1>a DEF SharedTypes
    <3>2. Becomes(g, [task[g] EXCEPT !.disabled = FALSE, !.at = next])
      BY <1>15, <2>2 DEF Decide
    <3> HIDE DEF next
    <3> DEFINE t == [task[g] EXCEPT !.disabled = FALSE, !.at = next]
    <3>3. next \in Places
      BY <3>1 DEF Places
    <3>4. /\ t \in Handlers /\ t.kind = task[g].kind /\ t.at = next
          /\ t.unchecked = task[g].unchecked /\ t.emptied = task[g].emptied
      BY <3>3, <1>c, MovedDecided
    <3>5. Becomes(g, t)
      BY <3>2
    <3> HIDE DEF t
    <3>6. Sound(g, t, region', up'.credits, lock', claims')
      BY <1>15, <1>c, <3>1, <3>4 DEF Sound, Decide, At
    <3> QED  BY <1>15, <3>4, <3>5, <3>6, OneMoves DEF Decide, Better
  <2> QED  BY <2>1, <2>2
<1>16. ASSUME NEW g \in Goroutines, Confirm(g) PROVE Better
  <2>1. CASE up.credits = "empty" /\ Goes(g, "delete")
    <3> DEFINE t == [task[g] EXCEPT !.at = "delete"]
    <3>1. /\ t \in Handlers /\ t.kind = task[g].kind /\ t.at = "delete"
          /\ t.unchecked = task[g].unchecked /\ t.emptied = task[g].emptied
      BY <1>c, Moved DEF Places
    <3>2. Becomes(g, t)
      BY <1>16, <2>1 DEF Goes
    <3> HIDE DEF t
    <3>3. Sound(g, t, region', up'.credits, lock', claims')
      BY <1>16, <1>c, <2>1, <3>1 DEF Sound, Confirm, At
    <3> QED  BY <1>16, <2>1, <3>1, <3>2, <3>3, OneMoves DEF Confirm, Better
  <2>2. CASE Ends(g)
    BY <1>16, <1>b, <2>2 DEF Confirm
  <2> QED  BY <1>16, <2>1, <2>2 DEF Confirm, ReadCredits
<1>17. ASSUME NEW g \in Goroutines, SetsFlag(g) PROVE Better
  BY <1>17, <1>b DEF SetsFlag, Saves
<1>18. ASSUME NEW g \in Goroutines, SyncsNote(g) PROVE Better
  BY <1>18, <1>b DEF SyncsNote, Saves
<1>19. ASSUME NEW g \in Goroutines, Delete(g) PROVE Better
  BY <1>19, <1>b DEF Delete
\* The steps that move several handlers, or none.
<1>20. ASSUME NEW g \in Goroutines, Fetched(g) PROVE Better
  <2>1. PICK ok \in BOOLEAN :
          task' = [h \in Goroutines |->
            IF h = g \/ At(h, "wait")
            THEN IF task[h].kind = "look" THEN Idle
                 ELSE [task[h] EXCEPT !.at = "decide", !.credits = Stored(g, ok).credits, !.prev = "unknown"]
            ELSE task[h]]
    BY <1>20 DEF Fetched
  <2> DEFINE found == Stored(g, ok).credits
  <2>2. found \in Credits
    BY <1>a, <1>c DEF SharedTypes, Stored, ReadCredits, Credits, Handlers
  <2>3. ASSUME NEW h \in Goroutines
        PROVE  task'[h] \in Handlers /\ Sound(h, task'[h], region', up'.credits, lock', claims')
    <3>1. CASE ~ (h = g \/ At(h, "wait"))
      BY <1>20, <1>c, <2>1, <3>1 DEF Fetched
    <3>2. CASE (h = g \/ At(h, "wait")) /\ task[h].kind = "look"
      BY <2>1, <3>2, RestSound, RestTyped
    <3>3. CASE (h = g \/ At(h, "wait")) /\ task[h].kind # "look"
      <4> DEFINE t == [task[h] EXCEPT !.at = "decide", !.credits = found, !.prev = "unknown"]
      <4>1. /\ t \in Handlers /\ t.kind = task[h].kind /\ t.at = "decide"
            /\ t.unchecked = task[h].unchecked /\ t.emptied = task[h].emptied
        <5> HIDE DEF found
        <5> QED  BY <1>c, <2>2, MovedToDecide
      <4>2. task'[h] = t
        BY <2>1, <3>3
      <4> HIDE DEF t
      <4>3. Sound(h, t, region', up'.credits, lock', claims')
        BY <1>20, <1>c, <3>3, <4>1 DEF Sound, Fetched, At
      <4> QED  BY <4>1, <4>2, <4>3
    <3> QED  BY <3>1, <3>2, <3>3
  <2> QED  BY <2>1, <2>3 DEF Better, SoundNow
<1>21. ASSUME Spends PROVE Better
  <2>1. ASSUME NEW h \in Goroutines
        PROVE  task'[h] \in Handlers /\ Sound(h, task'[h], region', up'.credits, lock', claims')
    <3> DEFINE told == region = "global" /\ task[h].kind = "life"
               t == [task[h] EXCEPT !.emptied = told]
    <3>1. told \in BOOLEAN
      OBVIOUS
    <3>2. /\ t \in Handlers /\ t.kind = task[h].kind /\ t.at = task[h].at
          /\ t.unchecked = task[h].unchecked /\ t.emptied = told
      <4> HIDE DEF told
      <4> QED  BY <1>c, <3>1, MovedEmptied
    <3>3. task'[h] = t
      BY <1>21 DEF Spends
    <3> HIDE DEF t
    <3>4. Sound(h, t, region', up'.credits, lock', claims')
      BY <1>21, <1>c, <3>2 DEF Sound, Spends
    <3> QED  BY <3>2, <3>3, <3>4
  <2> QED  BY <1>21, <2>1 DEF Spends, Better, SoundNow
<1>22. ASSUME NewDay PROVE Better
  <2>1. ASSUME NEW h \in Goroutines
        PROVE  task'[h] \in Handlers /\ Sound(h, task'[h], region', up'.credits, lock', claims')
    <3> DEFINE t == [task[h] EXCEPT !.unchecked = FALSE]
    <3>1. /\ t \in Handlers /\ t.kind = task[h].kind /\ t.at = task[h].at
          /\ t.unchecked = FALSE /\ t.emptied = task[h].emptied
      BY <1>c, MovedNewDay
    <3>2. task'[h] = t
      BY <1>22 DEF NewDay
    <3> HIDE DEF t
    <3>3. Sound(h, t, region', up'.credits, lock', claims')
      BY <1>22, <1>c, <3>1 DEF Sound, NewDay
    <3> QED  BY <3>1, <3>2, <3>3
  <2> QED  BY <1>22, <2>1 DEF NewDay, Better, SoundNow
<1>23. ASSUME UNCHANGED <<region, lock, task, claims>>, up'.credits = "empty" => up.credits = "empty"
       PROVE  Better
  <2>1. ASSUME NEW h \in Goroutines PROVE Sound(h, task'[h], region', up'.credits, lock', claims')
    BY <1>23, <1>c DEF Sound
  <2> QED  BY <1>23, <1>a, <2>1 DEF Better, SoundNow
<1>24. Better
  <2>1. CASE Buys \/ Edits \/ MemoExpires \/ Prunes \/ UNCHANGED vars
    BY <1>23, <2>1 DEF Buys, Edits, MemoExpires, Prunes, vars
  <2> QED
    BY <1>1, <1>2, <1>3, <1>4, <1>5, <1>6, <1>7, <1>8, <1>9, <1>10, <1>11, <1>12, <1>13, <1>14,
       <1>20, <1>15, <1>16, <1>17, <1>18, <1>19, <1>21, <1>22, <2>1
       DEF Next, Begins, Works, Checkin, Details, Lifecycle, Outside
\* One claim a day: who sends it has seen a day without one.
<1>25. claims' <= 1 /\ (claims' = 1 => up'.checked)
  <2>0. claims \in Nat /\ claims <= 1 /\ (claims = 1 => up.checked)
    BY DEF AccountInv, SharedTypes
  <2>1. ASSUME NEW g \in Goroutines, Claim(g) PROVE claims' <= 1 /\ (claims' = 1 => up'.checked)
    <3>1. up'.checked
      BY <2>1 DEF Claim
    <3>2. CASE task[g].kind = "hand" /\ task[g].unchecked
      <4>1. claims = 0
        BY <1>c, <2>1, <3>2 DEF Sound, Claim, At
      <4> QED  BY <2>1, <3>1, <4>1 DEF Claim
    <3> QED  BY <2>0, <2>1, <3>1, <3>2 DEF Claim
  <2>2. CASE NewDay
    BY <2>2 DEF NewDay
  <2>3. CASE claims' = claims /\ (up.checked => up'.checked)
    BY <2>0, <2>3
  <2>4. ASSUME NEW g \in Goroutines, Tick(g) \/ Begins(g) PROVE claims' = claims /\ (up.checked => up'.checked)
    <3>1. up \in [credits : {"empty", "some"}, checked : BOOLEAN]
      BY <1>a DEF SharedTypes
    <3> QED
      BY <2>4, <3>1 DEF Tick, Begins, HandBegins, ErrorBegins, ClaimsTrial, Queries, Looks
  <2>5. ASSUME NEW g \in Goroutines, Checkin(g), ~ Claim(g) PROVE claims' = claims /\ (up.checked => up'.checked)
    BY <2>5 DEF Checkin, StatusRead, StatusFails, ClaimFails, Refresh, Store
  <2>6. ASSUME NEW g \in Goroutines, Details(g) \/ Lifecycle(g) PROVE claims' = claims /\ up' = up
    <3>1. CASE Details(g)
      BY <3>1 DEF Details, Reconcile, Fetch, Fetched
    <3>2. CASE Lifecycle(g)
      BY <3>2 DEF Lifecycle, Decide, Confirm, SetsFlag, SyncsNote, Delete
    <3> QED  BY <2>6, <3>1, <3>2
  <2>7. CASE Spends \/ Buys \/ Edits \/ Prunes \/ MemoExpires \/ UNCHANGED vars
    <3>1. up \in [credits : {"empty", "some"}, checked : BOOLEAN]
      BY <1>a DEF SharedTypes
    <3>2. claims' = claims /\ (up.checked => up'.checked)
      BY <2>7, <3>1 DEF Spends, Buys, Edits, Prunes, MemoExpires, vars
    <3> QED  BY <2>3, <3>2
  <2>8. ASSUME NEW g \in Goroutines, Tick(g) \/ Begins(g) \/ Works(g) PROVE claims' <= 1 /\ (claims' = 1 => up'.checked)
    <3>1. CASE Claim(g)
      BY <2>1, <3>1
    <3>2. CASE ~ Claim(g)
      <4>1. claims' = claims /\ (up.checked => up'.checked)
        BY <2>4, <2>5, <2>6, <2>8, <3>2 DEF Works
      <4> QED  BY <2>3, <4>1
    <3> QED  BY <3>1, <3>2
  <2> QED  BY <2>2, <2>7, <2>8 DEF Next, Outside
<1> QED  BY <1>a, <1>24, <1>25 DEF AccountInv, Better

-----------------------------------------------------------------------------
(* The pick: which account serves.                                           *)

\* The first of a set of accounts in the host's order is one of them.
LEMMA FirstIsOne ==
  ASSUME NEW S, S \subseteq Guard!Accounts, S # {}
  PROVE  Guard!FirstOf(S) \in S
<1> DEFINE places == {i \in DOMAIN Order : Order[i] \in S}
<1>1. places \subseteq Nat /\ places # {}
  BY WorkbuddyAccountsAssumption DEF Guard!Accounts
<1>2. \E i \in places : \A j \in places : ~ (j < i)
  <2>1. PICK i \in places : \A j \in places : ~ (<<j, i>> \in OpToRel(<, Nat))
    BY ONLY <1>1, NatLessThanWellFounded, WFMin
  <2> QED  BY <1>1, <2>1 DEF OpToRel
<1>3. \E i \in DOMAIN Order : Order[i] \in S /\ \A j \in DOMAIN Order : Order[j] \in S => i <= j
  BY <1>1, <1>2
<1> QED  BY <1>3 DEF Guard!FirstOf

GuardInv == Guard!TypeOK

\* Whatever the pickers choose from, they choose an account.
LEMMA PickedIsAccount ==
  ASSUME active \in Guard!Accounts \cup {NoAccount},
         NEW S, S \subseteq Guard!Accounts, S # {}
  PROVE  Guard!Picked(S) \in Guard!Accounts
<1> DEFINE ready == {x \in S : Guard!Ready(x)}
<1>1. CASE ready = {}
  <2>1. Guard!Picked(S) = Guard!KeepOrFirst(S)
    BY <1>1 DEF Guard!Picked
  <2> QED  BY <2>1, FirstIsOne DEF Guard!KeepOrFirst
<1>2. CASE ready # {}
  <2>1. Guard!FirstOf(ready) \in ready
    <3>1. ready \subseteq Guard!Accounts
      OBVIOUS
    <3> HIDE DEF ready
    <3> QED  BY <1>2, <3>1, FirstIsOne
  <2>2. Guard!Picked(S) \in {active, Guard!FirstOf(ready)} /\ (Guard!Picked(S) = active => active \in ready \/ Guard!Picked(S) = Guard!FirstOf(ready))
    BY <1>2 DEF Guard!Picked
  <2> QED  BY <2>1, <2>2
<1> QED  BY <1>1, <1>2

LEMMA GuardInit == Guard!Init => GuardInv
<1> SUFFICES ASSUME Guard!Init PROVE Guard!TypeOK
  BY DEF GuardInv
<1>1. 0 \in 0 .. MaxChanges /\ -1 \in -1 .. Full
  BY WorkbuddyAccountsAssumption
<1> QED  BY <1>1 DEF Guard!Init, Guard!TypeOK

LEMMA GuardStep == GuardInv /\ [Guard!Next]_Guard!vars => GuardInv'
<1> SUFFICES ASSUME Guard!TypeOK, [Guard!Next]_Guard!vars PROVE Guard!TypeOK'
  BY DEF GuardInv
<1>0. MaxChanges \in Nat /\ Full \in Nat
  BY WorkbuddyAccountsAssumption
<1>a. Guard!Changes => changes' \in 0 .. MaxChanges
  BY <1>0 DEF Guard!TypeOK, Guard!Changes
<1>b. Guard!Accounts # {} /\ Order[1] \in Guard!Accounts
  BY WorkbuddyAccountsAssumption DEF Guard!Accounts
<1> USE DEF Guard!TypeOK
<1>1. CASE Guard!Pick
  <2>1. arming' \in [Guard!Accounts -> {"ready", "fetching", "reading", "tried"}]
    BY <1>1 DEF Guard!Pick, Guard!TryArm
  <2>2. dayStart' \in [Guard!Accounts -> -1 .. Full]
    BY <1>1 DEF Guard!Pick, Guard!StartOf
  <2>3. active' \in Guard!Accounts \cup {NoAccount}
    <3>1. Guard!Offered \subseteq Guard!Accounts
      BY DEF Guard!Offered, Guard!Candidates
    <3>2. Guard!Offered # {} => Guard!Picked(Guard!Offered) \in Guard!Accounts
      BY <3>1, PickedIsAccount
    <3> QED  BY <1>1, <3>2 DEF Guard!Pick, Guard!Selects
  <2> QED  BY <1>1, <2>1, <2>2, <2>3 DEF Guard!Pick, Guard!entries
<1>2. CASE Guard!Dashboard
  <2>1. Guard!Shown \subseteq Guard!Accounts /\ Guard!Shown # {}
    BY <1>b DEF Guard!Shown
  <2>2. Guard!Picked(Guard!Shown) \in Guard!Accounts
    BY <2>1, PickedIsAccount
  <2>3. active' \in Guard!Accounts \cup {NoAccount}
    BY <1>2, <1>b, <2>2 DEF Guard!Dashboard, Guard!Selects
  <2> QED  BY <1>2, <2>3 DEF Guard!Dashboard, Guard!entries
<1>c. ASSUME NEW x \in Guard!Accounts, NEW credits \in -1 .. Full, Guard!Stores(x, credits)
      PROVE  known' \in [Guard!Accounts -> -1 .. Full] /\ age' \in [Guard!Accounts -> {"none", "fresh", "stale"}]
  BY <1>c DEF Guard!Stores
<1>d. \A x \in Guard!Accounts : {remain[x], known[x], -1} \subseteq -1 .. Full
  BY <1>0
<1>e. ASSUME NEW x \in Guard!Accounts, NEW p \in {"ready", "reading", "tried"}, Guard!Arming(x, p)
      PROVE  arming' \in [Guard!Accounts -> {"ready", "fetching", "reading", "tried"}]
  BY <1>e DEF Guard!Arming
<1>3. ASSUME NEW x \in Guard!Accounts, Guard!Refreshes(x) \/ Guard!RefreshFails(x) \/ Guard!Chats(x)
      PROVE  Guard!TypeOK'
  <2>1. \E credits \in -1 .. Full : Guard!Stores(x, credits)
    BY <1>3, <1>d DEF Guard!Refreshes, Guard!RefreshFails, Guard!Chats
  <2>2. known' \in [Guard!Accounts -> -1 .. Full] /\ age' \in [Guard!Accounts -> {"none", "fresh", "stale"}]
    BY <2>1, <1>c
  <2> QED  BY <1>3, <1>a, <2>2 DEF Guard!Refreshes, Guard!RefreshFails, Guard!Chats
<1>4. ASSUME NEW x \in Guard!Accounts, Guard!LooksUp(x) \/ Guard!Arms(x) \/ Guard!ArmFails(x) \/ Guard!WindowPasses(x)
      PROVE  Guard!TypeOK'
  <2>1. arming' \in [Guard!Accounts -> {"ready", "fetching", "reading", "tried"}]
    BY <1>4, <1>e DEF Guard!LooksUp, Guard!Arms, Guard!ArmFails, Guard!WindowPasses
  <2>2. UNCHANGED <<known, age>> \/ \E credits \in -1 .. Full : Guard!Stores(x, credits)
    BY <1>4, <1>d DEF Guard!LooksUp, Guard!Arms, Guard!ArmFails, Guard!WindowPasses, Guard!entries
  <2>3. known' \in [Guard!Accounts -> -1 .. Full] /\ age' \in [Guard!Accounts -> {"none", "fresh", "stale"}]
    BY <2>2, <1>c
  <2> QED  BY <1>4, <1>a, <2>1, <2>3 DEF Guard!LooksUp, Guard!Arms, Guard!ArmFails, Guard!WindowPasses
<1>f. ASSUME NEW x \in Guard!Accounts, Guard!Ages(x) PROVE Guard!TypeOK'
  BY <1>f DEF Guard!Ages
<1>5. ASSUME NEW x \in Guard!Accounts, Guard!Select(x) PROVE Guard!TypeOK'
  BY <1>5, <1>a DEF Guard!Select, Guard!entries
<1>6. ASSUME NEW x \in Guard!Accounts, Guard!Spends(x) PROVE Guard!TypeOK'
  <2>1. (IF remain[x] > 0 THEN remain[x] - 1 ELSE Full) \in 0 .. Full
    BY <1>0
  <2>2. remain' \in [Guard!Accounts -> 0 .. Full]
    BY <1>6, <2>1 DEF Guard!Spends
  <2> QED  BY <1>6, <1>a, <2>2 DEF Guard!Spends, Guard!entries
<1>7. ASSUME NEW x \in Guard!Accounts, Guard!Vetoes(x) PROVE Guard!TypeOK'
  BY <1>7, <1>a DEF Guard!Vetoes, Guard!entries
<1>8. ASSUME NEW x \in Guard!Accounts, Guard!Forgets(x) PROVE Guard!TypeOK'
  <2>1. -1 \in -1 .. Full
    BY <1>0
  <2> QED  BY <1>8, <1>a, <2>1 DEF Guard!Forgets
<1>9. CASE Guard!NewDay
  <2>1. -1 \in -1 .. Full
    BY <1>0
  <2> QED  BY <1>9, <1>a, <2>1 DEF Guard!NewDay, Guard!entries
<1>10. CASE UNCHANGED Guard!vars
  BY <1>10 DEF Guard!vars
<1> QED
  BY <1>1, <1>2, <1>3, <1>4, <1>5, <1>6, <1>7, <1>8, <1>9, <1>10, <1>f
     DEF Guard!Next, Guard!Plugin, Guard!Outside

\* While every account is known to be exhausted, none is ready, so a pick and
\* the dashboard keep a selection they are offered.
LEMMA SelectionStays ==
  ASSUME GuardInv, [Guard!Next]_Guard!vars,
         \A x \in Guard!Accounts : Guard!Exhausted(x), active \in Guard!Offered
  PROVE  active' = active \/ changes' # changes
<1>1. active \in Guard!Accounts /\ active \notin disabled /\ changes \in Nat
  BY WorkbuddyAccountsAssumption DEF GuardInv, Guard!TypeOK, Guard!Offered, Guard!Candidates
<1>2. ASSUME NEW S, S \subseteq Guard!Accounts, active \in S PROVE Guard!Picked(S) = active
  <2>1. {x \in S : Guard!Ready(x)} = {}
    BY <1>2 DEF Guard!Ready
  <2> QED  BY <1>2, <2>1 DEF Guard!Picked, Guard!KeepOrFirst
<1>3. CASE Guard!Pick
  <2>1. Guard!Picked(Guard!Offered) = active
    BY <1>2 DEF Guard!Offered, Guard!Candidates
  <2> QED  BY <1>3, <2>1 DEF Guard!Pick, Guard!Selects
<1>4. CASE Guard!Dashboard
  <2>1. active \in Guard!Shown /\ Guard!Shown \subseteq Guard!Accounts
    BY <1>1 DEF Guard!Shown
  <2>2. Guard!Picked(Guard!Shown) = active /\ ~ (Guard!Shown \subseteq disabled)
    BY <1>1, <1>2, <2>1
  <2> QED  BY <1>4, <2>2 DEF Guard!Dashboard, Guard!Selects
<1>5. CASE Guard!Changes
  BY <1>1, <1>5 DEF Guard!Changes
<1>6. CASE active' = active
  BY <1>6
<1> QED
  BY <1>3, <1>4, <1>5, <1>6
     DEF Guard!Next, Guard!Plugin, Guard!Outside, Guard!Refreshes, Guard!RefreshFails, Guard!LooksUp, Guard!Arms,
         Guard!ArmFails, Guard!WindowPasses, Guard!Ages, Guard!Chats, Guard!NewDay, Guard!Select,
         Guard!Spends, Guard!Vetoes, Guard!Forgets, Guard!vars

-----------------------------------------------------------------------------
(* The daily loop: what a call does to the growth center.                    *)

Progresses == {"open", "accepted", "completed", "claimed"}

Centers ==
  [alive : BOOLEAN, active : BOOLEAN, buddy : BOOLEAN, cards : Nat, missed : BOOLEAN,
   gift : BOOLEAN, task : [Tasks!Codes -> Progresses], chats : 0 .. NightTarget,
   trip : {"idle", "traveling", "arrived"}, tier : {"locked", "ready", "claimed"},
   chances : Nat, energy : Nat, term : BOOLEAN, homework : {"completed", "claimed"}, draws : Nat]

\* The chances a code, and the chances and boxes a tier, may still grant.
Unclaimed(u, c) == IF u.task[c] = "claimed" THEN 0 ELSE 1
TierLeft(u) == IF u.tier = "ready" THEN 1 ELSE 0

\* No task is worth two chances, and "night" is open only below its target.
CenterOK(u) ==
  /\ u \in Centers
  /\ u.chances + Unclaimed(u, "lit") + Unclaimed(u, "night") + TierLeft(u) <= 3
  /\ u.energy + TierLeft(u) <= 3
  /\ u.task["night"] \in {"open", "accepted"} => u.chats < NightTarget

\* The school's draws, with the one its homework may still grant.
Schooling(u) == u.draws + (IF u.homework = "completed" THEN 1 ELSE 0)

\* Every code is enrolled.
Enrolled(u) == \A c \in Tasks!Codes : u.task[c] # "open"

\* What a call leaves alone: the school, what was enrolled and what enrols.
Keeps(u, v) ==
  /\ v.draws = u.draws /\ v.homework = u.homework
  /\ u.active => v.active
  /\ u.buddy => v.buddy
  /\ Enrolled(u) => Enrolled(v)

\* A call that neither scores, claims nor draws.
Quiet(u, v) ==
  /\ Keeps(u, v)
  /\ v.task = u.task /\ v.chances = u.chances /\ v.chats = u.chats /\ v.tier = u.tier
  /\ v.energy <= u.energy

(* A quiet call keeps the purses within bounds.                              *)
LEMMA QuietKeepsCenter ==
  ASSUME NEW u, CenterOK(u), NEW v \in Centers, Quiet(u, v)
  PROVE  CenterOK(v)
BY DEF CenterOK, Quiet, Keeps, Centers, Unclaimed, TierLeft

(* A call without effect is quiet.                                           *)
LEMMA SameQuiet ==
  ASSUME NEW u \in Centers
  PROVE  Quiet(u, u)
BY DEF Quiet, Keeps, Centers

(* Reporting makes the account active.                                       *)
LEMMA ReportQuiet ==
  ASSUME NEW u \in Centers
  PROVE  /\ Tasks!ReportActivity(u) \in Centers
         /\ Quiet(u, Tasks!ReportActivity(u))
         /\ Tasks!ReportActivity(u).active
<1>1. Tasks!ReportActivity(u) \in Centers
  BY DEF Tasks!ReportActivity, Centers
<1>2. Quiet(u, Tasks!ReportActivity(u)) /\ Tasks!ReportActivity(u).active
  BY DEF Tasks!ReportActivity, Centers, Quiet, Keeps, Enrolled
<1> QED  BY <1>1, <1>2

(* An active account adopts.                                                 *)
LEMMA AdoptQuiet ==
  ASSUME NEW u \in Centers
  PROVE  /\ Tasks!AdoptBuddy(u) \in Centers
         /\ Quiet(u, Tasks!AdoptBuddy(u))
         /\ u.active => Tasks!AdoptBuddy(u).buddy
<1>1. Tasks!AdoptBuddy(u) \in Centers
  BY DEF Tasks!AdoptBuddy, Centers
<1>2. CASE u.active
  BY <1>1, <1>2 DEF Tasks!AdoptBuddy, Centers, Quiet, Keeps, Enrolled
<1>3. CASE ~ u.active
  BY <1>1, <1>3 DEF Tasks!AdoptBuddy, Centers, Quiet, Keeps, Enrolled
<1> QED  BY <1>1, <1>2, <1>3

(* A card makes up a missed day.                                             *)
LEMMA MakeupQuiet ==
  ASSUME NEW u \in Centers
  PROVE  Tasks!UseMakeupCard(u) \in Centers /\ Quiet(u, Tasks!UseMakeupCard(u))
<1>1. CASE u.missed /\ u.cards > 0
  <2>1. u.cards - 1 \in Nat
    BY <1>1 DEF Centers
  <2>2. Tasks!UseMakeupCard(u) = [u EXCEPT !.missed = FALSE, !.cards = u.cards - 1]
    BY <1>1 DEF Tasks!UseMakeupCard
  <2>3. Tasks!UseMakeupCard(u) \in Centers
    BY <2>1, <2>2 DEF Centers
  <2>4. Quiet(u, Tasks!UseMakeupCard(u))
    BY <2>2 DEF Quiet, Keeps, Enrolled, Centers
  <2> QED  BY <2>3, <2>4
<1>2. CASE ~ (u.missed /\ u.cards > 0)
  BY <1>2, SameQuiet DEF Tasks!UseMakeupCard
<1> QED  BY <1>1, <1>2

(* The gift is taken.                                                        *)
LEMMA GiftQuiet ==
  ASSUME NEW u \in Centers
  PROVE  Tasks!ClaimGift(u) \in Centers /\ Quiet(u, Tasks!ClaimGift(u))
<1>1. Tasks!ClaimGift(u) \in Centers
  BY DEF Tasks!ClaimGift, Centers
<1>2. Quiet(u, Tasks!ClaimGift(u))
  BY DEF Tasks!ClaimGift, Centers, Quiet, Keeps, Enrolled
<1> QED  BY <1>1, <1>2

(* The buddy leaves or comes home.                                           *)
LEMMA TravelQuiet ==
  ASSUME NEW u \in Centers
  PROVE  Tasks!Travel(u) \in Centers /\ Quiet(u, Tasks!Travel(u))
<1>1. ASSUME NEW t \in {"idle", "traveling"}
      PROVE  [u EXCEPT !.trip = t] \in Centers /\ Quiet(u, [u EXCEPT !.trip = t])
  <2>1. [u EXCEPT !.trip = t] \in Centers
    BY DEF Centers
  <2>2. Quiet(u, [u EXCEPT !.trip = t])
    BY DEF Centers, Quiet, Keeps, Enrolled
  <2> QED  BY <2>1, <2>2
<1>2. CASE u.trip = "arrived"
  BY <1>1, <1>2 DEF Tasks!Travel
<1>3. CASE u.trip = "idle"
  BY <1>1, <1>3 DEF Tasks!Travel
<1>4. CASE u.trip \notin {"arrived", "idle"}
  BY <1>4, SameQuiet DEF Tasks!Travel
<1> QED  BY <1>2, <1>3, <1>4

(* Boxes cost energy and grant nothing counted here.                         *)
LEMMA BoxQuiet ==
  ASSUME NEW u \in Centers
  PROVE  Tasks!OpenBoxes(u) \in Centers /\ Quiet(u, Tasks!OpenBoxes(u))
<1>1. /\ u.energy - Tasks!Less(u.energy, MaxOpen) \in Nat
      /\ u.energy - Tasks!Less(u.energy, MaxOpen) <= u.energy
  BY WorkbuddyAccountsAssumption DEF Centers, Tasks!Less
<1>2. Tasks!OpenBoxes(u) \in Centers
  BY <1>1 DEF Tasks!OpenBoxes, Centers
<1>3. Quiet(u, Tasks!OpenBoxes(u))
  BY <1>1 DEF Tasks!OpenBoxes, Centers, Quiet, Keeps, Enrolled
<1> QED  BY <1>2, <1>3

(* The session dies.                                                         *)
LEMMA RevokedQuiet ==
  ASSUME NEW u \in Centers
  PROVE  [u EXCEPT !.alive = FALSE] \in Centers /\ Quiet(u, [u EXCEPT !.alive = FALSE])
<1>1. [u EXCEPT !.alive = FALSE] \in Centers
  BY DEF Centers
<1>2. Quiet(u, [u EXCEPT !.alive = FALSE])
  BY DEF Centers, Quiet, Keeps, Enrolled
<1> QED  BY <1>1, <1>2

(* With a buddy everything open is enrolled.                                 *)
LEMMA AcceptEnrolls ==
  ASSUME NEW u, CenterOK(u)
  PROVE  /\ CenterOK(Tasks!AcceptTasks(u))
         /\ Keeps(u, Tasks!AcceptTasks(u))
         /\ u.buddy => Enrolled(Tasks!AcceptTasks(u))
<1> DEFINE t == [c \in Tasks!Codes |-> IF u.task[c] = "open" /\ u.buddy THEN "accepted" ELSE u.task[c]]
           v == [u EXCEPT !.task = t]
<1>0. u \in Centers
  BY DEF CenterOK
<1>1. Tasks!AcceptTasks(u) = v
  BY DEF Tasks!AcceptTasks
<1>2. t \in [Tasks!Codes -> Progresses]
  BY <1>0 DEF Centers, Progresses
<1>3. \A c \in Tasks!Codes : t[c] = IF u.task[c] = "open" /\ u.buddy THEN "accepted" ELSE u.task[c]
  OBVIOUS
<1> HIDE DEF t
<1>4. v \in Centers
  BY <1>0, <1>2 DEF Centers
<1>5. /\ v.task = t /\ v.chances = u.chances /\ v.chats = u.chats /\ v.tier = u.tier
      /\ v.energy = u.energy /\ v.draws = u.draws /\ v.homework = u.homework
      /\ v.active = u.active /\ v.buddy = u.buddy
  BY <1>0 DEF Centers
<1> HIDE DEF v
<1>6. CenterOK(v)
  BY <1>3, <1>4, <1>5 DEF CenterOK, Unclaimed, TierLeft, Tasks!Codes
<1>7. Keeps(u, v) /\ (u.buddy => Enrolled(v))
  BY <1>3, <1>5 DEF Keeps, Enrolled
<1> QED  BY <1>1, <1>6, <1>7

(* An event completes the task it scores for.                                *)
LEMMA ScoreKeeps ==
  ASSUME NEW u, CenterOK(u)
  PROVE  CenterOK(Tasks!Score(u, "lit")) /\ Keeps(u, Tasks!Score(u, "lit"))
<1>0. u \in Centers
  BY DEF CenterOK
<1>1. CASE u.task["lit"] = "accepted"
  <2> DEFINE t == [u.task EXCEPT !["lit"] = "completed"]
             v == [u EXCEPT !.task = t]
  <2>1. Tasks!Score(u, "lit") = v
    BY <1>1 DEF Tasks!Score
  <2>2. /\ t \in [Tasks!Codes -> Progresses]
        /\ t["lit"] = "completed" /\ t["night"] = u.task["night"]
    BY <1>0 DEF Centers, Progresses, Tasks!Codes
  <2> HIDE DEF t
  <2>3. v \in Centers
    BY <1>0, <2>2 DEF Centers
  <2>4. /\ v.task = t /\ v.chances = u.chances /\ v.chats = u.chats /\ v.tier = u.tier
        /\ v.energy = u.energy /\ v.draws = u.draws /\ v.homework = u.homework
        /\ v.active = u.active /\ v.buddy = u.buddy
    BY <1>0 DEF Centers
  <2> HIDE DEF v
  <2>5. CenterOK(v)
    BY <1>1, <2>2, <2>3, <2>4 DEF CenterOK, Unclaimed, TierLeft
  <2>6. Keeps(u, v)
    BY <2>2, <2>4 DEF Keeps, Enrolled, Tasks!Codes
  <2> QED  BY <2>1, <2>5, <2>6
<1>2. CASE u.task["lit"] # "accepted"
  BY <1>0, <1>2, SameQuiet DEF Tasks!Score, Quiet
<1> QED  BY <1>1, <1>2

(* A chat counts for an enrolled "night", and completes it at its target.    *)
LEMMA ScoreChatKeeps ==
  ASSUME NEW u, CenterOK(u)
  PROVE  LET v == Tasks!ScoreChat(u) IN
         /\ CenterOK(v) /\ Keeps(u, v)
         /\ v.chats <= u.chats + 1
         /\ u.task["night"] \in {"open", "accepted"} /\ u.chats + 1 < NightTarget
            => v.task["night"] \in {"open", "accepted"}
<1>0. u \in Centers /\ u.chats \in Nat
  BY DEF CenterOK, Centers
<1>1. CASE u.task["night"] = "accepted"
  <2> DEFINE n == Tasks!Less(NightTarget, u.chats + 1)
             t == [u.task EXCEPT !["night"] = IF u.chats + 1 >= NightTarget THEN "completed" ELSE "accepted"]
             v == [u EXCEPT !.chats = n, !.task = t]
  <2>0. u.task \in [Tasks!Codes -> Progresses]
    BY <1>0 DEF Centers
  <2>1. Tasks!ScoreChat(u) = v
    BY <1>1, <2>0 DEF Tasks!ScoreChat, Tasks!Codes
  <2>2. n \in 0 .. NightTarget /\ n <= u.chats + 1 /\ (n >= NightTarget => u.chats + 1 >= NightTarget)
    BY <1>0, WorkbuddyAccountsAssumption DEF Tasks!Less
  <2>3. /\ t \in [Tasks!Codes -> Progresses]
        /\ t["night"] = IF u.chats + 1 >= NightTarget THEN "completed" ELSE "accepted"
        /\ t["lit"] = u.task["lit"]
    BY <2>0 DEF Progresses, Tasks!Codes
  <2> HIDE DEF n, t
  <2>4. v \in Centers
    BY <1>0, <2>2, <2>3 DEF Centers
  <2>5. /\ v.task = t /\ v.chances = u.chances /\ v.chats = n /\ v.tier = u.tier
        /\ v.energy = u.energy /\ v.draws = u.draws /\ v.homework = u.homework
        /\ v.active = u.active /\ v.buddy = u.buddy
    BY <1>0 DEF Centers
  <2> HIDE DEF v
  <2>6. CenterOK(v)
    BY <1>0, <1>1, <2>2, <2>3, <2>4, <2>5, WorkbuddyAccountsAssumption DEF CenterOK, Unclaimed, TierLeft
  <2>7. Keeps(u, v)
    BY <2>3, <2>5 DEF Keeps, Enrolled, Tasks!Codes
  <2>8. u.chats + 1 < NightTarget => v.task["night"] = "accepted"
    BY <1>0, <2>3, <2>5, WorkbuddyAccountsAssumption
  <2> QED  BY <2>1, <2>2, <2>5, <2>6, <2>7, <2>8
<1>2. CASE u.task["night"] # "accepted"
  BY <1>0, <1>2, SameQuiet DEF Tasks!ScoreChat, Quiet
<1> QED  BY <1>1, <1>2

(* A reward is claimed once and is worth one chance.                         *)
LEMMA ClaimKeeps ==
  ASSUME NEW u, CenterOK(u), NEW c \in Tasks!Codes
  PROVE  LET v == Tasks!ClaimReward(u, c) IN
         /\ CenterOK(v) /\ Keeps(u, v)
         /\ Tasks!Claimable(v) = Tasks!Claimable(u) \ {c}
<1>0. u \in Centers
  BY DEF CenterOK
<1>1. CASE c \in Tasks!Claimable(u)
  <2> DEFINE t == [u.task EXCEPT ![c] = "claimed"]
             n == u.chances + 1
             v == [u EXCEPT !.task = t, !.chances = n]
  <2>0. u.task \in [Tasks!Codes -> Progresses] /\ u.chances \in Nat /\ u.task[c] = "completed"
    BY <1>0, <1>1 DEF Centers, Tasks!Claimable
  <2>1. Tasks!ClaimReward(u, c) = v
    BY <1>1 DEF Tasks!ClaimReward
  <2>2. /\ t \in [Tasks!Codes -> Progresses]
        /\ \A d \in Tasks!Codes : t[d] = IF d = c THEN "claimed" ELSE u.task[d]
    BY <2>0 DEF Progresses
  <2>2a. n \in Nat /\ n = u.chances + 1
    BY <2>0
  <2> HIDE DEF t, n
  <2>3. v \in Centers
    BY <1>0, <2>2, <2>2a DEF Centers
  <2>4. /\ v.task = t /\ v.chances = u.chances + 1 /\ v.chats = u.chats /\ v.tier = u.tier
        /\ v.energy = u.energy /\ v.draws = u.draws /\ v.homework = u.homework
        /\ v.active = u.active /\ v.buddy = u.buddy
    BY <1>0, <2>2a DEF Centers
  <2> HIDE DEF v
  <2>5. CenterOK(v)
    <3>1. CASE c = "lit"
      BY <3>1, <2>0, <2>2, <2>3, <2>4 DEF CenterOK, Unclaimed, TierLeft, Tasks!Codes
    <3>2. CASE c = "night"
      BY <3>2, <2>0, <2>2, <2>3, <2>4 DEF CenterOK, Unclaimed, TierLeft, Tasks!Codes
    <3> QED  BY <3>1, <3>2 DEF Tasks!Codes
  <2>6. Keeps(u, v)
    BY <2>2, <2>4 DEF Keeps, Enrolled
  <2>7. Tasks!Claimable(v) = Tasks!Claimable(u) \ {c}
    BY <2>2, <2>4 DEF Tasks!Claimable
  <2> QED  BY <2>1, <2>5, <2>6, <2>7
<1>2. CASE c \notin Tasks!Claimable(u)
  <2>1. Tasks!ClaimReward(u, c) = u
    BY <1>2 DEF Tasks!ClaimReward
  <2> QED  BY <1>0, <1>2, <2>1, SameQuiet DEF Quiet
<1> QED  BY <1>1, <1>2

(* The streak's tier is redeemed once.                                       *)
LEMMA StreakKeeps ==
  ASSUME NEW u, CenterOK(u)
  PROVE  CenterOK(Tasks!Streak(u)) /\ Keeps(u, Tasks!Streak(u))
<1>0. u \in Centers
  BY DEF CenterOK
<1>1. CASE u.tier = "ready"
  <2> DEFINE e == u.energy + 1
             n == u.chances + 1
             v == [u EXCEPT !.tier = "claimed", !.energy = e, !.chances = n]
  <2>1. Tasks!Streak(u) = v
    BY <1>1 DEF Tasks!Streak
  <2>6. e \in Nat /\ n \in Nat /\ e = u.energy + 1 /\ n = u.chances + 1
    BY <1>0 DEF Centers
  <2> HIDE DEF e, n
  <2>2. v \in Centers
    BY <1>0, <2>6 DEF Centers
  <2>3. /\ v.task = u.task /\ v.chances = u.chances + 1 /\ v.chats = u.chats /\ v.tier = "claimed"
        /\ v.energy = u.energy + 1 /\ v.draws = u.draws /\ v.homework = u.homework
        /\ v.active = u.active /\ v.buddy = u.buddy
    BY <1>0, <2>6 DEF Centers
  <2> HIDE DEF v
  <2>4. CenterOK(v)
    BY <1>0, <1>1, <2>2, <2>3 DEF CenterOK, Unclaimed, TierLeft, Centers
  <2>5. Keeps(u, v)
    BY <2>3 DEF Keeps, Enrolled
  <2> QED  BY <2>1, <2>4, <2>5
<1>2. CASE u.tier # "ready"
  BY <1>0, <1>2, SameQuiet DEF Tasks!Streak, Quiet
<1> QED  BY <1>1, <1>2

(* A draw takes a chance and nothing else.                                   *)
LEMMA DrawKeeps ==
  ASSUME NEW u, CenterOK(u), u.chances > 0
  PROVE  LET v == Tasks!Draw(u) IN
         CenterOK(v) /\ Keeps(u, v) /\ v.task = u.task /\ v.chances = u.chances - 1
<1> DEFINE n == u.chances - 1
           v == [u EXCEPT !.chances = n]
<1>0. u \in Centers /\ n \in Nat
  BY DEF CenterOK, Centers
<1>1. Tasks!Draw(u) = v /\ n = u.chances - 1
  BY DEF Tasks!Draw
<1> HIDE DEF n
<1>2. v \in Centers
  BY <1>0 DEF Centers
<1>3. /\ v.task = u.task /\ v.chances = u.chances - 1 /\ v.chats = u.chats /\ v.tier = u.tier
      /\ v.energy = u.energy /\ v.draws = u.draws /\ v.homework = u.homework
      /\ v.active = u.active /\ v.buddy = u.buddy
  BY <1>0, <1>1 DEF Centers
<1> HIDE DEF v
<1>4. CenterOK(v)
  BY <1>0, <1>2, <1>3 DEF CenterOK, Unclaimed, TierLeft, Centers
<1>5. Keeps(u, v)
  BY <1>3 DEF Keeps, Enrolled
<1> QED  BY <1>1, <1>3, <1>4, <1>5

\* What the school's calls leave alone: everything but draws and homework.
SchoolOnly(u, v) ==
  /\ v.task = u.task /\ v.chances = u.chances /\ v.chats = u.chats /\ v.tier = u.tier
  /\ v.energy = u.energy /\ v.active = u.active /\ v.buddy = u.buddy

(* A share is worth one draw.                                                *)
LEMMA ShareGrants ==
  ASSUME NEW u, CenterOK(u)
  PROVE  LET v == Tasks!SchoolShare(u) IN
         CenterOK(v) /\ SchoolOnly(u, v) /\ Schooling(v) = Schooling(u) + 1
<1> DEFINE n == u.draws + 1
           v == [u EXCEPT !.draws = n]
<1>0. u \in Centers /\ u.draws \in Nat /\ n \in Nat
  BY DEF CenterOK, Centers
<1>1. Tasks!SchoolShare(u) = v /\ n = u.draws + 1
  BY DEF Tasks!SchoolShare
<1> HIDE DEF n
<1>2. v \in Centers
  BY <1>0 DEF Centers
<1>3. SchoolOnly(u, v) /\ v.draws = u.draws + 1 /\ v.homework = u.homework
  BY <1>0, <1>1 DEF Centers, SchoolOnly
<1> HIDE DEF v
<1>4. CenterOK(v)
  BY <1>2, <1>3 DEF CenterOK, Unclaimed, TierLeft, SchoolOnly
<1> QED  BY <1>0, <1>1, <1>3, <1>4 DEF Schooling

(* The homework's draw is granted once.                                      *)
LEMMA HomeworkGrants ==
  ASSUME NEW u, CenterOK(u)
  PROVE  LET v == Tasks!SchoolClaims(u) IN
         CenterOK(v) /\ SchoolOnly(u, v) /\ Schooling(v) = Schooling(u)
<1>0. u \in Centers /\ u.draws \in Nat
  BY DEF CenterOK, Centers
<1>1. CASE u.homework = "completed"
  <2> DEFINE n == u.draws + 1
             v == [u EXCEPT !.homework = "claimed", !.draws = n]
  <2>1. Tasks!SchoolClaims(u) = v /\ n = u.draws + 1 /\ n \in Nat
    BY <1>0, <1>1 DEF Tasks!SchoolClaims
  <2> HIDE DEF n
  <2>2. v \in Centers
    BY <1>0, <2>1 DEF Centers
  <2>3. SchoolOnly(u, v) /\ v.draws = u.draws + 1 /\ v.homework = "claimed"
    BY <1>0, <2>1 DEF Centers, SchoolOnly
  <2> HIDE DEF v
  <2>4. CenterOK(v)
    BY <2>2, <2>3 DEF CenterOK, Unclaimed, TierLeft, SchoolOnly
  <2> QED  BY <1>0, <1>1, <2>1, <2>3, <2>4 DEF Schooling
<1>2. CASE u.homework # "completed"
  BY <1>2 DEF Tasks!SchoolClaims, SchoolOnly
<1> QED  BY <1>1, <1>2

(* The draws are spent.                                                      *)
LEMMA DrainSpends ==
  ASSUME NEW u, CenterOK(u)
  PROVE  LET v == Tasks!SchoolDraws(u) IN
         CenterOK(v) /\ SchoolOnly(u, v) /\ v.draws = 0 /\ Schooling(v) <= Schooling(u)
<1> DEFINE v == [u EXCEPT !.draws = 0]
<1>0. u \in Centers /\ u.draws \in Nat
  BY DEF CenterOK, Centers
<1>1. Tasks!SchoolDraws(u) = v
  BY DEF Tasks!SchoolDraws
<1>2. v \in Centers
  BY <1>0 DEF Centers
<1>3. SchoolOnly(u, v) /\ v.draws = 0 /\ v.homework = u.homework
  BY <1>0 DEF Centers, SchoolOnly
<1> HIDE DEF v
<1>4. CenterOK(v)
  BY <1>2, <1>3 DEF CenterOK, Unclaimed, TierLeft, SchoolOnly
<1> QED  BY <1>0, <1>1, <1>3, <1>4 DEF Schooling

-----------------------------------------------------------------------------
(* The daily loop: its invariant.                                            *)

Callers == {"sched", "panel"}
NightPlaces == {"off", "deficit", "chat", "done"}
CallPlaces == {"report", "makeup", "gifts", "accept", "buddy", "light", "travel", "redeem",
               "claims", "lottery", "box", "share", "school", "drain"}
LoopPlaces == CallPlaces \cup NightPlaces
RunOf == [at : LoopPlaces, todo : SUBSET Tasks!Codes, left : Nat, clean : BOOLEAN, alone : BOOLEAN]

\* A caller that has not shared yet may grant one draw more.
Share(r, place) == IF r = "night" \/ place \in {"school", "drain", "done"} THEN 0 ELSE 1

\* Nothing failed or disturbed the run: the others have not run at all.
Solo(r) == run[r].clean /\ run[r].alone /\ \A s \in Tasks!Runs : s # r => run[s].at = "off"

\* What such a run has achieved by the place it is at.
Reached(place, todo, left, u) ==
  /\ place \notin {"off", "report"} => u.active
  /\ place \notin {"off", "report", "buddy"} => u.buddy
  /\ place \notin {"off", "report", "buddy", "makeup", "gifts", "accept"} => Enrolled(u)
  /\ place = "claims" /\ todo # {} => Tasks!Claimable(u) \subseteq todo
  /\ place \in {"lottery", "box", "share", "school", "drain", "done"} => Tasks!Claimable(u) = {}
  /\ place = "lottery" /\ left # 0 => left = u.chances
  /\ place \in {"box", "share", "school", "drain", "done"} => u.chances = 0
  /\ place \notin {"school", "drain"} => u.draws = 0

\* A chat that is on is worth its energy.
ChatOpen(u, left) == u.task["night"] \in {"open", "accepted"} /\ u.chats + left <= NightTarget

LoopTypes ==
  /\ run \in [Tasks!Runs -> RunOf] /\ run["night"].at \in NightPlaces
  /\ taskLock \in BOOLEAN /\ night \in BOOLEAN /\ over \in Nat /\ faults \in 0 .. MaxFaults

\* The check-in lock, and who runs beside whom.
LoopLocks ==
  /\ taskLock <=> Tasks!Busy("panel") \/ Tasks!Busy("night")
  /\ ~ (Tasks!Busy("panel") /\ Tasks!Busy("night"))
  /\ ~ (Tasks!Busy("sched") /\ Tasks!Busy("night"))
  /\ run["sched"].alone => ~ (Tasks!Busy("sched") /\ Tasks!Busy("panel"))
  /\ \A r \in Tasks!Runs : run[r].at = "off" => run[r].clean /\ run[r].alone

LoopChats ==
  /\ over > 0 => ~ run["sched"].alone
  /\ \A r \in Tasks!Runs : run[r].at = "chat" /\ run["sched"].alone => ChatOpen(center, run[r].left)

LoopSettles ==
  \A r \in Callers : Solo(r) => Reached(run[r].at, run[r].todo, run[r].left, center)

LoopDraws ==
  Schooling(center) + Share("sched", run["sched"].at) + Share("panel", run["panel"].at) <= 3

TasksInv ==
  CenterOK(center) /\ LoopTypes /\ LoopLocks /\ LoopChats /\ LoopSettles /\ LoopDraws

(* A step of one run that stays within its places: what is left to show of   *)
(* it is what it does to the growth center.                                  *)
LEMMA LoopMoved ==
  ASSUME TasksInv, NEW r \in Tasks!Runs, Tasks!Busy(r),
         NEW t \in RunOf, t.at # "off", r = "night" => t.at \in NightPlaces,
         t.alone = run[r].alone, t.clean => run[r].clean, Tasks!Becomes(r, t),
         Tasks!Unlocks(r), night' = night, faults' \in 0 .. MaxFaults, CenterOK(center'),
         over' \in Nat, over' > 0 => ~ run["sched"].alone,
         t.at = "chat" /\ run["sched"].alone => ChatOpen(center', t.left),
         t.clean /\ r \in Callers /\ Reached(run[r].at, run[r].todo, run[r].left, center)
           => Reached(t.at, t.todo, t.left, center'),
         Schooling(center') + Share(r, t.at) <= Schooling(center) + Share(r, run[r].at)
  PROVE  TasksInv'
<1> USE DEF Tasks!Runs
<1>1. run \in [Tasks!Runs -> RunOf]
  BY DEF TasksInv, LoopTypes
<1>2. run' \in [Tasks!Runs -> RunOf] /\ run'[r] = t /\ \A s \in Tasks!Runs : s # r => run'[s] = run[s]
  BY <1>1 DEF Tasks!Becomes
<1>3. LoopTypes'
  BY <1>2 DEF TasksInv, LoopTypes, Tasks!Unlocks
<1>4. LoopLocks'
  <2>1. r = "panel" => (Tasks!Busy("panel")' <=> t.at # "done")
    BY <1>2 DEF Tasks!Busy
  <2>2. r = "night" => (Tasks!Busy("night")' <=> t.at # "done")
    BY <1>2 DEF Tasks!Busy
  <2>3. \A s \in Tasks!Runs : s # r => (Tasks!Busy(s)' <=> Tasks!Busy(s))
    BY <1>2 DEF Tasks!Busy
  <2>4. run'["sched"].alone = run["sched"].alone
    BY <1>2
  <2>5. \A s \in Tasks!Runs : run'[s].at = "off" => run'[s].clean /\ run'[s].alone
    BY <1>2 DEF TasksInv, LoopLocks
  <2>6. taskLock' = (taskLock /\ (r = "sched" \/ t.at # "done"))
    BY <1>2 DEF Tasks!Unlocks
  <2>7. CASE r = "sched"
    BY <2>3, <2>4, <2>5, <2>6, <2>7 DEF TasksInv, LoopLocks
  <2>8. CASE r = "panel"
    BY <2>1, <2>3, <2>4, <2>5, <2>6, <2>8 DEF TasksInv, LoopLocks
  <2>9. CASE r = "night"
    BY <2>2, <2>3, <2>4, <2>5, <2>6, <2>9 DEF TasksInv, LoopLocks
  <2> QED  BY <2>7, <2>8, <2>9
<1>5. LoopChats'
  <2>1. run'["sched"].alone = run["sched"].alone
    BY <1>2
  <2>2. ASSUME NEW s \in Tasks!Runs, run'[s].at = "chat", run["sched"].alone
        PROVE  ChatOpen(center', run'[s].left)
    <3>1. CASE s = r
      BY <1>2, <2>2, <3>1
    <3>2. CASE s # r
      <4>1. Tasks!Busy(s)
        BY <1>2, <2>2, <3>2 DEF Tasks!Busy
      <4> QED  BY <2>2, <3>2, <4>1 DEF TasksInv, LoopLocks
    <3> QED  BY <3>1, <3>2
  <2> QED  BY <2>1, <2>2 DEF LoopChats
<1>6. LoopSettles'
  <2>1. ASSUME NEW s \in Callers, Solo(s)'
        PROVE  Reached(run'[s].at, run'[s].todo, run'[s].left, center')
    <3>1. s = r
      BY <1>2, <2>1 DEF Solo, Callers
    <3>2. Solo(r)
      BY <1>2, <2>1, <3>1 DEF Solo
    <3>3. Reached(run[r].at, run[r].todo, run[r].left, center) /\ t.clean
      BY <1>2, <2>1, <3>1, <3>2 DEF TasksInv, LoopSettles, Solo
    <3> QED  BY <1>2, <2>1, <3>1, <3>3
  <2> QED  BY <2>1 DEF LoopSettles
<1>7. LoopDraws'
  <2>1. Schooling(center) \in Nat /\ Schooling(center') \in Nat
    BY DEF TasksInv, CenterOK, Centers, Schooling
  <2>2. CASE r = "sched"
    BY <1>2, <2>1, <2>2 DEF TasksInv, LoopDraws, Share
  <2>3. CASE r = "panel"
    BY <1>2, <2>1, <2>3 DEF TasksInv, LoopDraws, Share
  <2>4. CASE r = "night"
    BY <1>2, <2>1, <2>4 DEF TasksInv, LoopDraws, Share
  <2> QED  BY <2>2, <2>3, <2>4
<1> QED  BY <1>3, <1>4, <1>5, <1>6, <1>7 DEF TasksInv

(* A run that begins: alone is what it says.                                 *)
LEMMA LoopBegun ==
  ASSUME TasksInv, NEW r \in Tasks!Runs, run[r].at = "off", Tasks!Begins(r),
         taskLock' \in BOOLEAN, taskLock' <=> taskLock \/ r # "sched",
         r = "panel" => ~ taskLock, r = "night" => ~ taskLock /\ ~ Tasks!Busy("sched"),
         r = "sched" => ~ Tasks!Busy("night")
  PROVE  TasksInv'
<1> USE DEF Tasks!Runs
<1> DEFINE first == IF r = "night" THEN "deficit" ELSE "report"
           alone == \A q \in Tasks!Runs : ~ Tasks!Busy(q)
           t == [Tasks!Off EXCEPT !.at = first, !.alone = alone]
<1>1. run \in [Tasks!Runs -> RunOf]
  BY DEF TasksInv, LoopTypes
<1>2. /\ t \in RunOf /\ t.at = first /\ t.todo = {} /\ t.left = 0 /\ t.clean = TRUE /\ t.alone = alone
  BY DEF Tasks!Off, RunOf, LoopPlaces, CallPlaces, NightPlaces
<1>3. /\ run' = [s \in Tasks!Runs |-> IF s = r THEN t ELSE [run[s] EXCEPT !.alone = run[s].alone /\ ~ Tasks!Busy(s)]]
      /\ UNCHANGED <<center, night, over, faults>>
  BY DEF Tasks!Begins
<1> HIDE DEF t
<1>4. ASSUME NEW s \in Tasks!Runs, s # r
      PROVE  /\ run'[s] \in RunOf /\ run'[s].at = run[s].at /\ run'[s].todo = run[s].todo
             /\ run'[s].left = run[s].left /\ run'[s].clean = run[s].clean
             /\ run'[s].alone = (run[s].alone /\ ~ Tasks!Busy(s))
  <2>1. run'[s] = [run[s] EXCEPT !.alone = run[s].alone /\ ~ Tasks!Busy(s)]
    BY <1>3, <1>4
  <2>2. run[s] \in RunOf /\ (run[s].alone /\ ~ Tasks!Busy(s)) \in BOOLEAN
    BY <1>1 DEF RunOf
  <2> QED  BY <2>1, <2>2 DEF RunOf
<1>5. run'[r] = t /\ DOMAIN run' = Tasks!Runs
  BY <1>3
<1>6. run' \in [Tasks!Runs -> RunOf]
  BY <1>2, <1>3, <1>4, <1>5
<1>7. LoopTypes'
  <2>1. run'["night"].at \in NightPlaces
    BY <1>2, <1>4, <1>5 DEF TasksInv, LoopTypes, NightPlaces
  <2> QED  BY <1>3, <1>6, <2>1 DEF TasksInv, LoopTypes
<1>8. /\ Tasks!Busy(r)' /\ ~ Tasks!Busy(r)
      /\ \A s \in Tasks!Runs : s # r => (Tasks!Busy(s)' <=> Tasks!Busy(s))
  BY <1>2, <1>4, <1>5 DEF Tasks!Busy
<1>9. \A s \in Tasks!Runs : run'[s].alone => run[s].alone
  BY <1>2, <1>4, <1>5 DEF TasksInv, LoopLocks
<1>10. LoopLocks'
  <2>1. \A s \in Tasks!Runs : run'[s].at = "off" => run'[s].clean /\ run'[s].alone
    BY <1>2, <1>4, <1>5 DEF TasksInv, LoopLocks, Tasks!Busy
  <2>2. CASE r = "sched"
    BY <1>2, <1>5, <1>8, <2>1, <2>2 DEF TasksInv, LoopLocks
  <2>3. CASE r = "panel"
    BY <1>4, <1>8, <2>1, <2>3 DEF TasksInv, LoopLocks
  <2>4. CASE r = "night"
    BY <1>4, <1>8, <2>1, <2>4 DEF TasksInv, LoopLocks
  <2> QED  BY <2>2, <2>3, <2>4
<1>11. LoopChats'
  <2>1. ASSUME NEW s \in Tasks!Runs, run'[s].at = "chat"
        PROVE  s # r /\ run[s].at = "chat" /\ run'[s].left = run[s].left
    BY <1>2, <1>4, <1>5, <2>1
  <2> QED  BY <1>3, <1>9, <2>1 DEF TasksInv, LoopChats
<1>12. LoopSettles'
  <2>1. ASSUME NEW s \in Callers, Solo(s)'
        PROVE  Reached(run'[s].at, run'[s].todo, run'[s].left, center')
    <3>1. s = r
      BY <1>2, <1>5, <2>1 DEF Solo, Callers
    <3>2. Solo(r)
      BY <1>4, <2>1, <3>1 DEF Solo, TasksInv, LoopLocks
    <3>3. Reached("off", run[r].todo, run[r].left, center)
      BY <2>1, <3>1, <3>2 DEF TasksInv, LoopSettles
    <3>4. run'[s].at = "report" /\ run'[s].todo = {} /\ run'[s].left = 0
      BY <1>2, <1>5, <2>1, <3>1 DEF Callers
    <3> QED  BY <1>3, <3>3, <3>4 DEF Reached
  <2> QED  BY <2>1 DEF LoopSettles
<1>13. LoopDraws'
  <2>1. \A s \in Callers : Share(s, run'[s].at) = Share(s, run[s].at)
    BY <1>2, <1>4, <1>5 DEF Share, Callers
  <2> QED  BY <1>3, <2>1 DEF TasksInv, LoopDraws, Callers
<1> QED  BY <1>3, <1>7, <1>10, <1>11, <1>12, <1>13 DEF TasksInv

(* Where the steps of the loop lead.                                         *)
LEMMA ThenLeads ==
  /\ Tasks!Then["report"] = "buddy" /\ Tasks!Then["buddy"] = "makeup"
  /\ Tasks!Then["makeup"] = "gifts" /\ Tasks!Then["gifts"] = "accept"
  /\ Tasks!Then["accept"] = "light" /\ Tasks!Then["light"] = "travel"
  /\ Tasks!Then["travel"] = "redeem" /\ Tasks!Then["redeem"] = "claims"
  /\ Tasks!Then["claims"] = "lottery" /\ Tasks!Then["lottery"] = "box"
  /\ Tasks!Then["box"] = "share" /\ Tasks!Then["share"] = "school"
  /\ Tasks!Then["school"] = "drain" /\ Tasks!Then["drain"] = "done"
BY DEF Tasks!Then

(* A call that is answered does what it does; one that is not spoils the run.*)
LEMMA LoopCalled ==
  ASSUME TasksInv, NEW r \in Tasks!Runs, NEW place \in CallPlaces, run[r].at = place,
         NEW then \in LoopPlaces \ {"off", "chat"}, Tasks!Then[place] = then,
         NEW v, Tasks!Calls(r, v), Tasks!Alone(r), CenterOK(v),
         center.alive /\ Reached(place, run[r].todo, run[r].left, center) => Reached(then, {}, 0, v),
         Schooling(v) + Share("sched", then) <= Schooling(center) + Share("sched", place)
  PROVE  TasksInv'
<1> DEFINE dead == IF place \in Tasks!Aborts THEN "done" ELSE then
<1>1. /\ run[r] \in RunOf /\ r \in Callers /\ Tasks!Busy(r) /\ CenterOK(center)
      /\ over \in Nat /\ faults \in 0 .. MaxFaults /\ Schooling(center) \in Nat
  BY DEF TasksInv, LoopTypes, Callers, CallPlaces, NightPlaces, Tasks!Runs, Tasks!Busy,
         CenterOK, Centers, Schooling
<1>2. dead \in LoopPlaces \ {"off", "chat"}
  BY DEF LoopPlaces, NightPlaces
<1>3. Share("sched", then) <= Share("sched", place) /\ Share("sched", dead) <= Share("sched", place)
  <2>1. CASE place \in {"school", "drain"}
    BY <2>1, ThenLeads DEF Share, Tasks!Aborts
  <2>2. CASE place \notin {"school", "drain"}
    BY <2>2 DEF Share, CallPlaces
  <2> QED  BY <2>1, <2>2
<1>4. ASSUME NEW p \in LoopPlaces, NEW t, t = [run[r] EXCEPT !.at = p, !.todo = {}, !.left = 0, !.clean = FALSE]
      PROVE  t \in RunOf /\ t.at = p /\ ~ t.clean /\ t.alone = run[r].alone
  BY <1>1, <1>4 DEF RunOf
<1>5. ASSUME NEW p \in LoopPlaces, NEW t, t = [run[r] EXCEPT !.at = p, !.todo = {}, !.left = 0]
      PROVE  /\ t \in RunOf /\ t.at = p /\ t.todo = {} /\ t.left = 0
             /\ t.clean = run[r].clean /\ t.alone = run[r].alone
  BY <1>1, <1>5 DEF RunOf
<1>6. /\ Tasks!Unlocks(r) /\ night' = night /\ over' = over
      /\ over' > 0 => ~ run["sched"].alone
  BY DEF Tasks!Alone, TasksInv, LoopChats
<1>7. \A p \in LoopPlaces : Share(r, p) = Share("sched", p)
  BY <1>1 DEF Share, Callers
<1> HIDE DEF dead
<1>8. CASE center.alive /\ center' = v /\ Tasks!Goes(r, then) /\ faults' = faults
  <2> DEFINE t == [run[r] EXCEPT !.at = then, !.todo = {}, !.left = 0]
  <2>1. Tasks!Becomes(r, t)
    BY <1>8 DEF Tasks!Goes
  <2>2. /\ t \in RunOf /\ t.at = then /\ t.todo = {} /\ t.left = 0
        /\ t.clean = run[r].clean /\ t.alone = run[r].alone
    BY <1>5
  <2> HIDE DEF t
  <2>3. Schooling(center') + Share(r, then) <= Schooling(center) + Share(r, run[r].at)
    BY <1>7, <1>8 DEF LoopPlaces
  <2> QED  BY <1>1, <1>6, <1>8, <2>1, <2>2, <2>3, LoopMoved DEF Callers
<1>9. ASSUME NEW p \in {then, dead}, center' = center, Tasks!Spoils(r, p), faults' \in 0 .. MaxFaults
      PROVE  TasksInv'
  <2> DEFINE t == [run[r] EXCEPT !.at = p, !.todo = {}, !.left = 0, !.clean = FALSE]
  <2>1. Tasks!Becomes(r, t)
    BY <1>9 DEF Tasks!Spoils
  <2>2. p \in LoopPlaces \ {"off", "chat"}
    BY <1>2
  <2>3. t \in RunOf /\ t.at = p /\ ~ t.clean /\ t.alone = run[r].alone
    BY <1>4, <2>2
  <2> HIDE DEF t
  <2>4. Schooling(center') + Share(r, p) <= Schooling(center) + Share(r, run[r].at)
    BY <1>1, <1>2, <1>3, <1>7, <1>9 DEF LoopPlaces, Share
  <2> QED  BY <1>1, <1>6, <1>9, <2>1, <2>2, <2>3, <2>4, LoopMoved DEF Callers
<1>10. CASE /\ faults < MaxFaults /\ faults' = faults + 1
            /\ center' = center /\ Tasks!Spoils(r, then)
  <2>1. faults' \in 0 .. MaxFaults
    BY <1>1, <1>10, WorkbuddyAccountsAssumption
  <2> QED  BY <1>9, <1>10, <2>1
<1>11. CASE UNCHANGED <<center, faults>> /\ Tasks!Spoils(r, dead)
  BY <1>1, <1>9, <1>11
<1> QED  BY <1>8, <1>10, <1>11 DEF Tasks!Calls, dead

(* The steps that are one call keep the loop's invariant.                    *)
LEMMA SimpleKeeps ==
  ASSUME TasksInv, NEW r \in Tasks!Runs, Tasks!Simple(r)
  PROVE  TasksInv'
<1> USE DEF LoopPlaces, CallPlaces, NightPlaces
<1>0. CenterOK(center) /\ center \in Centers
  BY DEF TasksInv, CenterOK
<1>1. CASE Tasks!Report(r)
  <2> DEFINE v == Tasks!ReportActivity(center)
  <2>1. CenterOK(v) /\ Keeps(center, v) /\ v.active
    BY <1>0, ReportQuiet, QuietKeepsCenter DEF Quiet
  <2>2. run[r].at = "report" /\ Tasks!Calls(r, v) /\ Tasks!Alone(r)
    BY <1>1 DEF Tasks!Report, Tasks!At
  <2> HIDE DEF v
  <2>3. Reached("report", run[r].todo, run[r].left, center) => Reached("buddy", {}, 0, v)
    BY <2>1 DEF Reached, Keeps
  <2>4. Schooling(v) + Share("sched", "buddy") <= Schooling(center) + Share("sched", "report")
    BY <1>0, <2>1 DEF Schooling, Keeps, Share, Centers
  <2> QED  BY <2>1, <2>2, <2>3, <2>4, ThenLeads, LoopCalled
<1>2. CASE Tasks!EnsureBuddy(r)
  <2> DEFINE v == Tasks!AdoptBuddy(center)
  <2>1. CenterOK(v) /\ Keeps(center, v) /\ (center.active => v.buddy)
    BY <1>0, AdoptQuiet, QuietKeepsCenter DEF Quiet
  <2>2. run[r].at = "buddy" /\ Tasks!Calls(r, v) /\ Tasks!Alone(r)
    BY <1>2 DEF Tasks!EnsureBuddy, Tasks!At
  <2> HIDE DEF v
  <2>3. Reached("buddy", run[r].todo, run[r].left, center) => Reached("makeup", {}, 0, v)
    BY <2>1 DEF Reached, Keeps
  <2>4. Schooling(v) + Share("sched", "makeup") <= Schooling(center) + Share("sched", "buddy")
    BY <1>0, <2>1 DEF Schooling, Keeps, Share, Centers
  <2> QED  BY <2>1, <2>2, <2>3, <2>4, ThenLeads, LoopCalled
<1>3. CASE Tasks!Makeup(r)
  <2> DEFINE v == Tasks!UseMakeupCard(center)
  <2>1. CenterOK(v) /\ Keeps(center, v)
    BY <1>0, MakeupQuiet, QuietKeepsCenter DEF Quiet
  <2>2. run[r].at = "makeup" /\ Tasks!Calls(r, v) /\ Tasks!Alone(r)
    BY <1>3 DEF Tasks!Makeup, Tasks!At
  <2> HIDE DEF v
  <2>3. Reached("makeup", run[r].todo, run[r].left, center) => Reached("gifts", {}, 0, v)
    BY <2>1 DEF Reached, Keeps
  <2>4. Schooling(v) + Share("sched", "gifts") <= Schooling(center) + Share("sched", "makeup")
    BY <1>0, <2>1 DEF Schooling, Keeps, Share, Centers
  <2> QED  BY <2>1, <2>2, <2>3, <2>4, ThenLeads, LoopCalled
<1>4. CASE Tasks!Gifts(r)
  <2> DEFINE v == Tasks!ClaimGift(center)
  <2>1. CenterOK(v) /\ Keeps(center, v)
    BY <1>0, GiftQuiet, QuietKeepsCenter DEF Quiet
  <2>2. run[r].at = "gifts" /\ Tasks!Calls(r, v) /\ Tasks!Alone(r)
    BY <1>4 DEF Tasks!Gifts, Tasks!At
  <2> HIDE DEF v
  <2>3. Reached("gifts", run[r].todo, run[r].left, center) => Reached("accept", {}, 0, v)
    BY <2>1 DEF Reached, Keeps
  <2>4. Schooling(v) + Share("sched", "accept") <= Schooling(center) + Share("sched", "gifts")
    BY <1>0, <2>1 DEF Schooling, Keeps, Share, Centers
  <2> QED  BY <2>1, <2>2, <2>3, <2>4, ThenLeads, LoopCalled
<1>5. CASE Tasks!Accept(r)
  <2> DEFINE v == Tasks!AcceptTasks(center)
  <2>1. CenterOK(v) /\ Keeps(center, v) /\ (center.buddy => Enrolled(v))
    BY <1>0, AcceptEnrolls
  <2>2. run[r].at = "accept" /\ Tasks!Calls(r, v) /\ Tasks!Alone(r)
    BY <1>5 DEF Tasks!Accept, Tasks!At
  <2> HIDE DEF v
  <2>3. Reached("accept", run[r].todo, run[r].left, center) => Reached("light", {}, 0, v)
    BY <2>1 DEF Reached, Keeps
  <2>4. Schooling(v) + Share("sched", "light") <= Schooling(center) + Share("sched", "accept")
    BY <1>0, <2>1 DEF Schooling, Keeps, Share, Centers
  <2> QED  BY <2>1, <2>2, <2>3, <2>4, ThenLeads, LoopCalled
<1>6. CASE Tasks!TravelOnce(r)
  <2> DEFINE v == IF center.buddy THEN Tasks!Travel(center) ELSE center
  <2>1. CenterOK(v) /\ Keeps(center, v)
    BY <1>0, TravelQuiet, SameQuiet, QuietKeepsCenter DEF Quiet
  <2>2. run[r].at = "travel" /\ Tasks!Calls(r, v) /\ Tasks!Alone(r)
    BY <1>6 DEF Tasks!TravelOnce, Tasks!At
  <2> HIDE DEF v
  <2>3. Reached("travel", run[r].todo, run[r].left, center) => Reached("redeem", {}, 0, v)
    BY <2>1 DEF Reached, Keeps
  <2>4. Schooling(v) + Share("sched", "redeem") <= Schooling(center) + Share("sched", "travel")
    BY <1>0, <2>1 DEF Schooling, Keeps, Share, Centers
  <2> QED  BY <2>1, <2>2, <2>3, <2>4, ThenLeads, LoopCalled
<1>7. CASE Tasks!Redeem(r)
  <2> DEFINE v == Tasks!Streak(center)
  <2>1. CenterOK(v) /\ Keeps(center, v)
    BY <1>0, StreakKeeps
  <2>2. run[r].at = "redeem" /\ Tasks!Calls(r, v) /\ Tasks!Alone(r)
    BY <1>7 DEF Tasks!Redeem, Tasks!At
  <2> HIDE DEF v
  <2>3. Reached("redeem", run[r].todo, run[r].left, center) => Reached("claims", {}, 0, v)
    BY <2>1 DEF Reached, Keeps
  <2>4. Schooling(v) + Share("sched", "claims") <= Schooling(center) + Share("sched", "redeem")
    BY <1>0, <2>1 DEF Schooling, Keeps, Share, Centers
  <2> QED  BY <2>1, <2>2, <2>3, <2>4, ThenLeads, LoopCalled
<1>8. CASE Tasks!Box(r)
  <2> DEFINE v == Tasks!OpenBoxes(center)
  <2>1. CenterOK(v) /\ Quiet(center, v) /\ Keeps(center, v)
    BY <1>0, BoxQuiet, QuietKeepsCenter DEF Quiet
  <2>2. run[r].at = "box" /\ Tasks!Calls(r, v) /\ Tasks!Alone(r)
    BY <1>8 DEF Tasks!Box, Tasks!At
  <2> HIDE DEF v
  <2>3. Reached("box", run[r].todo, run[r].left, center) => Reached("share", {}, 0, v)
    BY <2>1 DEF Reached, Quiet, Keeps, Tasks!Claimable
  <2>4. Schooling(v) + Share("sched", "share") <= Schooling(center) + Share("sched", "box")
    BY <1>0, <2>1 DEF Schooling, Keeps, Share, Centers
  <2> QED  BY <2>1, <2>2, <2>3, <2>4, ThenLeads, LoopCalled
<1> QED  BY <1>1, <1>2, <1>3, <1>4, <1>5, <1>6, <1>7, <1>8 DEF Tasks!Simple

(* A run that leaves the chat, or has no chat to do, goes on.                *)
LEMMA RunGone ==
  ASSUME TasksInv, NEW r \in Tasks!Runs, NEW p \in LoopPlaces
  PROVE  LET t == [run[r] EXCEPT !.at = p, !.todo = {}, !.left = 0] IN
         /\ t \in RunOf /\ t.at = p /\ t.todo = {} /\ t.left = 0
         /\ t.clean = run[r].clean /\ t.alone = run[r].alone
<1>1. run[r] \in RunOf
  BY DEF TasksInv, LoopTypes
<1> QED  BY <1>1 DEF RunOf

(* What every step may use.                                                  *)
LEMMA LoopFacts ==
  ASSUME TasksInv, NEW r \in Tasks!Runs
  PROVE  /\ run[r] \in RunOf /\ run \in [Tasks!Runs -> RunOf]
         /\ r \in Callers \/ (r = "night" /\ run[r].at \in NightPlaces)
         /\ CenterOK(center) /\ center \in Centers /\ Schooling(center) \in Nat
         /\ over \in Nat /\ faults \in 0 .. MaxFaults /\ (over > 0 => ~ run["sched"].alone)
BY DEF TasksInv, LoopTypes, LoopChats, Callers, Tasks!Runs, CenterOK, Centers, Schooling

(* A run moves where nothing upstream is due.                                *)
LEMMA LoopPassed ==
  ASSUME TasksInv, NEW r \in Tasks!Runs, Tasks!Busy(r), Tasks!Unlocks(r),
         UNCHANGED <<center, night, over, faults>>,
         NEW t \in RunOf, t.at # "off", r = "night" => t.at \in NightPlaces,
         t.alone = run[r].alone, t.clean = run[r].clean, Tasks!Becomes(r, t),
         t.at = "chat" /\ run["sched"].alone => ChatOpen(center, t.left),
         r \in Callers /\ Reached(run[r].at, run[r].todo, run[r].left, center)
           => Reached(t.at, t.todo, t.left, center),
         Share(r, t.at) <= Share(r, run[r].at)
  PROVE  TasksInv'
<1>1. Schooling(center') + Share(r, t.at) <= Schooling(center) + Share(r, run[r].at)
  BY LoopFacts DEF Share
<1> QED  BY <1>1, LoopFacts, LoopMoved

(* Lighting keeps the loop's invariant.                                      *)
LEMMA LightKeeps ==
  ASSUME TasksInv, NEW r \in Tasks!Runs, Tasks!Light(r)
  PROVE  TasksInv'
<1> DEFINE lit == Tasks!Score(center, "lit")
           v == Tasks!ClaimReward(lit, "lit")
<1>1. CenterOK(center) /\ center \in Centers /\ run[r].at = "light" /\ Tasks!Alone(r)
  BY LoopFacts DEF Tasks!Light, Tasks!At
<1>2. CenterOK(lit) /\ Keeps(center, lit)
  BY <1>1, ScoreKeeps
<1>3. CenterOK(v) /\ Keeps(lit, v)
  BY <1>2, ClaimKeeps DEF Tasks!Codes
<1>4. Keeps(center, v)
  BY <1>2, <1>3 DEF Keeps
<1>5. \/ center' = v /\ Tasks!Goes(r, "deficit") /\ UNCHANGED faults
      \/ Tasks!Calls(r, v)
  BY DEF Tasks!Light
<1> HIDE DEF lit, v
<1>6. Schooling(v) = Schooling(center)
  BY <1>4 DEF Keeps, Schooling
<1>7. CASE center' = v /\ Tasks!Goes(r, "deficit") /\ UNCHANGED faults
  <2> DEFINE t == [run[r] EXCEPT !.at = "deficit", !.todo = {}, !.left = 0]
  <2>1. Tasks!Becomes(r, t)
    BY <1>7 DEF Tasks!Goes
  <2>2. /\ t \in RunOf /\ t.at = "deficit" /\ t.todo = {} /\ t.left = 0
        /\ t.clean = run[r].clean /\ t.alone = run[r].alone
    BY RunGone DEF LoopPlaces, NightPlaces
  <2> HIDE DEF t
  <2>3. Reached("light", run[r].todo, run[r].left, center) => Reached("deficit", {}, 0, v)
    BY <1>4 DEF Reached, Keeps
  <2>4. Share(r, t.at) = Share(r, run[r].at)
    BY <1>1, <2>2 DEF Share
  <2>5. Schooling(center') + Share(r, t.at) <= Schooling(center) + Share(r, run[r].at)
    BY <1>6, <1>7, <2>4, LoopFacts DEF Share
  <2>6. Tasks!Busy(r) /\ Tasks!Unlocks(r) /\ night' = night /\ over' = over
    BY <1>1 DEF Tasks!Busy, Tasks!Alone
  <2> QED  BY <1>1, <1>3, <1>7, <2>1, <2>2, <2>3, <2>5, <2>6, LoopFacts, LoopMoved DEF NightPlaces
<1>8. CASE Tasks!Calls(r, v)
  <2>1. Reached("light", run[r].todo, run[r].left, center) => Reached("travel", {}, 0, v)
    BY <1>4 DEF Reached, Keeps
  <2>2. Schooling(v) + Share("sched", "travel") <= Schooling(center) + Share("sched", "light")
    BY <1>6, LoopFacts DEF Share
  <2> QED  BY <1>1, <1>3, <1>8, <2>1, <2>2, ThenLeads, LoopCalled DEF LoopPlaces, CallPlaces, NightPlaces
<1> QED  BY <1>5, <1>7, <1>8

(* Where the chats end.                                                      *)
LEMMA OverLeads ==
  ASSUME NEW r \in Tasks!Runs
  PROVE  LET past == IF r = "night" THEN "done" ELSE Tasks!Then["light"] IN
         /\ past = IF r = "night" THEN "done" ELSE "travel"
         /\ past \in LoopPlaces /\ (r = "night" => past \in NightPlaces)
         /\ past # "off" /\ past # "chat"
BY ThenLeads DEF LoopPlaces, CallPlaces, NightPlaces

(* Reading the deficit keeps the loop's invariant.                           *)
LEMMA DeficitKeeps ==
  ASSUME TasksInv, NEW r \in Tasks!Runs, Tasks!Deficit(r)
  PROVE  TasksInv'
<1> DEFINE past == IF r = "night" THEN "done" ELSE Tasks!Then["light"]
           left == NightTarget - center.chats
<1>1. /\ run[r].at = "deficit" /\ Tasks!Unlocks(r) /\ UNCHANGED <<center, night, over, faults>>
      /\ \/ /\ center.task["night"] \in {"open", "accepted"}
            /\ Tasks!Becomes(r, [run[r] EXCEPT !.at = "chat", !.left = left])
         \/ Tasks!Goes(r, past)
  BY DEF Tasks!Deficit, Tasks!At
<1>2. Tasks!Busy(r) /\ run[r] \in RunOf
  BY <1>1, LoopFacts DEF Tasks!Busy
<1>3. left \in Nat /\ center.chats + left <= NightTarget
  BY LoopFacts, WorkbuddyAccountsAssumption DEF Centers
<1>4. /\ past = IF r = "night" THEN "done" ELSE "travel"
      /\ past \in LoopPlaces /\ (r = "night" => past \in NightPlaces)
      /\ past # "off" /\ past # "chat"
  BY OverLeads
<1> HIDE DEF past, left
<1>5. CASE /\ center.task["night"] \in {"open", "accepted"}
           /\ Tasks!Becomes(r, [run[r] EXCEPT !.at = "chat", !.left = left])
  <2> DEFINE t == [run[r] EXCEPT !.at = "chat", !.left = left]
  <2>1. /\ t \in RunOf /\ t.at = "chat" /\ t.left = left /\ t.clean = run[r].clean
        /\ t.alone = run[r].alone
    <3>1. "chat" \in LoopPlaces
      BY DEF LoopPlaces, NightPlaces
    <3> QED  BY <1>2, <1>3, <3>1 DEF RunOf
  <2>2. Tasks!Becomes(r, t)
    BY <1>5
  <2> HIDE DEF t
  <2>3. Reached("deficit", run[r].todo, run[r].left, center) => Reached("chat", t.todo, left, center)
    BY DEF Reached
  <2>4. Share(r, "chat") <= Share(r, "deficit") /\ ChatOpen(center, left)
    BY <1>3, <1>5 DEF Share, ChatOpen
  <2> QED  BY <1>1, <1>2, <2>1, <2>2, <2>3, <2>4, LoopPassed DEF NightPlaces
<1>6. CASE Tasks!Goes(r, past)
  <2> DEFINE t == [run[r] EXCEPT !.at = past, !.todo = {}, !.left = 0]
  <2>1. /\ t \in RunOf /\ t.at = past /\ t.todo = {} /\ t.left = 0
        /\ t.clean = run[r].clean /\ t.alone = run[r].alone
    BY <1>4, RunGone
  <2>2. Tasks!Becomes(r, t)
    BY <1>6 DEF Tasks!Goes
  <2> HIDE DEF t
  <2>3. r \in Callers /\ Reached("deficit", run[r].todo, run[r].left, center) => Reached(past, {}, 0, center)
    BY <1>4 DEF Reached, Callers
  <2>4. Share(r, past) <= Share(r, "deficit")
    BY <1>4 DEF Share
  <2> QED  BY <1>1, <1>2, <1>4, <2>1, <2>2, <2>3, <2>4, LoopPassed
<1> QED  BY <1>1, <1>5, <1>6

(* A chat keeps the loop's invariant: while the lock holds nobody else       *)
(* chats, so the deficit that was read is still the deficit.                 *)
LEMMA ChatKeeps ==
  ASSUME TasksInv, NEW r \in Tasks!Runs, Tasks!Chat(r)
  PROVE  TasksInv'
<1> DEFINE past == IF r = "night" THEN "done" ELSE Tasks!Then["light"]
           v == Tasks!ScoreChat(center)
<1>1. /\ run[r].at = "chat" /\ Tasks!Unlocks(r) /\ night' = night /\ faults' = faults
      /\ \/ Tasks!Spoils(r, past) /\ UNCHANGED <<center, over>>
         \/ /\ center' = v
            /\ over' = IF center.task["night"] \in {"completed", "claimed"} THEN over + 1 ELSE over
            /\ \/ run[r].left > 1 /\ Tasks!Becomes(r, [run[r] EXCEPT !.left = run[r].left - 1])
               \/ Tasks!Goes(r, past)
  BY DEF Tasks!Chat, Tasks!At
<1>2. Tasks!Busy(r) /\ run[r] \in RunOf /\ run[r].left \in Nat
  BY <1>1, LoopFacts DEF Tasks!Busy, RunOf
<1>3. /\ past = IF r = "night" THEN "done" ELSE "travel"
      /\ past \in LoopPlaces /\ (r = "night" => past \in NightPlaces)
      /\ past # "off" /\ past # "chat"
  BY OverLeads
<1>4. /\ CenterOK(v) /\ Keeps(center, v) /\ v.chats <= center.chats + 1
      /\ center.task["night"] \in {"open", "accepted"} /\ center.chats + 1 < NightTarget
         => v.task["night"] \in {"open", "accepted"}
  BY LoopFacts, ScoreChatKeeps
<1>5. run["sched"].alone => ChatOpen(center, run[r].left)
  BY <1>1 DEF TasksInv, LoopChats
<1> HIDE DEF past, v
<1>6. Schooling(v) = Schooling(center) /\ Share(r, past) <= Share(r, "chat")
  BY <1>3, <1>4 DEF Keeps, Schooling, Share
<1>7. CASE Tasks!Spoils(r, past) /\ UNCHANGED <<center, over>>
  <2> DEFINE t == [run[r] EXCEPT !.at = past, !.todo = {}, !.left = 0, !.clean = FALSE]
  <2>1. t \in RunOf /\ t.at = past /\ ~ t.clean /\ t.alone = run[r].alone
    BY <1>2, <1>3 DEF RunOf
  <2>2. Tasks!Becomes(r, t)
    BY <1>7 DEF Tasks!Spoils
  <2> HIDE DEF t
  <2>3. Schooling(center') + Share(r, t.at) <= Schooling(center) + Share(r, run[r].at)
    BY <1>1, <1>6, <1>7, <2>1, LoopFacts DEF Share
  <2> QED  BY <1>1, <1>2, <1>3, <1>7, <2>1, <2>2, <2>3, LoopFacts, LoopMoved
<1>8. CASE /\ center' = v
           /\ over' = IF center.task["night"] \in {"completed", "claimed"} THEN over + 1 ELSE over
  <2>1. over' \in Nat /\ (over' > 0 => ~ run["sched"].alone)
    BY <1>5, <1>8, LoopFacts DEF ChatOpen
  <2>2. CASE run[r].left > 1 /\ Tasks!Becomes(r, [run[r] EXCEPT !.left = run[r].left - 1])
    <3> DEFINE left == run[r].left - 1
               t == [run[r] EXCEPT !.left = left]
    <3>1. left \in Nat
      BY <1>2, <2>2
    <3>2. ChatOpen(center, run[r].left) => ChatOpen(v, left)
      <4>1. center.chats \in Nat /\ v.chats \in Nat
        BY <1>4, LoopFacts DEF CenterOK, Centers
      <4> SUFFICES ASSUME ChatOpen(center, run[r].left)  PROVE ChatOpen(v, left)
        OBVIOUS
      <4>2. center.task["night"] \in {"open", "accepted"} /\ center.chats + run[r].left <= NightTarget
        BY DEF ChatOpen
      <4>3. center.chats + 1 < NightTarget
        BY <1>2, <2>2, <4>1, <4>2, WorkbuddyAccountsAssumption
      <4>4. v.chats + left <= NightTarget
        BY <1>2, <1>4, <2>2, <4>1, <4>2, WorkbuddyAccountsAssumption
      <4> QED  BY <1>4, <4>2, <4>3, <4>4 DEF ChatOpen
    <3>3. Tasks!Becomes(r, t)
      BY <2>2
    <3> HIDE DEF left
    <3>4. /\ t \in RunOf /\ t.at = "chat" /\ t.left = left /\ t.clean = run[r].clean
          /\ t.alone = run[r].alone
      BY <1>1, <1>2, <3>1 DEF RunOf
    <3> HIDE DEF t
    <3>5. Reached("chat", run[r].todo, run[r].left, center) => Reached("chat", t.todo, left, v)
      BY <1>4 DEF Reached, Keeps
    <3>6. Schooling(center') + Share(r, t.at) <= Schooling(center) + Share(r, run[r].at)
      BY <1>1, <1>6, <1>8, <3>4, LoopFacts DEF Share
    <3> QED  BY <1>1, <1>2, <1>4, <1>5, <1>8, <2>1, <3>2, <3>3, <3>4, <3>5, <3>6, LoopFacts, LoopMoved
             DEF NightPlaces
  <2>3. CASE Tasks!Goes(r, past)
    <3> DEFINE t == [run[r] EXCEPT !.at = past, !.todo = {}, !.left = 0]
    <3>1. /\ t \in RunOf /\ t.at = past /\ t.todo = {} /\ t.left = 0
          /\ t.clean = run[r].clean /\ t.alone = run[r].alone
      BY <1>3, RunGone
    <3>2. Tasks!Becomes(r, t)
      BY <2>3 DEF Tasks!Goes
    <3> HIDE DEF t
    <3>3. r \in Callers /\ Reached("chat", run[r].todo, run[r].left, center) => Reached(past, {}, 0, v)
      BY <1>3, <1>4 DEF Reached, Keeps, Callers
    <3>4. Schooling(center') + Share(r, t.at) <= Schooling(center) + Share(r, run[r].at)
      BY <1>1, <1>6, <1>8, <3>1, LoopFacts DEF Share
    <3> QED  BY <1>1, <1>2, <1>3, <1>4, <1>8, <2>1, <3>1, <3>2, <3>3, <3>4, LoopFacts, LoopMoved
  <2> QED  BY <1>1, <1>7, <1>8, <2>2, <2>3
<1> QED  BY <1>1, <1>7, <1>8

(* Claiming keeps the loop's invariant: every claim is on the list that was  *)
(* read, and nothing becomes claimable behind an undisturbed run.            *)
LEMMA ClaimsKeeps ==
  ASSUME TasksInv, NEW r \in Tasks!Runs, Tasks!Claims(r)
  PROVE  TasksInv'
<1>1. /\ run[r].at = "claims" /\ Tasks!Alone(r) /\ Tasks!Unlocks(r)
      /\ night' = night /\ over' = over
  BY DEF Tasks!Claims, Tasks!At, Tasks!Alone
<1>2. /\ Tasks!Busy(r) /\ run[r] \in RunOf /\ run[r].todo \in SUBSET Tasks!Codes
      /\ CenterOK(center) /\ center \in Centers /\ r # "night"
  BY <1>1, LoopFacts DEF Tasks!Busy, RunOf, NightPlaces, Callers
<1>3. CASE run[r].todo = {} /\ center.alive /\ Tasks!Claimable(center) # {}
  <2> DEFINE todo == Tasks!Claimable(center)
             t == [run[r] EXCEPT !.todo = todo]
  <2>1. Tasks!Becomes(r, t) /\ UNCHANGED <<center, faults>>
    BY <1>3 DEF Tasks!Claims
  <2>2. todo \in SUBSET Tasks!Codes
    BY DEF Tasks!Claimable
  <2> HIDE DEF todo
  <2>3. /\ t \in RunOf /\ t.at = "claims" /\ t.todo = todo /\ t.clean = run[r].clean
        /\ t.alone = run[r].alone
    BY <1>1, <1>2, <2>2 DEF RunOf
  <2> HIDE DEF t
  <2>4. Reached("claims", run[r].todo, run[r].left, center) => Reached("claims", todo, t.left, center)
    BY DEF Reached, todo
  <2>5. Share(r, t.at) <= Share(r, run[r].at)
    BY <1>1, <2>3 DEF Share
  <2> QED  BY <1>1, <1>2, <2>1, <2>3, <2>4, <2>5, LoopPassed
<1>4. CASE run[r].todo = {} /\ ~ (center.alive /\ Tasks!Claimable(center) # {})
  <2>1. Tasks!Calls(r, center)
    BY <1>4 DEF Tasks!Claims
  <2>2. center.alive /\ Reached("claims", run[r].todo, run[r].left, center) => Reached("lottery", {}, 0, center)
    BY <1>4 DEF Reached
  <2>3. Schooling(center) + Share("sched", "lottery") <= Schooling(center) + Share("sched", "claims")
    BY LoopFacts DEF Share
  <2> QED  BY <1>1, <1>2, <2>1, <2>2, <2>3, ThenLeads, LoopCalled DEF LoopPlaces, CallPlaces, NightPlaces
<1>5. ASSUME NEW c \in run[r].todo, run[r].todo = {c}, Tasks!Calls(r, Tasks!ClaimReward(center, c))
      PROVE  TasksInv'
  <2> DEFINE v == Tasks!ClaimReward(center, c)
  <2>1. CenterOK(v) /\ Keeps(center, v) /\ Tasks!Claimable(v) = Tasks!Claimable(center) \ {c}
    BY <1>2, ClaimKeeps
  <2>2. Tasks!Calls(r, v)
    BY <1>5
  <2> HIDE DEF v
  <2>3. Reached("claims", run[r].todo, run[r].left, center) => Reached("lottery", {}, 0, v)
    BY <1>5, <2>1 DEF Reached, Keeps
  <2>4. Schooling(v) + Share("sched", "lottery") <= Schooling(center) + Share("sched", "claims")
    BY <2>1, LoopFacts DEF Share, Keeps, Schooling
  <2> QED  BY <1>1, <2>1, <2>2, <2>3, <2>4, ThenLeads, LoopCalled DEF LoopPlaces, CallPlaces, NightPlaces
<1>6. ASSUME NEW c \in run[r].todo, run[r].todo # {c}, center' = Tasks!ClaimReward(center, c),
             UNCHANGED faults, Tasks!Becomes(r, [run[r] EXCEPT !.todo = run[r].todo \ {c}])
      PROVE  TasksInv'
  <2> DEFINE todo == run[r].todo \ {c}
             t == [run[r] EXCEPT !.todo = todo]
  <2>1. /\ CenterOK(center') /\ Keeps(center, center')
        /\ Tasks!Claimable(center') = Tasks!Claimable(center) \ {c}
    BY <1>2, <1>6, ClaimKeeps
  <2>2. todo \in SUBSET Tasks!Codes /\ todo # {}
    BY <1>2, <1>6
  <2>3. Reached("claims", run[r].todo, run[r].left, center) => Reached("claims", todo, run[r].left, center')
    BY <2>1 DEF Reached, Keeps
  <2>4. Tasks!Becomes(r, t)
    BY <1>6
  <2> HIDE DEF todo
  <2>5. /\ t \in RunOf /\ t.at = "claims" /\ t.todo = todo /\ t.left = run[r].left
        /\ t.clean = run[r].clean /\ t.alone = run[r].alone
    BY <1>1, <1>2, <2>2 DEF RunOf
  <2> HIDE DEF t
  <2>6. Schooling(center') + Share(r, t.at) <= Schooling(center) + Share(r, run[r].at)
    BY <1>1, <2>1, <2>5, LoopFacts DEF Share, Keeps, Schooling
  <2> QED  BY <1>1, <1>2, <1>6, <2>1, <2>3, <2>4, <2>5, <2>6, LoopFacts, LoopMoved
<1> QED  BY <1>3, <1>4, <1>5, <1>6 DEF Tasks!Claims

(* Drawing keeps the loop's invariant: an undisturbed run draws every chance *)
(* it counted.                                                               *)
LEMMA LotteryKeeps ==
  ASSUME TasksInv, NEW r \in Tasks!Runs, Tasks!Lottery(r)
  PROVE  TasksInv'
<1>1. /\ run[r].at = "lottery" /\ Tasks!Alone(r) /\ Tasks!Unlocks(r)
      /\ night' = night /\ over' = over
  BY DEF Tasks!Lottery, Tasks!At, Tasks!Alone
<1>2. /\ Tasks!Busy(r) /\ run[r] \in RunOf /\ run[r].left \in Nat
      /\ CenterOK(center) /\ center \in Centers /\ center.chances \in Nat /\ r # "night"
  BY <1>1, LoopFacts DEF Tasks!Busy, RunOf, Centers, NightPlaces, Callers
<1>3. CASE run[r].left = 0 /\ center.alive /\ center.chances > 0
  <2> DEFINE left == center.chances
             t == [run[r] EXCEPT !.left = left]
  <2>1. Tasks!Becomes(r, t) /\ UNCHANGED <<center, faults>>
    BY <1>3 DEF Tasks!Lottery
  <2>2. left \in Nat
    BY <1>2
  <2> HIDE DEF left
  <2>3. /\ t \in RunOf /\ t.at = "lottery" /\ t.left = left /\ t.clean = run[r].clean
        /\ t.alone = run[r].alone
    BY <1>1, <1>2, <2>2 DEF RunOf
  <2> HIDE DEF t
  <2>4. Reached("lottery", run[r].todo, run[r].left, center) => Reached("lottery", t.todo, left, center)
    BY DEF Reached, left
  <2>5. Share(r, t.at) <= Share(r, run[r].at)
    BY <1>1, <2>3 DEF Share
  <2> QED  BY <1>1, <1>2, <2>1, <2>3, <2>4, <2>5, LoopPassed
<1>4. CASE run[r].left = 0 /\ ~ (center.alive /\ center.chances > 0)
  <2>1. Tasks!Calls(r, center)
    BY <1>4 DEF Tasks!Lottery
  <2>2. center.alive /\ Reached("lottery", run[r].todo, run[r].left, center) => Reached("box", {}, 0, center)
    BY <1>2, <1>4 DEF Reached
  <2>3. Schooling(center) + Share("sched", "box") <= Schooling(center) + Share("sched", "lottery")
    BY LoopFacts DEF Share
  <2> QED  BY <1>1, <1>2, <2>1, <2>2, <2>3, ThenLeads, LoopCalled DEF LoopPlaces, CallPlaces, NightPlaces
<1>5. CASE run[r].left # 0 /\ center.chances = 0 /\ Tasks!Calls(r, center)
  <2>1. Reached("lottery", run[r].todo, run[r].left, center) => Reached("box", {}, 0, center)
    BY <1>5 DEF Reached
  <2>2. Schooling(center) + Share("sched", "box") <= Schooling(center) + Share("sched", "lottery")
    BY LoopFacts DEF Share
  <2> QED  BY <1>1, <1>2, <1>5, <2>1, <2>2, ThenLeads, LoopCalled DEF LoopPlaces, CallPlaces, NightPlaces
<1>6. CASE run[r].left = 1 /\ center.chances # 0 /\ Tasks!Calls(r, Tasks!Draw(center))
  <2> DEFINE v == Tasks!Draw(center)
  <2>1. CenterOK(v) /\ Keeps(center, v) /\ v.task = center.task /\ v.chances = center.chances - 1
    BY <1>2, <1>6, DrawKeeps
  <2>2. Tasks!Calls(r, v)
    BY <1>6
  <2> HIDE DEF v
  <2>3. Reached("lottery", run[r].todo, run[r].left, center) => Reached("box", {}, 0, v)
    BY <1>6, <2>1 DEF Reached, Keeps, Tasks!Claimable
  <2>4. Schooling(v) + Share("sched", "box") <= Schooling(center) + Share("sched", "lottery")
    BY <2>1, LoopFacts DEF Share, Keeps, Schooling
  <2> QED  BY <1>1, <2>1, <2>2, <2>3, <2>4, ThenLeads, LoopCalled DEF LoopPlaces, CallPlaces, NightPlaces
<1>7. CASE /\ run[r].left \notin {0, 1} /\ center.chances # 0
           /\ center' = Tasks!Draw(center) /\ UNCHANGED faults
           /\ Tasks!Becomes(r, [run[r] EXCEPT !.left = run[r].left - 1])
  <2> DEFINE left == run[r].left - 1
             t == [run[r] EXCEPT !.left = left]
  <2>1. /\ CenterOK(center') /\ Keeps(center, center') /\ center'.task = center.task
        /\ center'.chances = center.chances - 1
    BY <1>2, <1>7, DrawKeeps
  <2>2. left \in Nat
    BY <1>2, <1>7
  <2>3. Reached("lottery", run[r].todo, run[r].left, center) => Reached("lottery", run[r].todo, left, center')
    BY <1>2, <1>7, <2>1 DEF Reached, Keeps, Tasks!Claimable
  <2>4. Tasks!Becomes(r, t)
    BY <1>7
  <2> HIDE DEF left
  <2>5. /\ t \in RunOf /\ t.at = "lottery" /\ t.left = left /\ t.todo = run[r].todo
        /\ t.clean = run[r].clean /\ t.alone = run[r].alone
    BY <1>1, <1>2, <2>2 DEF RunOf
  <2> HIDE DEF t
  <2>6. Schooling(center') + Share(r, t.at) <= Schooling(center) + Share(r, run[r].at)
    BY <1>1, <2>1, <2>5, LoopFacts DEF Share, Keeps, Schooling
  <2> QED  BY <1>1, <1>2, <1>7, <2>1, <2>3, <2>4, <2>5, <2>6, LoopFacts, LoopMoved
<1> QED  BY <1>2, <1>3, <1>4, <1>5, <1>6, <1>7 DEF Tasks!Lottery

(* The school keeps the loop's invariant: a share and the homework are worth *)
(* one draw each, and the last step spends them.                             *)
LEMMA SchoolKeeps ==
  ASSUME TasksInv, NEW r \in Tasks!Runs, Tasks!School(r)
  PROVE  TasksInv'
<1> USE DEF LoopPlaces, CallPlaces, NightPlaces
<1>0. /\ CenterOK(center) /\ Tasks!Alone(r) /\ Tasks!Unlocks(r)
      /\ night' = night /\ over' = over
  BY LoopFacts DEF Tasks!School, Tasks!Alone
<1>1. CASE run[r].at = "share" /\ Tasks!Goes(r, "done") /\ UNCHANGED <<center, faults>>
  <2> DEFINE t == [run[r] EXCEPT !.at = "done", !.todo = {}, !.left = 0]
  <2>1. /\ t \in RunOf /\ t.at = "done" /\ t.todo = {} /\ t.left = 0
        /\ t.clean = run[r].clean /\ t.alone = run[r].alone
    BY RunGone
  <2>2. Tasks!Becomes(r, t) /\ Tasks!Busy(r)
    BY <1>1 DEF Tasks!Goes, Tasks!Busy
  <2> HIDE DEF t
  <2>3. Reached("share", run[r].todo, run[r].left, center) => Reached("done", {}, 0, center)
    BY DEF Reached
  <2>4. Share(r, "done") <= Share(r, "share")
    BY DEF Share
  <2> QED  BY <1>0, <1>1, <2>1, <2>2, <2>3, <2>4, LoopPassed
<1>2. CASE run[r].at = "share" /\ Tasks!Calls(r, Tasks!SchoolShare(center))
  <2> DEFINE v == Tasks!SchoolShare(center)
  <2>1. CenterOK(v) /\ SchoolOnly(center, v) /\ Schooling(v) = Schooling(center) + 1
    BY <1>0, ShareGrants
  <2>2. Tasks!Calls(r, v)
    BY <1>2
  <2> HIDE DEF v
  <2>3. Reached("share", run[r].todo, run[r].left, center) => Reached("school", {}, 0, v)
    BY <2>1 DEF Reached, SchoolOnly, Enrolled, Tasks!Claimable
  <2>4. Schooling(v) + Share("sched", "school") <= Schooling(center) + Share("sched", "share")
    BY <2>1, LoopFacts DEF Share
  <2> QED  BY <1>0, <1>2, <2>1, <2>2, <2>3, <2>4, ThenLeads, LoopCalled
<1>3. CASE run[r].at = "school" /\ Tasks!Calls(r, Tasks!SchoolClaims(center))
  <2> DEFINE v == Tasks!SchoolClaims(center)
  <2>1. CenterOK(v) /\ SchoolOnly(center, v) /\ Schooling(v) = Schooling(center)
    BY <1>0, HomeworkGrants
  <2>2. Tasks!Calls(r, v)
    BY <1>3
  <2> HIDE DEF v
  <2>3. Reached("school", run[r].todo, run[r].left, center) => Reached("drain", {}, 0, v)
    BY <2>1 DEF Reached, SchoolOnly, Enrolled, Tasks!Claimable
  <2>4. Schooling(v) + Share("sched", "drain") <= Schooling(center) + Share("sched", "school")
    BY <2>1, LoopFacts DEF Share
  <2> QED  BY <1>0, <1>3, <2>1, <2>2, <2>3, <2>4, ThenLeads, LoopCalled
<1>4. CASE run[r].at = "drain" /\ Tasks!Calls(r, Tasks!SchoolDraws(center))
  <2> DEFINE v == Tasks!SchoolDraws(center)
  <2>1. CenterOK(v) /\ SchoolOnly(center, v) /\ v.draws = 0 /\ Schooling(v) <= Schooling(center)
    BY <1>0, DrainSpends
  <2>2. Tasks!Calls(r, v)
    BY <1>4
  <2> HIDE DEF v
  <2>3. Reached("drain", run[r].todo, run[r].left, center) => Reached("done", {}, 0, v)
    BY <2>1 DEF Reached, SchoolOnly, Enrolled, Tasks!Claimable
  <2>4. Schooling(v) + Share("sched", "done") <= Schooling(center) + Share("sched", "drain")
    <3>1. Schooling(v) \in Nat
      BY <2>1 DEF CenterOK, Centers, Schooling
    <3> QED  BY <2>1, <3>1, LoopFacts DEF Share
  <2> QED  BY <1>0, <1>4, <2>1, <2>2, <2>3, <2>4, ThenLeads, LoopCalled
<1> QED  BY <1>1, <1>2, <1>3, <1>4 DEF Tasks!School, Tasks!At

(* Every run begins beside those that its lock and the tick let it.          *)
LEMMA BeginsKeep ==
  ASSUME TasksInv, Tasks!Schedule \/ Tasks!TasksRun \/ Tasks!NightTick
  PROVE  TasksInv'
<1>1. taskLock \in BOOLEAN
  BY DEF TasksInv, LoopTypes
<1>2. CASE Tasks!Schedule
  BY <1>1, <1>2, LoopBegun DEF Tasks!Schedule, Tasks!At, Tasks!Runs
<1>3. CASE Tasks!TasksRun
  BY <1>1, <1>3, LoopBegun DEF Tasks!TasksRun, Tasks!At, Tasks!Runs
<1>4. CASE Tasks!NightTick
  BY <1>1, <1>4, LoopBegun DEF Tasks!NightTick, Tasks!At, Tasks!Runs
<1> QED  BY <1>2, <1>3, <1>4

(* Only the growth center changes, and quietly: the runs lose nothing.       *)
LEMMA WorldKeeps ==
  ASSUME TasksInv, Tasks!Nightfall \/ Tasks!Revoked
  PROVE  TasksInv'
<1>1. /\ CenterOK(center') /\ Quiet(center, center')
      /\ night' \in BOOLEAN /\ faults' \in 0 .. MaxFaults /\ UNCHANGED <<run, taskLock, over>>
  <2>1. CASE Tasks!Nightfall
    BY <2>1, SameQuiet DEF Tasks!Nightfall, TasksInv, LoopTypes, CenterOK
  <2>2. CASE Tasks!Revoked
    <3>1. CenterOK(center') /\ Quiet(center, center')
      BY <2>2, RevokedQuiet, QuietKeepsCenter DEF Tasks!Revoked, TasksInv, CenterOK
    <3>2. night' \in BOOLEAN /\ UNCHANGED <<run, taskLock, over>>
      BY <2>2 DEF Tasks!Revoked, TasksInv, LoopTypes
    <3>3. faults' \in 0 .. MaxFaults
      BY <2>2, WorkbuddyAccountsAssumption DEF Tasks!Revoked, TasksInv, LoopTypes
    <3> QED  BY <3>1, <3>2, <3>3
  <2> QED  BY <2>1, <2>2
<1>2. LoopTypes' /\ LoopLocks'
  BY <1>1 DEF TasksInv, LoopTypes, LoopLocks, Tasks!Busy
<1>3. LoopChats'
  BY <1>1 DEF TasksInv, LoopChats, ChatOpen, Quiet
<1>4. LoopDraws'
  BY <1>1 DEF TasksInv, LoopDraws, Schooling, Quiet, Keeps
<1>5. ASSUME NEW place, NEW todo, NEW left, Reached(place, todo, left, center)
      PROVE  Reached(place, todo, left, center')
  BY <1>1, <1>5 DEF Reached, Quiet, Keeps, Tasks!Claimable
<1>6. LoopSettles'
  BY <1>1, <1>5 DEF TasksInv, LoopSettles, Solo
<1> QED  BY <1>1, <1>2, <1>3, <1>4, <1>6 DEF TasksInv

(* Every step of the daily loop keeps its invariant.                         *)
LEMMA TasksStep ==
  ASSUME TasksInv, Tasks!Next
  PROVE  TasksInv'
<1>1. ASSUME NEW r \in Tasks!Runs, Tasks!Steps(r)
      PROVE  TasksInv'
  BY <1>1, SimpleKeeps, LightKeeps, DeficitKeeps, ChatKeeps, ClaimsKeeps, LotteryKeeps, SchoolKeeps
     DEF Tasks!Steps
<1> QED  BY <1>1, BeginsKeep, WorldKeeps DEF Tasks!Next

(* The loop starts with nothing run and nothing granted.                     *)
LEMMA TasksInit ==
  ASSUME Tasks!Init
  PROVE  TasksInv
<1>1. center \in Centers
  <2>1. center.task \in [Tasks!Codes -> Progresses]
    BY DEF Tasks!Init, Progresses
  <2>2. center = [alive |-> center.alive, active |-> center.active, buddy |-> center.buddy,
                  cards |-> center.cards, missed |-> center.missed, gift |-> center.gift,
                  task |-> center.task, chats |-> center.chats, trip |-> center.trip,
                  tier |-> center.tier, chances |-> center.chances, energy |-> center.energy,
                  term |-> center.term, homework |-> center.homework, draws |-> center.draws]
    BY DEF Tasks!Init
  <2>3. /\ center.alive \in BOOLEAN /\ center.active \in BOOLEAN /\ center.buddy \in BOOLEAN
        /\ center.missed \in BOOLEAN /\ center.gift \in BOOLEAN /\ center.term \in BOOLEAN
    BY DEF Tasks!Init
  <2>4. /\ center.trip \in {"idle", "arrived"} /\ center.tier \in {"locked", "ready"}
        /\ center.homework = "completed"
    BY DEF Tasks!Init
  <2>5. /\ center.cards \in {0, 1} /\ center.energy \in {0, 2} /\ center.chats = 0
        /\ center.chances = 0 /\ center.draws = 0
    BY DEF Tasks!Init
  <2>6. 0 \in 0 .. NightTarget
    BY WorkbuddyAccountsAssumption
  <2> QED  BY <2>1, <2>2, <2>3, <2>4, <2>5, <2>6 DEF Centers
<1>2. /\ center.chances = 0 /\ center.draws = 0 /\ center.homework = "completed" /\ center.chats = 0
      /\ center.energy \in {0, 2} /\ center.task \in [Tasks!Codes -> Progresses]
  BY DEF Tasks!Init, Progresses
<1>3. CenterOK(center)
  BY <1>1, <1>2, WorkbuddyAccountsAssumption DEF CenterOK, Unclaimed, TierLeft
<1>4. /\ run = [r \in Tasks!Runs |-> Tasks!Off] /\ taskLock = FALSE /\ night = FALSE
      /\ over = 0 /\ faults = 0
  BY DEF Tasks!Init
<1>5. /\ Tasks!Off \in RunOf /\ Tasks!Off.at = "off" /\ Tasks!Off.clean /\ Tasks!Off.alone
      /\ Tasks!Off.todo = {} /\ Tasks!Off.left = 0
  BY DEF Tasks!Off, RunOf, LoopPlaces, NightPlaces
<1> HIDE DEF Tasks!Off
<1>6. LoopTypes
  <2>1. 0 \in 0 .. MaxFaults
    BY WorkbuddyAccountsAssumption
  <2>2. run \in [Tasks!Runs -> RunOf] /\ run["night"].at \in NightPlaces
    BY <1>4, <1>5 DEF Tasks!Runs, NightPlaces
  <2> QED  BY <1>4, <2>1, <2>2 DEF LoopTypes
<1>7. LoopLocks /\ LoopChats
  BY <1>4, <1>5 DEF LoopLocks, LoopChats, Tasks!Runs, Tasks!Busy
<1>8. LoopSettles
  BY <1>2, <1>4, <1>5 DEF LoopSettles, Reached, Tasks!Runs, Callers
<1>9. LoopDraws
  BY <1>2, <1>4, <1>5 DEF LoopDraws, Schooling, Share, Tasks!Runs
<1> QED  BY <1>3, <1>6, <1>7, <1>8, <1>9 DEF TasksInv

(* What the invariant says of a run that is done, and of the chats.          *)
LEMMA TasksHold ==
  ASSUME TasksInv
  PROVE  Tasks!TypeOK /\ Tasks!RunSettles /\ Tasks!NoChatWasted
<1>1. Tasks!RunSettles
  <2>1. ASSUME NEW r \in Callers, run[r].at = "done", Solo(r)
        PROVE  /\ \A c \in Tasks!Codes : center.task[c] # "open"
               /\ Tasks!Claimable(center) = {} /\ center.chances = 0 /\ center.draws = 0
    BY <2>1 DEF TasksInv, LoopSettles, Reached, Enrolled
  <2> QED  BY <2>1 DEF Tasks!RunSettles, Tasks!At, Callers, Solo
<1>2. Tasks!NoChatWasted
  BY DEF TasksInv, LoopChats, Tasks!NoChatWasted
<1>3. center.chances \in 0 .. 3 /\ center.energy \in 0 .. 3 /\ center.chats \in 0 .. NightTarget
  BY DEF TasksInv, CenterOK, Centers, Unclaimed, TierLeft
<1>4. center.draws \in 0 .. 3
  BY DEF TasksInv, LoopDraws, Schooling, Share, CenterOK, Centers
<1>5. center.task \in [Tasks!Codes -> Progresses]
  BY DEF TasksInv, CenterOK, Centers
<1>6. \A r \in Tasks!Runs : run[r].todo \subseteq Tasks!Codes /\ run[r].left \in Nat
  BY DEF TasksInv, LoopTypes, RunOf
<1>7. Tasks!TypeOK
  BY <1>3, <1>4, <1>5, <1>6 DEF Tasks!TypeOK, TasksInv, LoopTypes, Progresses
<1> QED  BY <1>1, <1>2, <1>7

-----------------------------------------------------------------------------
(* The lanes together: one moves, the others rest.                           *)

LanesInv == AccountInv /\ GuardInv /\ TasksInv

(* The lanes start as their parts do.                                        *)
LEMMA LanesStart == LanesInit => LanesInv
BY AccountInit, GuardInit, TasksInit DEF LanesInit, LanesInv

(* A lane at rest keeps its invariant, the one that moves keeps its own.     *)
LEMMA LanesStep == LanesInv /\ [LanesNext]_allVars => LanesInv'
<1> SUFFICES ASSUME LanesInv, [LanesNext]_allVars
             PROVE  LanesInv'
  OBVIOUS
<1>1. ASSUME UNCHANGED vars  PROVE AccountInv'
  BY <1>1, AccountStep DEF LanesInv
<1>2. ASSUME UNCHANGED guardVars  PROVE GuardInv'
  BY <1>2, GuardStep DEF LanesInv, guardVars, Guard!vars
<1>3. ASSUME UNCHANGED taskVars  PROVE TasksInv'
  BY <1>3 DEF LanesInv, taskVars, TasksInv, LoopTypes, LoopLocks, LoopChats, LoopSettles, LoopDraws,
              Solo, Tasks!Busy
<1>4. CASE Next /\ InAccount
  BY <1>2, <1>3, <1>4, AccountStep DEF LanesInv, InAccount
<1>5. CASE Guard!Next /\ InGuard
  BY <1>1, <1>3, <1>5, GuardStep DEF LanesInv, InGuard
<1>6. CASE Tasks!Next /\ InTasks
  BY <1>1, <1>2, <1>6, TasksStep DEF LanesInv, InTasks
<1>7. CASE UNCHANGED allVars
  BY <1>1, <1>2, <1>3, <1>7 DEF LanesInv, allVars
<1> QED  BY <1>4, <1>5, <1>6, <1>7 DEF LanesNext

(* The lanes' invariant holds throughout.                                    *)
LEMMA LanesSound == LanesSpec => []LanesInv
BY LanesStart, LanesStep, PTL DEF LanesSpec

(* The check-in lock and the run's place keep what is paid for within what   *)
(* is due: however many tabs ask, the panel sends one claim a day for an     *)
(* account whose status it could read (checkin.go:1-4), and no chat is spent *)
(* on a task that has reached its target unless the tick, which takes no     *)
(* lock, ran beside (task_chat.go:466-468). Every lane keeps its types.      *)
THEOREM NothingPaidTwice == LanesSpec => []PaidOnce
<1>1. LanesInv => PaidOnce
  <2> SUFFICES ASSUME LanesInv  PROVE PaidOnce
    OBVIOUS
  <2>1. TypeOK
    BY DEF LanesInv, AccountInv, SharedTypes, Handlers, Places, TypeOK
  <2>2. Guard!TypeOK /\ TabsClaimOnce
    BY DEF LanesInv, GuardInv, AccountInv, TabsClaimOnce
  <2>3. Tasks!TypeOK /\ Tasks!NoChatWasted
    BY TasksHold DEF LanesInv
  <2> QED  BY <2>1, <2>2, <2>3 DEF PaidOnce, LanesTypeOK
<1> QED  BY <1>1, LanesSound, PTL

(* Whatever stale credits the cache hands out, an account is deleted only if *)
(* it really was empty at some moment since the reconcile began              *)
(* (lifecycle.go:362).                                                       *)
THEOREM DeletedOnlyWhenEmpty == LanesSpec => []DeletesOnlyEmpty
<1>1. LanesInv => DeletesOnlyEmpty
  BY DEF LanesInv, AccountInv, SoundNow, Sound, DeletesOnlyEmpty, At
<1> QED  BY <1>1, LanesSound, PTL

(* A run of the daily loop that no failure and no other run disturbed leaves *)
(* nothing to enrol, to claim or to draw (taskcenter.go:131-166).            *)
THEOREM UndisturbedRunSettles == LanesSpec => []RunSettles
<1>1. LanesInv => RunSettles
  BY TasksHold DEF LanesInv, RunSettles
<1> QED  BY <1>1, LanesSound, PTL

(* While every account is known to be exhausted and the selected one is      *)
(* offered, neither a pick nor the dashboard moves the selection             *)
(* (scheduler.go:176).                                                       *)
THEOREM SelectionNeverFlips == LanesSpec => NeverFlipFlops
<1>1. LanesInv /\ [LanesNext]_allVars =>
        [(\A x \in Guard!Accounts : Guard!Exhausted(x)) /\ active \in Guard!Offered
         => active' = active \/ changes' # changes]_Guard!vars
  <2>1. ASSUME LanesInv, [LanesNext]_allVars  PROVE [Guard!Next]_Guard!vars
    BY <2>1 DEF LanesNext, InAccount, InGuard, InTasks, allVars, guardVars, Guard!vars
  <2> QED  BY <2>1, SelectionStays DEF LanesInv
<1>2. LanesSpec => [][LanesNext]_allVars
  BY PTL DEF LanesSpec
<1>3. LanesSpec => Guard!NeverFlipFlops
  BY <1>1, <1>2, LanesSound, PTL DEF Guard!NeverFlipFlops
<1> QED  BY <1>3 DEF NeverFlipFlops
================================================================================
