--------------------------- MODULE WorkbuddyAccount ---------------------------
(***************************************************************************)
(* One workbuddy account with everything that acts on its credits          *)
(* (plugins/workbuddy: lifecycle.go, policy.go, checkin.go, cache.go,      *)
(* credits_handler.go): the scheduled tick, the manual check-in, the       *)
(* panel's queries and the reconcile after an executor error, over the     *)
(* account cache with its single flight, the check-in lock and the 30 s    *)
(* memo of what the lifecycle wrote last.                                  *)
(***************************************************************************)
EXTENDS Naturals

CONSTANTS Goroutines, \* concurrent handlers of the account
          Nobody,     \* no holder of the lock or the flight
          MaxEvents   \* bound of what happens outside: spends, grants, edits, faults

VARIABLES region,  \* cn or global
          up,      \* upstream: credits left, and checked in today
          doc,     \* the auth document: there, and its disabled flag
          cache,   \* accountCache's entry
          memo,    \* lifecycleState's entry
          flight,  \* the goroutine that fetches the account's details
          lock,    \* the holder of the account's check-in lock
          task,    \* the goroutines' handlers
          claims,  \* check-ins accepted today from the panel after a good probe
          events   \* what happened outside so far

shared == <<cache, memo>>
vars == <<region, up, doc, shared, flight, lock, task, claims, events>>

\* creditsSummary, as isCreditsExhausted and TotalRemain tell it apart.
Credits == {"unknown", "empty", "some"}

NoEntry == [there |-> FALSE, credits |-> "unknown"]
NoMemo == [there |-> FALSE, disabled |-> FALSE, credits |-> "unknown"]
\* What a handler holds: a status that read "not checked in", the credits and
\* the flag its reconcile began with, the entry from before its fetch; emptied is
\* the model's: the account has had no credits since the reconcile began.
Idle == [kind |-> "none", at |-> "idle", credits |-> "unknown", unchecked |-> FALSE,
         disabled |-> FALSE, prev |-> "unknown", emptied |-> FALSE]

Init ==
  /\ region \in {"cn", "global"}
  /\ up \in [credits : {"some", "empty"}, checked : {FALSE}]
  /\ region = "cn" => up.credits = "some"  \* bound
  /\ doc = [there |-> TRUE, disabled |-> FALSE]
  /\ cache = NoEntry /\ memo = NoMemo
  /\ flight = Nobody /\ lock = Nobody
  /\ task = [g \in Goroutines |-> Idle]
  /\ claims = 0 /\ events = 0

At(g, place) == task[g].at = place
Becomes(g, t) == task' = [task EXCEPT ![g] = t]
Goes(g, place) == Becomes(g, [task[g] EXCEPT !.at = place])
Ends(g) == Becomes(g, Idle)
Fault == events < MaxEvents /\ events' = events + 1
NoFault == UNCHANGED events

\* fetchUserResource, as far as its summary is empty or not.
ReadCredits == up.credits

\* The entry is copied and changed, or not touched when there is none.
Patched(change) == cache' = IF cache.there THEN change ELSE cache
Invalidated == [cache EXCEPT !.credits = "unknown"]
Reconciles(g) == Becomes(g, [Idle EXCEPT !.kind = "life", !.at = "reconcile"])

-----------------------------------------------------------------------------
(* The handlers begin.                                                      *)

\* runAutoCheckin's goroutine for the account; Global accounts go straight to
\* the lifecycle, with their credits forgotten.
Tick(g) ==
  /\ At(g, "idle") /\ doc.there
  /\ IF region = "cn"
     THEN /\ Becomes(g, [Idle EXCEPT !.kind = "tick", !.at = "status"])
          /\ UNCHANGED cache
     ELSE Reconciles(g) /\ Patched(Invalidated)
  /\ UNCHANGED <<region, up, doc, memo, flight, lock, claims, events>>

\* checkinOneAccount from the panel: CN only, under the account's lock.
HandBegins(g) ==
  /\ At(g, "idle") /\ doc.there /\ region = "cn" /\ lock = Nobody
  /\ lock' = g
  /\ Becomes(g, [Idle EXCEPT !.kind = "hand", !.at = "status"])
  /\ UNCHANGED <<region, up, doc, shared, flight, claims, events>>

\* reconcileAfterExecutorError and reconcileByUID on a hard credit error; the
\* panel's trial claim, which forgets the credits first.
ErrorBegins(g) ==
  /\ At(g, "idle") /\ doc.there /\ up.credits = "empty"
  /\ Reconciles(g)
  /\ UNCHANGED <<region, up, doc, shared, flight, lock, claims, events>>

ClaimsTrial(g) ==
  /\ At(g, "idle") /\ doc.there /\ region = "global"
  /\ \/ up' = [up EXCEPT !.credits = "some"] /\ Fault
     \/ UNCHANGED up /\ NoFault
  /\ Patched(Invalidated)
  /\ Reconciles(g)
  /\ UNCHANGED <<region, doc, memo, flight, lock, claims>>

\* handleCreditsQuery of one account: a direct fetch, stored, then the note.
Queries(g) ==
  /\ At(g, "idle") /\ doc.there
  /\ cache' = [there |-> TRUE, credits |-> ReadCredits]
  /\ Becomes(g, [Idle EXCEPT !.kind = "life", !.at = "note", !.credits = ReadCredits])
  /\ UNCHANGED <<region, up, doc, memo, flight, lock, claims, events>>

\* The dashboard's and the guardrail's use of the cache: nothing if it is
\* fresh, else a fetch that decides nothing.
Looks(g) ==
  /\ At(g, "idle") /\ doc.there
  /\ Becomes(g, [Idle EXCEPT !.kind = "look", !.at = "fetch"])
  /\ UNCHANGED <<region, up, doc, shared, flight, lock, claims, events>>

-----------------------------------------------------------------------------
(* The check-in.                                                            *)

\* mergeCheckinCache: what was known of the credits is kept.
Merged == cache' = [cache EXCEPT !.there = TRUE]
Unlocks == lock' = Nobody

\* fetchCheckinStatus answers: whoever is checked in already is done.
StatusRead(g) ==
  /\ At(g, "status")
  /\ IF ~ up.checked
     THEN /\ Becomes(g, [task[g] EXCEPT !.unchecked = TRUE, !.at = "claim"])
          /\ UNCHANGED <<cache, lock>>
     ELSE IF task[g].kind = "tick"
     THEN Goes(g, "store") /\ UNCHANGED <<cache, lock>>
     ELSE Merged /\ Unlocks /\ Ends(g)
  /\ UNCHANGED <<region, up, doc, memo, flight, claims, events>>

\* It fails: the tick skips its check-in, the panel's goes on, or the account
\* has no check-in plan and both stop.
StatusFails(g) ==
  /\ At(g, "status") /\ Fault
  /\ \/ /\ IF task[g].kind = "tick" THEN Reconciles(g) ELSE Goes(g, "claim")
        /\ UNCHANGED <<cache, lock>>
     \/ IF task[g].kind = "tick" THEN Goes(g, "store") /\ UNCHANGED <<cache, lock>>
        ELSE Merged /\ Unlocks /\ Ends(g)
  /\ UNCHANGED <<region, up, doc, memo, flight, claims>>

\* performCheckinCall: accepted once a day, with credits; "already" after.
Claim(g) ==
  /\ At(g, "claim")
  /\ up' = IF up.checked THEN up ELSE [credits |-> "some", checked |-> TRUE]
  /\ claims' = IF task[g].kind = "hand" /\ task[g].unchecked THEN claims + 1 ELSE claims
  /\ Goes(g, IF task[g].kind = "tick" /\ up.checked THEN "store" ELSE "refresh")
  /\ UNCHANGED <<region, doc, shared, flight, lock, events>>

ClaimFails(g) ==
  /\ At(g, "claim") /\ Fault
  /\ IF task[g].kind = "tick" THEN Goes(g, "store") /\ UNCHANGED lock
     ELSE Ends(g) /\ Unlocks
  /\ UNCHANGED <<region, up, doc, shared, flight, claims>>

\* After a claim: the status once more, or what it must be now; the tick also
\* refreshes the cached credits.
Refresh(g) ==
  /\ At(g, "refresh")
  /\ IF task[g].kind = "tick"
     THEN /\ Patched([cache EXCEPT !.credits = ReadCredits])
          /\ Goes(g, "store") /\ UNCHANGED lock
     ELSE Merged /\ Unlocks /\ Ends(g)
  /\ UNCHANGED <<region, up, doc, memo, flight, claims, events>>

\* The tick stores its status; with a guardrail configured an entry without
\* credits gets them.
Store(g, guarded) ==
  /\ At(g, "store")
  /\ cache' = [there |-> TRUE,
               credits |-> IF guarded /\ cache.credits = "unknown" THEN ReadCredits ELSE cache.credits]
  /\ Reconciles(g)
  /\ UNCHANGED <<region, up, doc, memo, flight, lock, claims, events>>

-----------------------------------------------------------------------------
(* The account's details.                                                   *)

\* reconcileOneAccount: the document is read once, then the credits.
Reconcile(g) ==
  /\ At(g, "reconcile")
  /\ IF doc.there
     THEN Becomes(g, [task[g] EXCEPT !.disabled = doc.disabled, !.at = "fetch",
                                    !.emptied = (region = "global" /\ up.credits = "empty")])
     ELSE Ends(g)
  /\ UNCHANGED <<region, up, doc, shared, flight, lock, claims, events>>

\* cachedAccountDetails: one goroutine fetches, the others wait for it.
Fetch(g) ==
  /\ At(g, "fetch")
  /\ IF flight = Nobody
     THEN /\ flight' = g
          /\ Becomes(g, [task[g] EXCEPT !.prev = cache.credits, !.at = "fetching"])
     ELSE Goes(g, "wait") /\ UNCHANGED flight
  /\ UNCHANGED <<region, up, doc, shared, lock, claims, events>>

\* What failed keeps the value from before the fetch; waiters read the cache.
Stored(g, ok) == [there |-> TRUE, credits |-> IF ok THEN ReadCredits ELSE task[g].prev]
Fetched(g) ==
  /\ At(g, "fetching")
  /\ \E ok \in BOOLEAN :
       /\ IF ok THEN NoFault ELSE Fault
       /\ cache' = Stored(g, ok)
       /\ task' = [h \in Goroutines |->
            IF h = g \/ At(h, "wait")
            THEN IF task[h].kind = "look" THEN Idle
                 ELSE [task[h] EXCEPT !.at = "decide", !.credits = Stored(g, ok).credits, !.prev = "unknown"]
            ELSE task[h]]
  /\ flight' = Nobody
  /\ UNCHANGED <<region, up, doc, memo, lock, claims>>

-----------------------------------------------------------------------------
(* The lifecycle.                                                           *)

\* The decision over the credits and the flag the reconcile began with.
Decide(g) ==
  LET t == task[g] IN
  /\ At(g, "decide")
  /\ IF t.credits = "unknown" THEN Ends(g)
     ELSE Becomes(g, [t EXCEPT !.disabled = FALSE, !.at =
            CASE region = "cn" /\ t.disabled /\ t.credits = "some" -> "reenable"
              [] region = "cn" /\ ~ t.disabled /\ t.credits = "empty" -> "disable"
              [] region = "global" /\ t.credits = "empty" -> "confirm"
              [] OTHER -> "note"])
  /\ UNCHANGED <<region, up, doc, shared, flight, lock, claims, events>>

\* A Global account is deleted only if a second, direct read says empty too.
ConfirmsBlindly(g) ==
  /\ At(g, "confirm")
  /\ Goes(g, "delete")
  /\ UNCHANGED <<region, up, doc, shared, flight, lock, claims, events>>
Confirm(g) ==
  /\ At(g, "confirm")
  /\ \/ NoFault /\ IF ReadCredits = "empty" THEN Goes(g, "delete") ELSE Ends(g)
     \/ Fault /\ Ends(g)
  /\ UNCHANGED <<region, up, doc, shared, flight, lock, claims>>

\* lifecycleStateUnchanged: written less than 30 s ago.
Unchanged(d, c) == memo.there /\ memo.disabled = d /\ memo.credits = c

\* A save of the document with flag d, unless the memo says it is written or
\* the save fails; it is done under the lock.
Saves(g, d) ==
  /\ lock = Nobody
  /\ \/ UNCHANGED <<doc, memo>> /\ (IF Unchanged(d, task[g].credits) THEN NoFault ELSE Fault)
     \/ /\ ~ Unchanged(d, task[g].credits) /\ NoFault
        /\ doc' = [there |-> TRUE, disabled |-> d]
        /\ memo' = [there |-> TRUE, disabled |-> d, credits |-> task[g].credits]
  /\ Ends(g)

\* disableAuth and reenableAuth drop the cache entry with it.
SetsFlag(g) ==
  /\ At(g, "disable") \/ At(g, "reenable")
  /\ Saves(g, At(g, "disable"))
  /\ cache' = IF UNCHANGED doc /\ UNCHANGED memo THEN cache ELSE NoEntry
  /\ UNCHANGED <<region, up, flight, lock, claims>>

\* syncAuthNote writes the note under the flag the document has now.
SyncsNote(g) ==
  /\ At(g, "note")
  /\ IF doc.there THEN Saves(g, doc.disabled)
     ELSE Ends(g) /\ UNCHANGED <<doc, memo, events>>
  /\ UNCHANGED <<region, up, cache, flight, lock, claims>>

\* deleteAuth: the file, the memo and the cache entry go.
Delete(g) ==
  /\ At(g, "delete") /\ lock = Nobody
  /\ doc' = [doc EXCEPT !.there = FALSE]
  /\ memo' = NoMemo /\ cache' = NoEntry
  /\ Ends(g)
  /\ UNCHANGED <<region, up, flight, lock, claims, events>>

-----------------------------------------------------------------------------
(* Outside: the account's use, its owner, the operator, time.               *)

\* A chat or another client spends the last credits, or a package is bought;
\* a chat's success makes the plugin forget the credits it knew.
Spends ==
  /\ Fault /\ up.credits = "some"
  /\ up' = [up EXCEPT !.credits = "empty"]
  /\ task' = [g \in Goroutines |-> [task[g] EXCEPT !.emptied = region = "global" /\ task[g].kind = "life"]]
  /\ \/ UNCHANGED cache
     \/ Patched(Invalidated)
  /\ UNCHANGED <<region, doc, memo, flight, lock, claims>>

Buys ==
  /\ Fault /\ up.credits = "empty"
  /\ up' = [up EXCEPT !.credits = "some"]
  /\ UNCHANGED <<region, doc, shared, flight, lock, task, claims>>

\* The operator flips the flag, or logs a deleted account in again.
Edits ==
  /\ Fault
  /\ doc' = IF doc.there THEN [doc EXCEPT !.disabled = ~ doc.disabled]
            ELSE [there |-> TRUE, disabled |-> FALSE]
  /\ UNCHANGED <<region, up, shared, flight, lock, task, claims>>

NewDay ==
  /\ Fault /\ up.checked
  /\ up' = [up EXCEPT !.checked = FALSE]
  /\ claims' = 0
  /\ task' = [g \in Goroutines |-> [task[g] EXCEPT !.unchecked = FALSE]]
  /\ UNCHANGED <<region, doc, shared, flight, lock>>

\* 30 s pass; the dashboard prunes entries not refreshed for 180 s.
MemoExpires ==
  /\ memo.there
  /\ memo' = NoMemo
  /\ UNCHANGED <<region, up, doc, cache, flight, lock, task, claims, events>>

Prunes ==
  /\ cache.there
  /\ cache' = NoEntry
  /\ UNCHANGED <<region, up, doc, memo, flight, lock, task, claims, events>>

Checkin(g) == \/ StatusRead(g) \/ StatusFails(g) \/ Claim(g) \/ ClaimFails(g)
              \/ Refresh(g) \/ \E b \in BOOLEAN : Store(g, b)
Details(g) == Reconcile(g) \/ Fetch(g) \/ Fetched(g)
Lifecycle(g) == Decide(g) \/ Confirm(g) \/ SetsFlag(g) \/ SyncsNote(g) \/ Delete(g)
Works(g) == Checkin(g) \/ Details(g) \/ Lifecycle(g)
Begins(g) == HandBegins(g) \/ ErrorBegins(g) \/ ClaimsTrial(g) \/ Queries(g) \/ Looks(g)
Outside == Spends \/ Buys \/ Edits \/ NewDay \/ Prunes

Next == \/ \E g \in Goroutines : Tick(g) \/ Begins(g) \/ Works(g)
        \/ Outside \/ MemoExpires

Spec == Init /\ [][Next]_vars

-----------------------------------------------------------------------------
\* The variables have their types.
TypeOK ==
  /\ region \in {"cn", "global"}
  /\ up \in [credits : {"empty", "some"}, checked : BOOLEAN]
  /\ doc \in [there : BOOLEAN, disabled : BOOLEAN]
  /\ cache \in [there : BOOLEAN, credits : Credits]
  /\ memo \in [there : BOOLEAN, disabled : BOOLEAN, credits : Credits]
  /\ flight \in Goroutines \cup {Nobody} /\ lock \in Goroutines \cup {Nobody}
  /\ \A g \in Goroutines : task[g].at \in {"idle", "status", "claim", "refresh", "store",
       "reconcile", "fetch", "fetching", "wait", "decide", "confirm", "disable", "reenable",
       "delete", "note"}
  /\ claims \in Nat /\ events \in 0 .. MaxEvents

\* "The per-account mutex that prevents duplicate check-ins from racing browser
\* tabs" (checkin.go:1-4): however many tabs ask, the panel sends one claim a day
\* for an account whose status it could read.
TabsClaimOnce == claims <= 1

\* "Confirm before deleting a Global account" (lifecycle.go:362): whatever stale
\* credits the cache hands out, an account is deleted only if it really was
\* empty at some moment since the reconcile began.
DeletesOnlyEmpty == \A g \in Goroutines : At(g, "delete") => task[g].emptied

\* Once nothing happens outside any more, a CN account ends up disabled exactly
\* if it has no credits, whatever failed, was memoised or was edited before.
FlagFollowsCredits ==
  <>[](region = "cn" => (doc.disabled <=> up.credits = "empty"))
=============================================================================
