----------------------------- MODULE QoderAccount -----------------------------
(***************************************************************************)
(* One qoder account with everything that acts on its credits              *)
(* (plugins/qoder: lifecycle.go, policy.go, cache.go, auth_reject.go,      *)
(* checkin.go, credits_handler.go, panel.go).  Both regions are disabled   *)
(* when exhausted and none deleted; a check-in opens a grace window in     *)
(* which no exhaustion is believed.                                        *)
(***************************************************************************)
EXTENDS Naturals

CONSTANTS Scheduler,  \* the goroutine of runAutoCheckin
          Handlers,   \* concurrent handlers of the account
          Nobody,     \* no holder of the lock or the flight
          MaxEvents   \* bound of faults and of what happens outside

VARIABLES region,  \* cn or intl
          up,      \* upstream: credits, a grant not shown yet, checked in, session revoked
          doc,     \* the disabled flag of the auth document
          cache,   \* accountCache's entry: credits, and checkinAt within the window
          memo,    \* lifecycleState's entry
          grace,   \* a check-in was recorded less than 10 minutes ago
          flight,  \* the goroutine that fetches the account's details
          lock,    \* the holder of the account's check-in lock
          task,    \* the goroutines' handlers
          events

Goroutines == Handlers \cup {Scheduler}
shared == <<cache, memo, grace>>
vars == <<region, up, doc, shared, flight, lock, task, events>>

Credits == {"unknown", "empty", "some"}
NoEntry == [there |-> FALSE, credits |-> "unknown", graced |-> FALSE]
NoMemo == [there |-> FALSE, disabled |-> FALSE, credits |-> "unknown"]
\* What a handler holds: the credits and the flag it read, the entry from before
\* its fetch.
Idle == [kind |-> "none", at |-> "idle", credits |-> "unknown", disabled |-> FALSE,
         prev |-> "unknown"]

Init ==
  /\ region \in {"cn", "intl"}
  /\ up \in [credits : {"some", "empty"}, lag : {FALSE}, checked : {FALSE}, dead : {FALSE}]
  /\ doc = FALSE
  /\ cache = NoEntry /\ memo = NoMemo /\ grace = FALSE
  /\ flight = Nobody /\ lock = Nobody
  /\ task = [g \in Goroutines |-> Idle]
  /\ events = 0

At(g, place) == task[g].at = place
Becomes(g, t) == task' = [task EXCEPT ![g] = t]
Goes(g, place) == Becomes(g, [task[g] EXCEPT !.at = place])
Ends(g) == Becomes(g, Idle)
Fault == events < MaxEvents /\ events' = events + 1
NoFault == UNCHANGED events
Starts(g, kind, place) == Becomes(g, [Idle EXCEPT !.kind = kind, !.at = place])
Reconciles(g) == Starts(g, "life", "reconcile")
Unlocks == lock' = Nobody
Patched(change) == cache' = IF cache.there THEN change ELSE cache

\* fetchUserResource: the grant of a check-in is seen seconds later.
ReadCredits == IF up.lag THEN "empty" ELSE up.credits

-----------------------------------------------------------------------------
(* The handlers begin.                                                      *)

\* processAutoCheckinAccount; the panel's check-in, under the account's lock.
Tick ==
  LET g == Scheduler IN
  /\ At(g, "idle") /\ Starts(g, "tick", "status")
  /\ UNCHANGED <<region, up, doc, shared, flight, lock, events>>
HandBegins(g) ==
  /\ At(g, "idle") /\ Fault /\ lock = Nobody /\ lock' = g
  /\ Starts(g, "hand", "status")
  /\ UNCHANGED <<region, up, doc, shared, flight>>

\* reconcileAfterExecutorError and reconcileByUID: a hard credit error only.
ErrorBegins(g) ==
  /\ At(g, "idle") /\ up.credits = "empty" /\ Reconciles(g)
  /\ UNCHANGED <<region, up, doc, shared, flight, lock, events>>

\* buildDashboardEx and handleCreditsQuery; the latter stores a direct read, in
\* an entry of its own.
Looks(g, force) ==
  /\ At(g, "idle") /\ Fault
  /\ Starts(g, IF force THEN "force" ELSE "look", "fetch")
  /\ UNCHANGED <<region, up, doc, shared, flight, lock>>
Queries(g) ==
  /\ At(g, "idle") /\ Fault /\ ~ up.dead
  /\ cache' = [NoEntry EXCEPT !.there = TRUE, !.credits = ReadCredits]
  /\ Becomes(g, [Idle EXCEPT !.kind = "look", !.at = "note", !.credits = ReadCredits])
  /\ UNCHANGED <<region, up, doc, memo, grace, flight, lock>>

-----------------------------------------------------------------------------
(* The check-in.                                                            *)

\* fetchCheckinStatus: a failed one ends the panel's and skips the tick's.
StatusRead(g) ==
  /\ At(g, "status") /\ ~ up.dead
  /\ IF up.checked
     THEN IF task[g].kind = "tick" THEN Goes(g, "store") /\ UNCHANGED lock ELSE Ends(g) /\ Unlocks
     ELSE Goes(g, "claim") /\ UNCHANGED lock
  /\ UNCHANGED <<region, up, doc, shared, flight, events>>
StatusFails(g) ==
  /\ At(g, "status")
  /\ IF up.dead THEN NoFault ELSE Fault
  /\ IF task[g].kind = "tick" THEN Reconciles(g) /\ UNCHANGED lock ELSE Ends(g) /\ Unlocks
  /\ UNCHANGED <<region, up, doc, shared, flight>>

\* performCheckinCall, the campaign's pass: granted, already, nothing, or failed.
\* Whatever was answered without an error the tick takes for a check-in.
Granted == [up EXCEPT !.checked = TRUE, !.credits = "some"]
Claim(g) ==
  /\ At(g, "claim")
  /\ \/ /\ NoFault /\ ~ up.dead
        /\ IF up.checked THEN UNCHANGED up ELSE \E late \in BOOLEAN : up' = [Granted EXCEPT !.lag = late]
        /\ Goes(g, "remember") /\ UNCHANGED lock
     \/ /\ Fault /\ UNCHANGED up
        /\ IF task[g].kind = "tick" THEN Goes(g, "remember") /\ UNCHANGED lock ELSE Ends(g) /\ Unlocks
     \/ /\ (IF up.dead THEN NoFault ELSE Fault) /\ UNCHANGED up
        /\ IF task[g].kind = "tick" THEN Goes(g, "store") /\ UNCHANGED lock ELSE Ends(g) /\ Unlocks
  /\ UNCHANGED <<region, doc, shared, flight>>

\* rememberCheckinMoment opens the grace window.
Remember(g) ==
  /\ At(g, "remember")
  /\ cache' = [cache EXCEPT !.there = TRUE, !.graced = TRUE]
  /\ grace' = TRUE
  /\ IF task[g].kind = "tick" THEN Goes(g, "refresh") /\ UNCHANGED lock ELSE Ends(g) /\ Unlocks
  /\ UNCHANGED <<region, up, doc, memo, flight, events>>

\* The tick refreshes the cached credits, then rebuilds the entry from its
\* status, the credits and the plan.
Refresh(g) ==
  /\ At(g, "refresh") /\ Goes(g, "store")
  /\ \/ NoFault /\ ~ up.dead /\ Patched([cache EXCEPT !.credits = ReadCredits])
     \/ (IF up.dead THEN NoFault ELSE Fault) /\ UNCHANGED cache
  /\ UNCHANGED <<region, up, doc, memo, grace, flight, lock>>
Store(g) ==
  /\ At(g, "store") /\ Reconciles(g)
  /\ cache' = [NoEntry EXCEPT !.there = TRUE, !.credits = cache.credits]
  /\ UNCHANGED <<region, up, doc, memo, grace, flight, lock, events>>

-----------------------------------------------------------------------------
(* The account's details.                                                   *)

\* reconcileOneAccount: the document is read once.
Reconcile(g) ==
  /\ At(g, "reconcile")
  /\ Becomes(g, [task[g] EXCEPT !.disabled = doc, !.at = "fetch"])
  /\ UNCHANGED <<region, up, doc, shared, flight, lock, events>>

\* cachedAccountDetails: one fetches, the others wait; a look finds fresh credits
\* in the cache.
Fetch(g) ==
  /\ At(g, "fetch")
  /\ \/ /\ task[g].kind = "look" /\ cache.there
        /\ Becomes(g, [task[g] EXCEPT !.at = "note", !.credits = cache.credits]) /\ UNCHANGED flight
     \/ /\ flight = Nobody /\ flight' = g
        /\ Becomes(g, [task[g] EXCEPT !.prev = cache.credits, !.at = "fetching"])
     \/ flight # Nobody /\ Goes(g, "wait") /\ UNCHANGED flight
  /\ UNCHANGED <<region, up, doc, shared, lock, events>>

\* A failed read keeps the value from before the fetch; a rejected credential
\* keeps nothing; the entry is a new one.
Stored(g, ok) ==
  [NoEntry EXCEPT !.there = TRUE,
                  !.credits = IF ok THEN ReadCredits ELSE IF up.dead THEN "unknown" ELSE task[g].prev]
Fetched(g) ==
  /\ At(g, "fetching")
  /\ \E ok \in BOOLEAN :
       /\ ok => ~ up.dead
       /\ IF ok \/ up.dead THEN NoFault ELSE Fault
       /\ cache' = Stored(g, ok)
       /\ task' = [h \in Goroutines |->
            IF h = g \/ At(h, "wait")
            THEN [task[h] EXCEPT !.at = IF task[h].kind = "life" THEN "decide" ELSE "note",
                                 !.credits = Stored(g, ok).credits, !.prev = "unknown"]
            ELSE task[h]]
  /\ flight' = Nobody
  /\ UNCHANGED <<region, up, doc, memo, grace, lock>>

-----------------------------------------------------------------------------
(* The lifecycle.                                                           *)

\* Only a CN account is enabled again; an exhausted one is disabled unless the
\* cache remembers a check-in.
Decide(g) ==
  LET t == task[g] IN
  /\ At(g, "decide")
  /\ IF t.credits = "unknown" \/ (t.credits = "empty" /\ cache.graced /\ ~ (region = "cn" /\ t.disabled))
     THEN Ends(g)
     ELSE Goes(g, IF region = "cn" /\ t.disabled
                  THEN IF t.credits = "some" THEN "reenable" ELSE "note"
                  ELSE IF t.credits = "empty" THEN "disable" ELSE "note")
  /\ UNCHANGED <<region, up, doc, shared, flight, lock, events>>

\* lifecycleStateUnchanged: written less than 30 s ago.
Unchanged(d, c) == memo.there /\ memo.disabled = d /\ memo.credits = c

\* A save of the document with flag d, unless the memo says it is written or the
\* save fails; under the lock.
Saves(g, d) ==
  /\ lock = Nobody
  /\ \/ UNCHANGED <<doc, memo>> /\ (IF Unchanged(d, task[g].credits) THEN NoFault ELSE Fault)
     \/ /\ ~ Unchanged(d, task[g].credits) /\ NoFault
        /\ doc' = d
        /\ memo' = [there |-> TRUE, disabled |-> d, credits |-> task[g].credits]

\* disableAuth and reenableAuth drop the cache entry with it.
SetsFlag(g) ==
  /\ At(g, "disable") \/ At(g, "reenable")
  /\ Saves(g, At(g, "disable")) /\ Ends(g)
  /\ cache' = IF UNCHANGED doc /\ UNCHANGED memo THEN cache ELSE NoEntry
  /\ UNCHANGED <<region, up, grace, flight, lock>>

\* syncAuthNote keeps the flag the document has now; a forced look reconciles.
SyncsNote(g) ==
  /\ At(g, "note")
  /\ Saves(g, doc)
  /\ IF task[g].kind = "force" THEN Reconciles(g) ELSE Ends(g)
  /\ UNCHANGED <<region, up, cache, grace, flight, lock>>

\* handleImportPAT and a completed login: a new session, the account enabled.
Imports ==
  /\ Fault
  /\ up' = [up EXCEPT !.dead = FALSE]
  /\ doc' = FALSE
  /\ UNCHANGED <<region, shared, flight, lock, task>>

-----------------------------------------------------------------------------
(* Outside.                                                                 *)

\* A chat spends the last credits; after one that succeeds the plugin forgets
\* the credits it knew (invalidateAccountCredits).
Spends ==
  /\ Fault /\ up.credits = "some" /\ ~ up.dead
  /\ up' = [up EXCEPT !.credits = "empty", !.lag = FALSE]
  /\ UNCHANGED cache \/ Patched([cache EXCEPT !.credits = "unknown"])
  /\ UNCHANGED <<region, doc, memo, grace, flight, lock, task>>
Shown ==
  /\ up.lag /\ up' = [up EXCEPT !.lag = FALSE]
  /\ UNCHANGED <<region, doc, shared, flight, lock, task, events>>
Revoked ==
  /\ Fault /\ ~ up.dead /\ up' = [up EXCEPT !.dead = TRUE]
  /\ UNCHANGED <<region, doc, shared, flight, lock, task>>
NewDay ==
  /\ Fault /\ up.checked /\ up' = [up EXCEPT !.checked = FALSE]
  /\ UNCHANGED <<region, doc, shared, flight, lock, task>>
\* The operator flips the flag in the host's files.
Edits ==
  /\ Fault /\ doc' = ~ doc
  /\ UNCHANGED <<region, up, shared, flight, lock, task>>

\* 30 s, or the grace window, pass; the dashboard prunes entries of 180 s.
MemoStays == memo.there /\ UNCHANGED vars
MemoExpires ==
  /\ memo.there /\ memo' = NoMemo
  /\ UNCHANGED <<region, up, doc, cache, grace, flight, lock, task, events>>
GracePasses ==
  /\ grace /\ grace' = FALSE
  /\ cache' = [cache EXCEPT !.graced = FALSE]
  /\ UNCHANGED <<region, up, doc, memo, flight, lock, task, events>>
Prunes ==
  /\ cache.there /\ cache' = NoEntry
  /\ UNCHANGED <<region, up, doc, memo, grace, flight, lock, task, events>>

Checkin(g) == StatusRead(g) \/ StatusFails(g) \/ Claim(g) \/ Remember(g) \/ Refresh(g) \/ Store(g)
Details(g) == Reconcile(g) \/ Fetch(g) \/ Fetched(g)
Works(g) == Checkin(g) \/ Details(g) \/ Decide(g) \/ SetsFlag(g) \/ SyncsNote(g)
Begins(g) == \/ HandBegins(g) \/ ErrorBegins(g) \/ \E f \in BOOLEAN : Looks(g, f)
             \/ Queries(g)
Passes == Shown \/ MemoExpires \/ GracePasses
Next == \/ Tick \/ \E g \in Handlers : Begins(g)
        \/ \E g \in Goroutines : Works(g)
        \/ Imports \/ Spends \/ Revoked \/ NewDay \/ Edits \/ Prunes \/ Passes

Spec == Init /\ [][Next]_vars

-----------------------------------------------------------------------------
\* The variables have their types.
TypeOK ==
  /\ region \in {"cn", "intl"} /\ grace \in BOOLEAN
  /\ up \in [credits : {"empty", "some"}, lag : BOOLEAN, checked : BOOLEAN, dead : BOOLEAN]
  /\ doc \in BOOLEAN
  /\ cache \in [there : BOOLEAN, credits : Credits, graced : BOOLEAN]
  /\ memo \in [there : BOOLEAN, disabled : BOOLEAN, credits : Credits]
  /\ flight \in Goroutines \cup {Nobody} /\ lock \in Goroutines \cup {Nobody}
  /\ events \in 0 .. MaxEvents

\* Once nothing happens outside any more, a CN account whose session lives ends
\* up disabled exactly if it has no credits, whatever was memoised, failed,
\* lagged or was edited before.
FlagFollowsCredits ==
  <>[](region = "cn" /\ ~ up.dead => (doc <=> up.credits = "empty"))

\* Within the 10 minutes after a recorded check-in the lifecycle never decides to
\* disable (checkin.go:602-606, cache.go:19-22).
\* The code does not keep this; see the README, section 7.
GraceHolds == [][\A g \in Goroutines : ~ At(g, "disable") /\ At(g, "disable")' => ~ grace]_vars
=============================================================================
