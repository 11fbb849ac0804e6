---------------------------- MODULE WorkbuddyGuard ----------------------------
(***************************************************************************)
(* Which workbuddy account serves (plugins/workbuddy: scheduler.go,        *)
(* active_auth.go, guardrails.go): the host's pick with its vetoes and the *)
(* credit guardrails over the cached credits, the selection the panel      *)
(* shows, and the arming of a guardrail that has no credits to judge.      *)
(***************************************************************************)
EXTENDS Integers, Sequences

CONSTANTS Order,      \* the accounts in the host's order, at least one
          Reserves,   \* the values of reserve_credits, 0 when off
          DailyCap,   \* daily_credits_cap, 0 when off
          Full,       \* bound: the credits of a full account
          NoAccount,
          MaxChanges  \* bound of the vetoes, faults, selections and edits

VARIABLES reclaim,   \* scheduler_priority_reclaim
          reserve,   \* reserve_credits
          remain,    \* the credits upstream
          known,     \* the cached credits, -1 when unknown
          age,       \* the cache entry: none, fresh for accountCacheTTL, stale
          dayStart,  \* guardSpend's snapshots, -1 when there is none today
          arming,    \* guardArmLast and the fetch behind it
          cooling,   \* accounts cooling, rate limited or quarantined
          disabled,  \* accounts with the disabled flag
          active,    \* the panel's selection
          changes

vars == <<reclaim, reserve, remain, known, age, dayStart, arming, cooling, disabled, active, changes>>
entries == <<known, age>>
Accounts == {Order[i] : i \in DOMAIN Order}

\* The first of S in the host's order.
FirstOf(S) ==
  Order[CHOOSE i \in DOMAIN Order :
          Order[i] \in S /\ \A j \in DOMAIN Order : Order[j] \in S => i <= j]

Init ==
  /\ reclaim \in BOOLEAN /\ reserve \in Reserves
  /\ remain \in [Accounts -> 0 .. Full]
  /\ known = [a \in Accounts |-> -1] /\ age = [a \in Accounts |-> "none"]
  /\ dayStart = [a \in Accounts |-> -1]
  /\ arming = [a \in Accounts |-> "ready"]
  /\ cooling = {} /\ disabled = {} /\ active = NoAccount /\ changes = 0

Changes == changes < MaxChanges /\ changes' = changes + 1
Exhausted(a) == known[a] = 0
Ready(a) == ~ Exhausted(a) /\ a \notin disabled

\* The day-start snapshot is what the cache says at a day's first judgement;
\* unknown credits and knobs that are off guard nothing.
StartOf(a) == IF dayStart[a] < 0 THEN known[a] ELSE dayStart[a]
BelowReserve(a) == reserve > 0 /\ known[a] <= reserve
Judged(a) == known[a] >= 0 /\ ~ BelowReserve(a) /\ DailyCap > 0
Guarded(a) == /\ known[a] >= 0
              /\ BelowReserve(a) \/ (Judged(a) /\ StartOf(a) - known[a] >= DailyCap)

\* A pick that finds a guardrail without credits starts a fetch, one per window.
TryArm(seen) ==
  arming' = [a \in Accounts |->
    IF a \in seen /\ known[a] < 0 /\ reserve + DailyCap > 0 /\ arming[a] = "ready"
    THEN "fetching" ELSE arming[a]]

\* With every candidate exhausted the pickers keep a selection that is listed.
FirstAnyway(listed) == FirstOf(listed)
KeepOrFirst(listed) == IF active \in listed THEN active ELSE FirstOf(listed)

\* pickActiveAuth is sticky, pickPriorityAuth takes the first that is ready.
Picked(listed) ==
  LET ready == {a \in listed : Ready(a)} IN
  CASE ready = {} -> KeepOrFirst(listed)
    [] ready # {} /\ ~ reclaim /\ active \in ready -> active
    [] OTHER -> FirstOf(ready)

\* Priority reclaim moves the selection only to a candidate that is ready.
Selects(a) == active' = IF reclaim /\ ~ Ready(a) THEN active ELSE a

\* handleSchedulerPick: the vetoes, the guardrails, the picker. What it picks is
\* served unless it is exhausted.
Candidates == Accounts \ (cooling \cup disabled)
Offered == {a \in Candidates : ~ Guarded(a)}
Pick ==
  /\ TryArm(Candidates)
  /\ dayStart' = [a \in Accounts |->
       IF a \in Candidates /\ Judged(a) THEN StartOf(a) ELSE dayStart[a]]
  /\ IF Offered = {} THEN UNCHANGED active ELSE Selects(Picked(Offered))
  /\ UNCHANGED <<reclaim, reserve, remain, entries, cooling, disabled, changes>>

\* ensureDefaultActiveAuth: the dashboard's selection is over the accounts that
\* are not disabled, or all of them when there are no others.
Shown == IF reclaim \/ Accounts \subseteq disabled THEN Accounts ELSE Accounts \ disabled
Dashboard ==
  /\ Selects(IF ~ reclaim /\ Shown \subseteq disabled THEN Order[1] ELSE Picked(Shown))
  /\ UNCHANGED <<reclaim, reserve, remain, entries, dayStart, arming, cooling, disabled, changes>>

\* accountCache.Store: the credits with the time they are stored at.
Stores(a, credits) ==
  /\ known' = [known EXCEPT ![a] = credits]
  /\ age' = [age EXCEPT ![a] = "fresh"]
Arming(a, place) == arming' = [arming EXCEPT ![a] = place]

\* The dashboard, a handler or the check-in tick reads the credits; a read that
\* fails stores what was known as if it were new.
Refreshes(a) ==
  /\ Stores(a, remain[a])
  /\ UNCHANGED <<reclaim, reserve, remain, dayStart, arming, cooling, disabled, active, changes>>
RefreshFails(a) ==
  /\ Changes /\ Stores(a, known[a])
  /\ UNCHANGED <<reclaim, reserve, remain, dayStart, arming, cooling, disabled, active>>

\* guardArmFetch's cachedAccountDetails: an entry younger than the TTL is the
\* answer, with or without credits; else upstream is read and stored.
LooksUp(a) ==
  /\ arming[a] = "fetching"
  /\ Arming(a, IF age[a] = "fresh" THEN "tried" ELSE "reading")
  /\ UNCHANGED <<reclaim, reserve, remain, entries, dayStart, cooling, disabled, active, changes>>
Arms(a) ==
  /\ arming[a] = "reading"
  /\ Stores(a, remain[a]) /\ Arming(a, "tried")
  /\ UNCHANGED <<reclaim, reserve, remain, dayStart, cooling, disabled, active, changes>>
\* The host does not answer; or upstream does not, and what the fetch found before
\* it is stored over what others stored since.
ArmFails(a) ==
  /\ Changes /\ Arming(a, "tried")
  /\ \/ arming[a] = "fetching" /\ UNCHANGED entries
     \/ arming[a] = "reading" /\ \E credits \in {-1, known[a]} : Stores(a, credits)
  /\ UNCHANGED <<reclaim, reserve, remain, dayStart, cooling, disabled, active>>

\* guardArmRetryInterval passes.
NeverTriesAgain(a) == arming[a] = "tried" /\ UNCHANGED vars
WindowPasses(a) ==
  /\ arming[a] = "tried"
  /\ Arming(a, "ready")
  /\ UNCHANGED <<reclaim, reserve, remain, entries, dayStart, cooling, disabled, active, changes>>

\* accountCacheTTL passes and nothing renewed the entry.  (Only without credits does
\* the age tell: with them, a fetch that reads again is a Refreshes before it.)
Ages(a) ==
  /\ known[a] < 0 /\ age[a] = "fresh" /\ age' = [age EXCEPT ![a] = "stale"]
  /\ UNCHANGED <<reclaim, reserve, remain, known, dayStart, arming, cooling, disabled, active, changes>>

\* invalidateAccountCredits after each chat that succeeds: the entry stays, without
\* credits, and counts as read now.
Chats(a) ==
  /\ age[a] # "none"
  /\ Stores(a, -1)
  /\ UNCHANGED <<reclaim, reserve, remain, dayStart, arming, cooling, disabled, active, changes>>

\* The panel selects an account that is not disabled (handleSelectAuth), or the
\* selected one is deleted.
Select(a) ==
  /\ Changes
  /\ \/ active # a /\ a \notin disabled /\ active' = a
     \/ active = a /\ active' = NoAccount
  /\ UNCHANGED <<reclaim, reserve, remain, entries, dayStart, arming, cooling, disabled>>

\* Outside: credits are spent or granted, models cool, flags are edited,
\* the plugin registers again or an entry is deleted, days end.
Spends(a) ==
  /\ Changes /\ remain' = [remain EXCEPT ![a] = IF @ > 0 THEN @ - 1 ELSE Full]
  /\ UNCHANGED <<reclaim, reserve, entries, dayStart, arming, cooling, disabled, active>>
Vetoes(a) ==
  /\ Changes
  /\ \/ cooling' \in {cooling \cup {a}, cooling \ {a}} /\ UNCHANGED disabled
     \/ disabled' \in {disabled \cup {a}, disabled \ {a}} /\ UNCHANGED cooling
  /\ UNCHANGED <<reclaim, reserve, remain, entries, dayStart, arming, active>>
Forgets(a) ==
  /\ Changes /\ age[a] # "none"
  /\ known' = [known EXCEPT ![a] = -1] /\ age' = [age EXCEPT ![a] = "none"]
  /\ UNCHANGED <<reclaim, reserve, remain, dayStart, arming, cooling, disabled, active>>
NewDay ==
  /\ Changes /\ dayStart' = [a \in Accounts |-> -1]
  /\ UNCHANGED <<reclaim, reserve, remain, entries, arming, cooling, disabled, active>>

Plugin == \/ Pick \/ Dashboard
          \/ \E a \in Accounts : \/ Refreshes(a) \/ RefreshFails(a) \/ LooksUp(a) \/ Arms(a) \/ ArmFails(a)
                                 \/ WindowPasses(a) \/ Ages(a) \/ Chats(a)
Outside == NewDay \/ \E a \in Accounts : Select(a) \/ Spends(a) \/ Vetoes(a) \/ Forgets(a)
Next == Plugin \/ Outside
Spec == Init /\ [][Next]_vars

-----------------------------------------------------------------------------
\* The variables have their types.
TypeOK ==
  /\ reclaim \in BOOLEAN /\ reserve \in Reserves
  /\ remain \in [Accounts -> 0 .. Full] /\ known \in [Accounts -> -1 .. Full]
  /\ age \in [Accounts -> {"none", "fresh", "stale"}] /\ dayStart \in [Accounts -> -1 .. Full]
  /\ arming \in [Accounts -> {"ready", "fetching", "reading", "tried"}]
  /\ cooling \subseteq Accounts /\ disabled \subseteq Accounts
  /\ active \in Accounts \cup {NoAccount} /\ changes \in 0 .. MaxChanges

\* "so the panel card never flip-flops between dead accounts" (scheduler.go:176):
\* while every account is known to be exhausted and the selected one is offered,
\* neither a pick nor the dashboard moves the selection.
NeverFlipFlops ==
  [][(\A x \in Accounts : Exhausted(x)) /\ active \in Offered
     => active' = active \/ changes' # changes]_vars

\* "schedules ONE async arm per credential per retry window" (guardrails.go): a
\* guardrail that is configured is not left without credits to judge, whatever
\* was forgotten or failed before, for an account the host offers, unless chats of
\* that account go on: each leaves an entry the next fetch takes for an answer.
GuardArms ==
  reserve + DailyCap > 0 =>
    \A a \in Accounts : \/ []<>(known[a] >= 0 \/ a \in cooling \cup disabled)
                       \/ []<><<Chats(a)>>_vars
=============================================================================
