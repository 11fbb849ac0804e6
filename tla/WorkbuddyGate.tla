---------------------------- MODULE WorkbuddyGate ----------------------------
(***************************************************************************)
(* What stands between a workbuddy chat call and the upstream, and what    *)
(* the call's answer leaves behind for the next one: the 6004 registry     *)
(* (plugins/workbuddy/model_ratelimit.go), the account quarantine          *)
(* (account_restriction.go), the per-(auth, model) holds (cooldown.go) and *)
(* the in-flight slots (admission.go), in the order the three executor     *)
(* paths (main.go, stream.go) consult them.                                *)
(*                                                                         *)
(* Each registry has a mutex of its own, so a call passes the gates one    *)
(* step at a time.  A failure is stamped when it is seen and recorded when *)
(* the lock is taken: two steps.  Every table is a CooldownTable.          *)
(***************************************************************************)
EXTENDS CooldownTable, Sequences

CONSTANTS Auths,          \* auth IDs
          Models,         \* upstream model IDs, already normalised
          NoName,         \* the empty string
          NoPair,
          Callers,        \* concurrent executor calls
          RateLimitTTL,   \* modelCooldownRateLimit
          UnknownTTL,     \* modelCooldownUnknown
          DefaultWindow,  \* modelRateLimitDefaultWindow
          Horizon,        \* 24 h: declared resets and the next UTC+8 midnight
          Ladder,         \* accountRestrictionBackoff
          SweepFrom,      \* modelRateLimitMaxEntries, accountRestrictionMaxEntries
          Caps,           \* values of account_max_concurrent, 0 turns it off
          MaxTime         \* bound of the clock, for TLC only

ASSUME WorkbuddyGateAssumption ==
  /\ NoName \notin Models /\ NoPair \notin Auths \X Models
  /\ IsFiniteSet(Callers)
  /\ RateLimitTTL \in Nat \ {0} /\ UnknownTTL \in Nat \ {0}
  /\ DefaultWindow \in Nat \ {0} /\ Horizon \in Nat \ {0}
  /\ Ladder \in Seq(Nat \ {0}) /\ Ladder # <<>>
  /\ SweepFrom \in Nat /\ Caps \subseteq Nat /\ MaxTime \in Nat

VARIABLES clock,
          limits,       \* wbModelRateLimits
          quarantine,   \* wbAccountRestrictions
          holds,        \* cooldownTable
          inflight,     \* admissionInflight
          cap,          \* accountMaxConcurrent
          call,         \* call[c]: where executor call c is
          strikes       \* history: restrictions since the last healthy answer

tables == <<limits, quarantine, holds>>
slots == <<inflight, cap>>
vars == <<clock, tables, slots, call, strikes>>

Pairs == Auths \X Models

Gates == {"limit", "quarantine", "hold", "cap", "admit"}
Records == {"limited", "restricted", "held", "healthy"}

Call == [pc : {"idle", "upstream", "return"} \cup Gates \cup Records,
         pair : Pairs \cup {NoPair}, slot : BOOLEAN, now : Nat, until : Nat]

AtRest == [pc |-> "idle", pair |-> NoPair, slot |-> FALSE, now |-> 0, until |-> 0]

AuthOf(c) == call[c].pair[1]

At(c, pc) == call[c].pc = pc

Goes(c, pc) == call' = [call EXCEPT ![c].pc = pc]

\* A gate turns the call away before anything was taken.
TurnedAway(c) == call' = [call EXCEPT ![c] = AtRest]

Backoff(n) == IF n < Len(Ladder) THEN Ladder[n] ELSE Ladder[Len(Ladder)]

\* An earlier, larger window stays.
Shortens(t, p, end) == Put(t, p, [until |-> end])
KeepsLonger(t, p, end) ==
  IF p \in DOMAIN t /\ t[p].until > end THEN t ELSE Put(t, p, [until |-> end])

\* The 6004 and the quarantine registry sweep only when they are large.
DroppedIfLarge(t, now) == IF Cardinality(DOMAIN t) >= SweepFrom THEN EmptyTable ELSE t
SweptIfLarge(t, now) == IF Cardinality(DOMAIN t) >= SweepFrom THEN Swept(t, now) ELSE t

-----------------------------------------------------------------------------
Init ==
  /\ clock = 0
  /\ limits = EmptyTable /\ quarantine = EmptyTable /\ holds = EmptyTable
  /\ inflight = [a \in Auths |-> 0] /\ cap \in Caps
  /\ call = [c \in Callers |-> AtRest]
  /\ strikes = [a \in Auths |-> 0]

Arrive(c, p) ==
  /\ At(c, "idle")
  /\ call' = [call EXCEPT ![c] = [AtRest EXCEPT !.pc = "limit", !.pair = p]]
  /\ UNCHANGED <<clock, tables, slots, strikes>>

\* The three fast-fails, each with the lazy expiry of its read.
CheckLimit(c) ==
  /\ At(c, "limit")
  /\ limits' = Read(limits, call[c].pair, clock)
  /\ IF CoolingAt(limits, call[c].pair, clock) THEN TurnedAway(c) ELSE Goes(c, "quarantine")
  /\ UNCHANGED <<clock, quarantine, holds, slots, strikes>>

CheckQuarantine(c) ==
  /\ At(c, "quarantine")
  /\ quarantine' = Read(quarantine, AuthOf(c), clock)
  /\ IF CoolingAt(quarantine, AuthOf(c), clock) THEN TurnedAway(c) ELSE Goes(c, "hold")
  /\ UNCHANGED <<clock, limits, holds, slots, strikes>>

CheckHold(c) ==
  /\ At(c, "hold")
  /\ holds' = Read(holds, call[c].pair, clock)
  /\ IF CoolingAt(holds, call[c].pair, clock) THEN TurnedAway(c) ELSE Goes(c, "cap")
  /\ UNCHANGED <<clock, limits, quarantine, slots, strikes>>

\* accountSlotAcquire reads the cap before it locks and again under the lock.
CheckCap(c) ==
  /\ At(c, "cap")
  /\ Goes(c, IF cap = 0 THEN "upstream" ELSE "admit")
  /\ UNCHANGED <<clock, tables, slots, strikes>>

Admit(c) ==
  /\ At(c, "admit") /\ inflight[AuthOf(c)] < cap
  /\ inflight' = [inflight EXCEPT ![AuthOf(c)] = @ + 1]
  /\ call' = [call EXCEPT ![c].pc = "upstream", ![c].slot = TRUE]
  /\ UNCHANGED <<clock, tables, cap, strikes>>

AdmitBusy(c) ==
  /\ At(c, "admit") /\ inflight[AuthOf(c)] >= cap
  /\ TurnedAway(c)
  /\ UNCHANGED <<clock, tables, slots, strikes>>

\* The upstream's answer is seen and stamped.
Sees(c, record, end) ==
  /\ At(c, "upstream")
  /\ call' = [call EXCEPT ![c].pc = record, ![c].now = clock, ![c].until = end]
  /\ UNCHANGED <<clock, tables, slots, strikes>>

\* 429 with code 6004: the reset it declares, or a default window.
SeesLimit(c) ==
  \E wait \in 1 .. Horizon : Sees(c, "limited", clock + wait)
SeesLimitUndeclared(c) == Sees(c, "limited", clock + DefaultWindow)

\* 403 with code 11140.
SeesRestriction(c) == Sees(c, "restricted", 0)

\* What recordUpstreamFailure tables: a plain 429, a daily allowance used up,
\* an empty stream or an error frame on a 200.
SeesThrottle(c) == Sees(c, "held", clock + RateLimitTTL)
SeesDailyQuota(c) == \E wait \in 1 .. Horizon : Sees(c, "held", clock + wait)
SeesRefusedStream(c) == Sees(c, "held", clock + UnknownTTL)

SeesAnswer(c) == Sees(c, "healthy", 0)

\* Hard credit, transport errors and everything unclassified leave no record.
SeesNothing(c) == Sees(c, "return", 0)

\* modelRateLimitRegistry.note.
RecordLimit(c) ==
  /\ At(c, "limited")
  /\ limits' = KeepsLonger(SweptIfLarge(limits, call[c].now), call[c].pair, call[c].until)
  /\ Goes(c, "return")
  /\ UNCHANGED <<clock, quarantine, holds, slots, strikes>>

\* noteAccountRestriction, whose clock is read before its lock too.
RecordRestriction(c) ==
  /\ At(c, "restricted")
  /\ LET q == SweptIfLarge(quarantine, call[c].now)
         a == AuthOf(c)
         before == IF a \in DOMAIN q THEN q[a] ELSE [until |-> 0, strikes |-> 0]
         end == call[c].now + Backoff(before.strikes + 1)
     IN  quarantine' = Put(q, a, [until |-> IF end > before.until THEN end ELSE before.until,
                                  strikes |-> before.strikes + 1])
  /\ strikes' = [strikes EXCEPT ![AuthOf(c)] = @ + 1]
  /\ Goes(c, "return")
  /\ UNCHANGED <<clock, limits, holds, slots>>

\* The critical section of markModelCooldownUntil: a full table evicts before
\* it looks whether the pair has a longer hold already.
RecordHold(c) ==
  /\ At(c, "held")
  /\ \E t \in MadeRoom(Swept(holds, call[c].now)) :
       holds' = KeepsLonger(t, call[c].pair, call[c].until)
  /\ Goes(c, "return")
  /\ UNCHANGED <<clock, limits, quarantine, slots, strikes>>

\* noteAccountHealthy.
RecordHealthy(c) ==
  /\ At(c, "healthy")
  /\ quarantine' = Without(quarantine, AuthOf(c))
  /\ strikes' = [strikes EXCEPT ![AuthOf(c)] = 0]
  /\ Goes(c, "return")
  /\ UNCHANGED <<clock, limits, holds, slots>>

\* The executor returns, or the pump's goroutine ends: the slot is released
\* if one was taken, whatever the cap is by now.
ReturnByCap(c) ==
  /\ At(c, "return")
  /\ inflight' = IF call[c].slot /\ cap > 0
                 THEN [inflight EXCEPT ![AuthOf(c)] = @ - 1] ELSE inflight
  /\ call' = [call EXCEPT ![c] = AtRest]
  /\ UNCHANGED <<clock, tables, cap, strikes>>
Return(c) ==
  /\ At(c, "return")
  /\ inflight' = IF call[c].slot
                 THEN [inflight EXCEPT ![AuthOf(c)] = @ - 1] ELSE inflight
  /\ call' = [call EXCEPT ![c] = AtRest]
  /\ UNCHANGED <<clock, tables, cap, strikes>>

\* handleSchedulerPick consults the tables in an order of its own and skips a
\* candidate at the first one that holds it back.
PickConsults(p) ==
  LET held == CoolingAt(holds, p, clock)
      limited == held \/ CoolingAt(limits, p, clock)
  IN  /\ holds' = Read(holds, p, clock)
      /\ limits' = IF held THEN limits ELSE Read(limits, p, clock)
      /\ quarantine' = IF limited THEN quarantine ELSE Read(quarantine, p[1], clock)
      /\ UNCHANGED <<clock, slots, call, strikes>>

\* handleCooldownClear, the panel's button: one pair or the whole account.
HandleCooldownClear(a, m) ==
  /\ holds' = ClearedAt(holds, a, m, NoName)
  /\ limits' = ClearedAt(limits, a, m, NoName)
  /\ UNCHANGED <<clock, quarantine, slots, call, strikes>>

\* configure: a new account_max_concurrent.
Configure(n) ==
  /\ cap' = n
  /\ UNCHANGED <<clock, tables, inflight, call, strikes>>

Tick ==
  /\ clock < MaxTime
  /\ clock' = clock + 1
  /\ UNCHANGED <<tables, slots, call, strikes>>

Executor(c) ==
  \/ \E p \in Pairs : Arrive(c, p)
  \/ CheckLimit(c) \/ CheckQuarantine(c) \/ CheckHold(c)
  \/ CheckCap(c) \/ Admit(c) \/ AdmitBusy(c)
  \/ SeesLimit(c) \/ SeesLimitUndeclared(c) \/ SeesRestriction(c)
  \/ SeesThrottle(c) \/ SeesDailyQuota(c) \/ SeesRefusedStream(c)
  \/ SeesAnswer(c) \/ SeesNothing(c)
  \/ RecordLimit(c) \/ RecordRestriction(c) \/ RecordHold(c) \/ RecordHealthy(c)
  \/ Return(c)

Host ==
  \/ \E p \in Pairs : PickConsults(p)
  \/ \E a \in Auths, m \in Models \cup {NoName} : HandleCooldownClear(a, m)
  \/ \E n \in Caps : Configure(n)

Next == (\E c \in Callers : Executor(c)) \/ Host \/ Tick

Spec == Init /\ [][Next]_vars

-----------------------------------------------------------------------------
Window == [until : Nat]
Quarantine == [until : Nat, strikes : Nat \ {0}]

Holders(a) == {c \in Callers : call[c].slot /\ AuthOf(c) = a}

\* The variables have their types.
TypeOK ==
  /\ clock \in Nat /\ cap \in Nat
  /\ DOMAIN limits \subseteq Pairs /\ \A p \in DOMAIN limits : limits[p] \in Window
  /\ DOMAIN holds \subseteq Pairs /\ \A p \in DOMAIN holds : holds[p] \in Window
  /\ DOMAIN quarantine \subseteq Auths /\ \A a \in DOMAIN quarantine : quarantine[a] \in Quarantine
  /\ inflight \in [Auths -> Nat]
  /\ call \in [Callers -> Call]
  /\ \A c \in Callers : call[c].pc # "idle" => call[c].pair \in Pairs
  /\ strikes \in [Auths -> Nat]

\* "Held for the whole upstream call and released on every exit"
\* (main.go:936-944, 1175-1179): an account's counter is the number of calls
\* that hold one of its slots, on every path and however account_max_concurrent
\* changes while calls are in flight; none leaks and none is released twice.
SlotsCounted ==
  \A a \in Auths : inflight[a] = Cardinality(Holders(a))

\* "Never shorten an active window: a second 6004 with a smaller parsed reset
\* must not release the earlier (larger) hold" (model_ratelimit.go:202): a pair
\* that is limited stays so at least as long, unless the panel clears it, in
\* whatever order answers are stamped and recorded.
LimitsNeverShorten ==
  [][ \A p \in DOMAIN limits :
        CoolingAt(limits, p, clock) =>
          \/ p \in DOMAIN limits' /\ limits'[p].until >= limits[p].until
          \/ \E a \in Auths, m \in Models \cup {NoName} :
               HandleCooldownClear(a, m) /\ p[1] = a /\ m \in {p[2], NoName} ]_vars

\* "The window never shortens mid-quarantine" (account_restriction.go:131): only
\* a normal answer of the account ends its quarantine early.
QuarantineNeverShortens ==
  [][ \A a \in DOMAIN quarantine :
        CoolingAt(quarantine, a, clock) =>
          \/ a \in DOMAIN quarantine' /\ quarantine'[a].until >= quarantine[a].until
          \/ \E c \in Callers : RecordHealthy(c) /\ AuthOf(c) = a ]_vars

\* Neither kind of window is ever cut short.
WindowsKept == LimitsNeverShorten /\ QuarantineNeverShortens

\* A live hold loses time only to the panel, or to a full table in which it is
\* the first to expire (cooldown.go:141-153).
HoldsKept ==
  [][ \A p \in DOMAIN holds :
        CoolingAt(holds, p, clock) =>
          \/ p \in DOMAIN holds' /\ holds'[p].until >= holds[p].until
          \/ \E a \in Auths, m \in Models \cup {NoName} :
               HandleCooldownClear(a, m) /\ p[1] = a /\ m \in {p[2], NoName}
          \/ /\ Cardinality(DOMAIN holds) = MaxEntries
             /\ \A q \in DOMAIN holds : /\ CoolingAt(holds, q, clock)
                                        /\ holds[q].until >= holds[p].until ]_vars

\* "The first 11140 quarantines the credential for 1h, repeats back off
\* exponentially" (account_restriction.go:30): as long as the account did not
\* answer normally again, a quarantine counts every restriction before it.
\* The code does not keep this; see the README, section 7.
RepeatsBackOff ==
  \A a \in DOMAIN quarantine : quarantine[a].strikes = strikes[a]
=============================================================================
