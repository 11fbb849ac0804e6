---------------------------- MODULE CooldownsProofs ----------------------------
(***************************************************************************)
(* The throttling of workbuddy and zcode, for every set of accounts,       *)
(* models and goroutines, every cap, window and table size: in-flight      *)
(* counters are exact, windows and quarantines never end early, tables     *)
(* keep their bound and lose live entries only as the code says.           *)
(*                                                                         *)
(* A step is checked with the stamp its call took before it got the lock:  *)
(* that no stamp is ahead of the clock is part of every invariant here.    *)
(***************************************************************************)
EXTENDS MCCooldowns, FiniteSetTheorems, TLAPS

-----------------------------------------------------------------------------
(* The tables of the cooldown.go files.                                      *)

HasRoom(t) == IsFiniteSet(DOMAIN t) /\ Cardinality(DOMAIN t) < MaxEntries

\* Dropping entries, whatever the reason (sweep, clear, lazy expiry), keeps
\* the table within its bound and its domain within the old one.
LEMMA RestrictFits ==
  ASSUME NEW t, Fits(t), NEW S, S \subseteq DOMAIN t
  PROVE  /\ Fits(Restrict(t, S))
         /\ DOMAIN Restrict(t, S) = S
         /\ \A p \in S : Restrict(t, S)[p] = t[p]
<1>1. IsFiniteSet(S) /\ Cardinality(S) <= Cardinality(DOMAIN t)
  BY FS_Subset DEF Fits
<1>2. Cardinality(S) \in Nat /\ Cardinality(DOMAIN t) \in Nat
  BY <1>1, FS_CardinalityType DEF Fits
<1>3. DOMAIN Restrict(t, S) = S /\ \A p \in S : Restrict(t, S)[p] = t[p]
  BY DEF Restrict
<1> QED  BY <1>1, <1>2, <1>3, MaxEntriesAssumption DEF Fits

\* Every table a mark may insert into has room for one more entry, and holds
\* entries of the table it was made from only.
LEMMA MadeRoomHasRoom ==
  ASSUME NEW t, Fits(t), NEW u \in MadeRoom(t)
  PROVE  /\ HasRoom(u)
         /\ DOMAIN u \subseteq DOMAIN t
         /\ \A p \in DOMAIN u : u[p] = t[p]
<1>0. Cardinality(DOMAIN t) \in Nat
  BY FS_CardinalityType DEF Fits
<1>1. CASE Cardinality(DOMAIN t) >= MaxEntries
  <2>1. PICK p \in Soonest(t) : u = Without(t, p)
    BY <1>1 DEF MadeRoom
  <2>2. p \in DOMAIN t
    BY DEF Soonest
  <2>3. DOMAIN u = DOMAIN t \ {p} /\ \A q \in DOMAIN u : u[q] = t[q]
    BY <2>1 DEF Without, Restrict
  <2>4. /\ IsFiniteSet(DOMAIN t \ {p})
        /\ Cardinality(DOMAIN t \ {p}) = Cardinality(DOMAIN t) - 1
    BY <2>2, FS_RemoveElement DEF Fits
  <2> QED  BY <1>0, <2>3, <2>4, MaxEntriesAssumption DEF Fits, HasRoom
<1>2. CASE ~ (Cardinality(DOMAIN t) >= MaxEntries)
  BY <1>0, <1>2, MaxEntriesAssumption DEF MadeRoom, Fits, HasRoom
<1> QED  BY <1>1, <1>2

\* Recording one pair in a table with room keeps it within the bound.
LEMMA PutFits ==
  ASSUME NEW t, HasRoom(t), NEW p, NEW e
  PROVE  Fits(Put(t, p, e))
<1>1. DOMAIN Put(t, p, e) = DOMAIN t \cup {p}
  BY DEF Put
<1>2. Cardinality(DOMAIN t) \in Nat
  BY FS_CardinalityType DEF HasRoom
<1>3. /\ IsFiniteSet(DOMAIN t \cup {p})
      /\ \/ Cardinality(DOMAIN t \cup {p}) = Cardinality(DOMAIN t)
         \/ Cardinality(DOMAIN t \cup {p}) = Cardinality(DOMAIN t) + 1
  BY FS_AddElement DEF HasRoom
<1> QED  BY <1>1, <1>2, <1>3, MaxEntriesAssumption DEF Fits, HasRoom

\* A mark whose stamp is not ahead of the clock drops an entry that is still
\* in force from a full table only, and only the first of its entries to expire.
LEMMA MarkSparesLive ==
  ASSUME NEW t, Fits(t), \A q \in DOMAIN t : t[q].until \in Nat,
         NEW now \in Nat, NEW stamp \in Nat, stamp <= now,
         NEW u \in MadeRoom(Swept(t, stamp)),
         NEW p \in DOMAIN t \ DOMAIN u, CoolingAt(t, p, now)
  PROVE  /\ Cardinality(DOMAIN t) = MaxEntries
         /\ \A q \in DOMAIN t : CoolingAt(t, q, now) /\ t[q].until >= t[p].until
<1> DEFINE s == Swept(t, stamp)
<1>1. /\ Fits(s) /\ DOMAIN s = {q \in DOMAIN t : t[q].until > stamp}
      /\ \A q \in DOMAIN s : s[q] = t[q]
  BY RestrictFits DEF Swept
<1>2. p \in DOMAIN s
  BY <1>1 DEF CoolingAt
<1> HIDE DEF s
<1>3. Cardinality(DOMAIN s) >= MaxEntries /\ p \in Soonest(s)
  <2>1. u # s
    BY <1>2
  <2>2. Cardinality(DOMAIN s) >= MaxEntries /\ \E x \in Soonest(s) : u = Without(s, x)
    BY <2>1 DEF MadeRoom, s
  <2>3. PICK x \in Soonest(s) : u = Without(s, x)
    BY <2>2
  <2>4. DOMAIN u = DOMAIN s \ {x}
    BY <2>3 DEF Without, Restrict
  <2> QED  BY <1>2, <2>2, <2>3, <2>4
<1>4. DOMAIN s = DOMAIN t /\ Cardinality(DOMAIN t) = MaxEntries
  <2>1. DOMAIN s \in SUBSET DOMAIN t /\ IsFiniteSet(DOMAIN t) /\ IsFiniteSet(DOMAIN s)
    BY <1>1 DEF Fits
  <2>2. Cardinality(DOMAIN s) \in Nat /\ Cardinality(DOMAIN t) \in Nat
    BY <2>1, FS_CardinalityType
  <2>3. Cardinality(DOMAIN s) <= Cardinality(DOMAIN t) /\ Cardinality(DOMAIN t) <= MaxEntries
    BY <2>1, FS_Subset DEF Fits
  <2>4. Cardinality(DOMAIN s) = Cardinality(DOMAIN t) /\ Cardinality(DOMAIN t) = MaxEntries
    BY <1>3, <2>2, <2>3, MaxEntriesAssumption
  <2> QED  BY <2>1, <2>4, FS_Subset
<1>5. \A q \in DOMAIN t : t[p].until <= t[q].until
  BY <1>1, <1>3, <1>4 DEF Soonest
<1> QED  BY <1>4, <1>5 DEF CoolingAt

-----------------------------------------------------------------------------
(* The gates of the workbuddy executor.                                      *)

Sent == {"upstream", "return"} \cup Records

CallOK(d) ==
  /\ call[d] \in Call
  /\ call[d].pc # "idle" => call[d].pair \in Pairs
  /\ call[d].slot => call[d].pc \in Sent

\* A slot is held only between admission and return: a call that is turned
\* away, or that arrives, holds none.
CallsOK ==
  /\ clock \in Nat /\ cap \in Nat
  /\ inflight \in [Auths -> Nat]
  /\ DOMAIN call = Callers
  /\ call = [d \in Callers |-> call[d]]
  /\ \A d \in Callers : CallOK(d)

\* What every step of one call must show: the others are untouched.
Others(c) == \A d \in Callers \ {c} : call'[d] = call[d]

IInv == CallsOK /\ SlotsCounted

LEMMA HoldersFinite ==
  ASSUME NEW a
  PROVE  IsFiniteSet(Holders(a)) /\ Cardinality(Holders(a)) \in Nat
<1>1. Holders(a) \subseteq Callers
  BY DEF Holders
<1> QED  BY <1>1, FS_Subset, FS_CardinalityType, WorkbuddyGateAssumption

\* A step that changes neither who holds a slot nor of which account.
LEMMA SameHolders ==
  ASSUME IInv, inflight' = inflight,
         \A d \in Callers : /\ call'[d].slot <=> call[d].slot
                            /\ call[d].slot => call'[d].pair = call[d].pair
  PROVE  SlotsCounted'
<1> SUFFICES ASSUME NEW a \in Auths PROVE (inflight[a] = Cardinality(Holders(a)))'
  BY DEF SlotsCounted
<1>1. Holders(a)' = Holders(a)
  BY DEF Holders, AuthOf
<1>2. Cardinality(Holders(a))' = Cardinality(Holders(a))
  BY <1>1
<1> QED  BY <1>2 DEF IInv, SlotsCounted

\* Admission takes a slot for a call that had none.
LEMMA AdmitCounted ==
  ASSUME IInv, NEW c \in Callers, Admit(c)
  PROVE  IInv'
<1>1. /\ call[c] \in Call /\ call[c].pc = "admit" /\ call[c].pair \in Pairs
      /\ ~ call[c].slot /\ AuthOf(c) \in Auths
  BY DEF IInv, CallsOK, CallOK, Admit, At, Sent, Records, AuthOf, Pairs
<1>2. /\ call' = [call EXCEPT ![c] = [call[c] EXCEPT !.pc = "upstream", !.slot = TRUE]]
      /\ inflight' = [inflight EXCEPT ![AuthOf(c)] = @ + 1]
      /\ cap' = cap /\ clock' = clock
  BY DEF Admit, IInv, CallsOK
<1>3. Others(c) /\ DOMAIN call' = Callers /\ call' = [d \in Callers |-> call'[d]]
  BY <1>2 DEF Others, IInv, CallsOK
<1>4. /\ call'[c] \in Call /\ call'[c].pc = "upstream"
      /\ call'[c].slot /\ call'[c].pair = call[c].pair
  BY <1>1, <1>2 DEF IInv, CallsOK, Call
<1>5. CallsOK'
  <2>1. \A d \in Callers : CallOK(d)'
    BY <1>1, <1>3, <1>4 DEF IInv, CallsOK, CallOK, Others, Sent
  <2>2. inflight' \in [Auths -> Nat]
    BY <1>1, <1>2 DEF IInv, CallsOK
  <2> QED  BY <1>2, <1>3, <2>1, <2>2 DEF IInv, CallsOK
<1>6. SlotsCounted'
  <2> SUFFICES ASSUME NEW a \in Auths PROVE (inflight[a] = Cardinality(Holders(a)))'
    BY DEF SlotsCounted
  <2>0. inflight[a] = Cardinality(Holders(a)) /\ inflight[a] \in Nat
    BY DEF IInv, SlotsCounted, CallsOK
  <2>1. CASE a = AuthOf(c)
    <3>1. Holders(a)' = Holders(a) \cup {c} /\ c \notin Holders(a)
      <4>1. c \notin Holders(a) /\ c \in Holders(a)'
        BY <1>1, <1>4, <2>1 DEF Holders, AuthOf
      <4>2. \A d \in Callers \ {c} : d \in Holders(a)' <=> d \in Holders(a)
        BY <1>3 DEF Holders, AuthOf, Others
      <4> QED  BY <4>1, <4>2 DEF Holders
    <3>2. Cardinality(Holders(a) \cup {c}) = Cardinality(Holders(a)) + 1
      BY <3>1, HoldersFinite, FS_AddElement
    <3>3. inflight'[a] = inflight[a] + 1
      BY <1>2, <2>1 DEF IInv, CallsOK
    <3> QED  BY <2>0, <3>1, <3>2, <3>3
  <2>2. CASE a # AuthOf(c)
    <3>1. Holders(a)' = Holders(a)
      BY <1>1, <1>3, <1>4, <2>2 DEF Holders, AuthOf, Others
    <3>2. inflight'[a] = inflight[a]
      BY <1>2, <2>2 DEF IInv, CallsOK
    <3> QED  BY <2>0, <3>1, <3>2
  <2> QED  BY <2>1, <2>2
<1> QED  BY <1>5, <1>6 DEF IInv

\* A return gives back the slot the call held, if it held one.
LEMMA ReturnCounted ==
  ASSUME IInv, NEW c \in Callers, Return(c)
  PROVE  IInv'
<1>1. /\ call[c] \in Call /\ call[c].pair \in Pairs /\ AuthOf(c) \in Auths
      /\ call[c].slot \in BOOLEAN
  BY DEF IInv, CallsOK, CallOK, Return, At, AuthOf, Pairs, Call
<1>2. /\ call'[c] = AtRest /\ Others(c)
      /\ DOMAIN call' = Callers /\ call' = [d \in Callers |-> call'[d]]
      /\ cap' = cap /\ clock' = clock
  BY DEF Return, Others, IInv, CallsOK
<1>3. \A d \in Callers : CallOK(d)'
  <2>1. CallOK(c)'
    BY <1>2 DEF CallOK, AtRest, Call
  <2>2. \A d \in Callers \ {c} : CallOK(d)'
    BY <1>2 DEF CallOK, Others, IInv, CallsOK
  <2> QED  BY <2>1, <2>2
<1>4. CASE call[c].slot
  <2>1. inflight' = [inflight EXCEPT ![AuthOf(c)] = @ - 1]
    BY <1>4 DEF Return
  <2>2. \A a \in Auths : inflight'[a] \in Nat /\ inflight'[a] = Cardinality(Holders(a)')
    <3> SUFFICES ASSUME NEW a \in Auths
                 PROVE  inflight'[a] \in Nat /\ inflight'[a] = Cardinality(Holders(a)')
      OBVIOUS
    <3>0. inflight[a] = Cardinality(Holders(a)) /\ inflight[a] \in Nat
      BY DEF IInv, SlotsCounted, CallsOK
    <3>1. CASE a = AuthOf(c)
      <4>1. Holders(a)' = Holders(a) \ {c} /\ c \in Holders(a)
        BY <1>2, <1>4, <3>1 DEF Holders, AuthOf, Others, AtRest
      <4>2. /\ IsFiniteSet(Holders(a) \ {c})
            /\ Cardinality(Holders(a) \ {c}) = Cardinality(Holders(a)) - 1
        BY <4>1, HoldersFinite, FS_RemoveElement
      <4>3. Cardinality(Holders(a) \ {c}) \in Nat
        BY <4>2, FS_CardinalityType
      <4>4. inflight'[a] = inflight[a] - 1
        BY <2>1, <3>1 DEF IInv, CallsOK
      <4> QED  BY <3>0, <4>1, <4>2, <4>3, <4>4
    <3>2. CASE a # AuthOf(c)
      <4>1. Holders(a)' = Holders(a)
        BY <1>2, <3>2 DEF Holders, AuthOf, Others, AtRest
      <4>2. inflight'[a] = inflight[a]
        BY <2>1, <3>2 DEF IInv, CallsOK
      <4> QED  BY <3>0, <4>1, <4>2
    <3> QED  BY <3>1, <3>2
  <2>3. inflight' \in [Auths -> Nat]
    BY <2>1, <2>2 DEF IInv, CallsOK
  <2> QED  BY <1>2, <1>3, <2>2, <2>3 DEF IInv, CallsOK, SlotsCounted
<1>5. CASE ~ call[c].slot
  <2>1. inflight' = inflight
    BY <1>5 DEF Return
  <2>2. \A d \in Callers : /\ call'[d].slot <=> call[d].slot
                           /\ call[d].slot => call'[d].pair = call[d].pair
    <3>1. ~ call'[c].slot
      BY <1>2 DEF AtRest
    <3> QED  BY <1>2, <1>5, <3>1 DEF Others
  <2> QED  BY <1>2, <1>3, <2>1, <2>2, SameHolders DEF IInv, CallsOK
<1> QED  BY <1>1, <1>4, <1>5

\* Every other step of a call moves it along with its slot, if it has one.
LEMMA MovesCounted ==
  ASSUME IInv, NEW c \in Callers, inflight' = inflight, cap' \in Nat, clock' \in Nat,
         DOMAIN call' = Callers, call' = [d \in Callers |-> call'[d]], Others(c),
         call'[c] \in Call, call'[c].pc # "idle" => call'[c].pair \in Pairs,
         call'[c].slot <=> call[c].slot, call'[c].slot => call'[c].pc \in Sent,
         call[c].slot => call'[c].pair = call[c].pair
  PROVE  IInv'
<1>1. \A d \in Callers : CallOK(d)'
  <2>1. CallOK(c)'
    BY DEF CallOK
  <2>2. \A d \in Callers \ {c} : CallOK(d)'
    BY DEF CallOK, Others, IInv, CallsOK
  <2> QED  BY <2>1, <2>2
<1>2. CallsOK'
  BY <1>1 DEF CallsOK, IInv
<1>3. \A d \in Callers : /\ call'[d].slot <=> call[d].slot
                         /\ call[d].slot => call'[d].pair = call[d].pair
  BY DEF Others
<1> QED  BY <1>2, <1>3, SameHolders DEF IInv

\* The invariant step, one case per action of the executor.
LEMMA CallsInductive == (Init => IInv) /\ (IInv /\ [Next]_vars => IInv')
<1>1. Init => IInv
  <2> SUFFICES ASSUME Init PROVE IInv
    OBVIOUS
  <2>1. CallsOK
    BY WorkbuddyGateAssumption DEF Init, CallsOK, CallOK, AtRest, Call
  <2>2. \A a \in Auths : Holders(a) = {} /\ inflight[a] = 0
    BY DEF Init, Holders, AtRest
  <2>3. SlotsCounted
    BY <2>2, FS_EmptySet DEF SlotsCounted
  <2> QED  BY <2>1, <2>3 DEF IInv
<1>2. IInv /\ [Next]_vars => IInv'
  <2> SUFFICES ASSUME IInv, [Next]_vars PROVE IInv'
    OBVIOUS
  <2>1. ASSUME NEW c \in Callers, Executor(c) PROVE IInv'
    <3>0. /\ call[c] \in Call /\ (call[c].pc # "idle" => call[c].pair \in Pairs)
          /\ (call[c].slot => call[c].pc \in Sent)
          /\ cap \in Nat /\ clock \in Nat /\ DOMAIN call = Callers
      BY DEF IInv, CallsOK, CallOK
    <3>1. CASE \E p \in Pairs : Arrive(c, p)
      <4>1. PICK p \in Pairs : Arrive(c, p)
        BY <3>1
      <4> QED
        BY <3>0, <4>1, MovesCounted DEF Arrive, At, AtRest, Call, Gates, Others, slots, Sent, Records
    <3>a. ASSUME call[c].pc \in Gates, TurnedAway(c), UNCHANGED slots, UNCHANGED clock
          PROVE  IInv'
      BY <3>0, <3>a, MovesCounted DEF TurnedAway, AtRest, Call, Gates, Others, slots, Sent, Records
    <3>b. ASSUME NEW pc \in Gates, call[c].pc \in Gates, Goes(c, pc), UNCHANGED slots, UNCHANGED clock
          PROVE  IInv'
      BY <3>0, <3>b, MovesCounted DEF Goes, Call, Gates, Others, slots, Sent, Records
    <3>2. CASE CheckLimit(c)
      BY <3>a, <3>b, <3>2 DEF CheckLimit, At, Gates
    <3>3. CASE CheckQuarantine(c)
      BY <3>a, <3>b, <3>3 DEF CheckQuarantine, At, Gates
    <3>4. CASE CheckHold(c)
      BY <3>a, <3>b, <3>4 DEF CheckHold, At, Gates
    <3>5. CASE CheckCap(c)
      BY <3>0, <3>5, MovesCounted DEF CheckCap, At, Goes, Call, Gates, Others, slots, Sent, Records
    <3>6. CASE Admit(c)
      BY <3>6, AdmitCounted
    <3>7. CASE AdmitBusy(c)
      BY <3>a, <3>7 DEF AdmitBusy, At, Gates
    <3>8. ASSUME NEW record \in Records \cup {"return"}, NEW end \in Nat, Sees(c, record, end)
          PROVE  IInv'
      BY <3>0, <3>8, MovesCounted DEF Sees, At, Call, Gates, Others, slots, Sent, Records
    <3>9. CASE SeesLimit(c) \/ SeesDailyQuota(c)
      <4>1. PICK wait \in 1 .. Horizon : Sees(c, "limited", clock + wait) \/ Sees(c, "held", clock + wait)
        BY <3>9 DEF SeesLimit, SeesDailyQuota
      <4>2. clock + wait \in Nat
        BY <3>0, WorkbuddyGateAssumption
      <4> QED  BY <4>1, <4>2, <3>8 DEF Records
    <3>10. CASE \/ SeesLimitUndeclared(c) \/ SeesRestriction(c) \/ SeesThrottle(c)
                \/ SeesRefusedStream(c) \/ SeesAnswer(c) \/ SeesNothing(c)
      <4>1. /\ clock + DefaultWindow \in Nat /\ clock + RateLimitTTL \in Nat
            /\ clock + UnknownTTL \in Nat /\ 0 \in Nat
        BY <3>0, WorkbuddyGateAssumption
      <4> QED
        BY <3>10, <4>1, <3>8
        DEF SeesLimitUndeclared, SeesRestriction, SeesThrottle, SeesRefusedStream, SeesAnswer, SeesNothing, Records
    <3>11. ASSUME NEW record \in Records, At(c, record), Goes(c, "return"),
                  UNCHANGED slots, UNCHANGED clock
           PROVE  IInv'
      BY <3>0, <3>11, MovesCounted DEF At, Goes, Call, Gates, Others, slots, Sent, Records
    <3>12. CASE RecordLimit(c) \/ RecordRestriction(c) \/ RecordHold(c) \/ RecordHealthy(c)
      BY <3>11, <3>12 DEF RecordLimit, RecordRestriction, RecordHold, RecordHealthy, Records
    <3>13. CASE Return(c)
      BY <3>13, ReturnCounted
    <3> QED
      BY <2>1, <3>1, <3>2, <3>3, <3>4, <3>5, <3>6, <3>7, <3>9, <3>10, <3>12, <3>13 DEF Executor
  <2>2. ASSUME UNCHANGED <<call, inflight>>, cap' \in Nat, clock' \in Nat PROVE IInv'
    <3>1. CallsOK'
      BY <2>2 DEF IInv, CallsOK, CallOK
    <3> QED  BY <2>2, <3>1, SameHolders DEF IInv
  <2>3. CASE Host
    BY <2>2, <2>3, WorkbuddyGateAssumption
    DEF Host, PickConsults, HandleCooldownClear, Configure, slots, IInv, CallsOK
  <2>4. CASE Tick \/ UNCHANGED vars
    BY <2>2, <2>4 DEF Tick, vars, slots, IInv, CallsOK
  <2> QED  BY <2>1, <2>3, <2>4 DEF Next
<1> QED  BY <1>1, <1>2

\* Slots are released on every exit (main.go:936-944, 1175-1179), so that the
\* counter of an account is never more and never less than its calls in flight.
THEOREM SlotsExact == Spec => []SlotsCounted
<1>1. IInv => SlotsCounted
  BY DEF IInv
<1> QED  BY <1>1, CallsInductive, PTL DEF Spec

-----------------------------------------------------------------------------
\* No window of t that is in force at now ends earlier in u.
NoSooner(t, u, now) ==
  \A p \in DOMAIN t :
    CoolingAt(t, p, now) => p \in DOMAIN u /\ u[p].until >= t[p].until

\* A stamp is never ahead of the clock, however late it is recorded, so that a
\* sweep with a stale stamp drops nothing that is still in force.
StampsPast == \A d \in Callers : call[d].now <= clock

Timed(t) == \A p \in DOMAIN t : t[p].until \in Nat

LEMMA ReadKeeps ==
  ASSUME NEW t, Timed(t), NEW p, NEW now
  PROVE  Timed(Read(t, p, now)) /\ NoSooner(t, Read(t, p, now), now)
BY DEF Timed, Read, Without, Restrict, NoSooner, CoolingAt

LEMMA SweptKeeps ==
  ASSUME NEW t, Timed(t), NEW now \in Nat, NEW stamp \in Nat, stamp <= now
  PROVE  /\ Timed(SweptIfLarge(t, stamp))
         /\ NoSooner(t, SweptIfLarge(t, stamp), now)
BY DEF Timed, SweptIfLarge, Swept, Restrict, NoSooner, CoolingAt

LEMMA LongerKeeps ==
  ASSUME NEW t, NEW u, Timed(t), Timed(u), NEW now \in Nat, NoSooner(t, u, now),
         NEW p, NEW end \in Nat
  PROVE  Timed(KeepsLonger(u, p, end)) /\ NoSooner(t, KeepsLonger(u, p, end), now)
BY DEF Timed, KeepsLonger, Put, NoSooner, CoolingAt

LEMMA StampsStep ==
  ASSUME IInv, StampsPast, [Next]_vars
  PROVE  StampsPast'
<1>0. /\ clock \in Nat /\ DOMAIN call = Callers
      /\ \A d \in Callers : call[d].now \in Nat /\ call[d] \in Call
  BY DEF IInv, CallsOK, CallOK, Call
<1> SUFFICES ASSUME NEW d \in Callers PROVE call'[d].now <= clock'
  BY DEF StampsPast
<1>1. ASSUME NEW c \in Callers, Executor(c) PROVE call'[d].now <= clock'
  <2>1. CASE \E p \in Pairs : Arrive(c, p)
    BY <1>0, <2>1 DEF Arrive, AtRest, StampsPast
  <2>2. ASSUME TurnedAway(c), clock' = clock PROVE call'[d].now <= clock'
    BY <1>0, <2>2 DEF TurnedAway, AtRest, StampsPast
  <2>3. ASSUME NEW pc, Goes(c, pc), clock' = clock PROVE call'[d].now <= clock'
    BY <1>0, <2>3 DEF Goes, StampsPast
  <2>4. ASSUME NEW record, NEW end, Sees(c, record, end) PROVE call'[d].now <= clock'
    BY <1>0, <2>4 DEF Sees, StampsPast
  <2>5. CASE CheckLimit(c) \/ CheckQuarantine(c) \/ CheckHold(c) \/ CheckCap(c) \/ AdmitBusy(c)
    BY <2>2, <2>3, <2>5 DEF CheckLimit, CheckQuarantine, CheckHold, CheckCap, AdmitBusy
  <2>6. CASE Admit(c)
    BY <1>0, <2>6 DEF Admit, StampsPast
  <2>7. CASE \/ SeesLimit(c) \/ SeesLimitUndeclared(c) \/ SeesRestriction(c)
             \/ SeesThrottle(c) \/ SeesDailyQuota(c) \/ SeesRefusedStream(c)
             \/ SeesAnswer(c) \/ SeesNothing(c)
    BY <2>4, <2>7 DEF SeesLimit, SeesLimitUndeclared, SeesRestriction, SeesThrottle,
                      SeesDailyQuota, SeesRefusedStream, SeesAnswer, SeesNothing
  <2>8. CASE RecordLimit(c) \/ RecordRestriction(c) \/ RecordHold(c) \/ RecordHealthy(c)
    BY <2>3, <2>8 DEF RecordLimit, RecordRestriction, RecordHold, RecordHealthy
  <2>9. CASE Return(c)
    BY <1>0, <2>9 DEF Return, AtRest, StampsPast
  <2> QED  BY <1>1, <2>1, <2>5, <2>6, <2>7, <2>8, <2>9 DEF Executor
<1>2. CASE Host \/ Tick \/ UNCHANGED vars
  BY <1>0, <1>2 DEF Host, PickConsults, HandleCooldownClear, Configure, Tick, vars, StampsPast
<1> QED  BY <1>1, <1>2 DEF Next

LInv == IInv /\ StampsPast /\ Timed(limits)

Cleared(p) ==
  \E a \in Auths, m \in Models \cup {NoName} :
    HandleCooldownClear(a, m) /\ p[1] = a /\ m \in {p[2], NoName}

LEMMA LimitsStep ==
  ASSUME LInv, [Next]_vars
  PROVE  /\ Timed(limits')
         /\ \A p \in DOMAIN limits : CoolingAt(limits, p, clock) =>
               Cleared(p) \/ (p \in DOMAIN limits' /\ limits'[p].until >= limits[p].until)
<1> DEFINE Kept == Timed(limits') /\ NoSooner(limits, limits', clock)
<1>0. /\ clock \in Nat /\ Timed(limits)
      /\ \A d \in Callers : call[d].now \in Nat /\ call[d].until \in Nat /\ call[d].now <= clock
  BY DEF LInv, IInv, CallsOK, CallOK, Call, StampsPast
<1>1. ASSUME limits' = limits PROVE Kept
  BY <1>0, <1>1 DEF NoSooner, Timed, CoolingAt
<1>2. ASSUME NEW p, limits' = Read(limits, p, clock) PROVE Kept
  BY <1>0, <1>2, ReadKeeps
<1>3. ASSUME NEW c \in Callers, RecordLimit(c) PROVE Kept
  <2> DEFINE u == SweptIfLarge(limits, call[c].now)
  <2>1. Timed(u) /\ NoSooner(limits, u, clock)
    BY <1>0, SweptKeeps
  <2>2. limits' = KeepsLonger(u, call[c].pair, call[c].until)
    BY <1>3 DEF RecordLimit
  <2> HIDE DEF u
  <2> QED  BY <1>0, <2>1, <2>2, LongerKeeps
<1>4. ASSUME NEW c \in Callers, Executor(c) PROVE Kept
  <2>1. CASE CheckLimit(c)
    BY <1>2, <2>1 DEF CheckLimit
  <2>2. CASE RecordLimit(c)
    BY <1>3, <2>2
  <2>3. CASE limits' = limits
    BY <1>1, <2>3
  <2>4. limits' = limits \/ CheckLimit(c) \/ RecordLimit(c)
    BY <1>4 DEF Executor, Arrive, CheckQuarantine, CheckHold, CheckCap, Admit, AdmitBusy, Sees,
       SeesLimit, SeesLimitUndeclared, SeesRestriction, SeesThrottle, SeesDailyQuota,
       SeesRefusedStream, SeesAnswer, SeesNothing, RecordRestriction, RecordHold,
       RecordHealthy, Return, tables
  <2> QED  BY <2>1, <2>2, <2>3, <2>4
<1>5. ASSUME NEW p \in Pairs, PickConsults(p) PROVE Kept
  BY <1>1, <1>2, <1>5 DEF PickConsults
<1>6. CASE (\E n \in Caps : Configure(n)) \/ Tick \/ UNCHANGED vars
  <2>1. limits' = limits
    BY <1>6 DEF Configure, Tick, vars, tables
  <2>2. Kept
    BY <1>1, <2>1
  <2> QED  BY <2>2 DEF NoSooner
<1>7. ASSUME NEW a \in Auths, NEW m \in Models \cup {NoName}, HandleCooldownClear(a, m)
      PROVE  /\ Timed(limits')
             /\ \A p \in DOMAIN limits :
                   (p[1] = a /\ m \in {p[2], NoName})
                     \/ (p \in DOMAIN limits' /\ limits'[p] = limits[p])
  BY <1>0, <1>7 DEF HandleCooldownClear, ClearedAt, Restrict, Timed
<1>8. CASE \E a \in Auths, m \in Models \cup {NoName} : HandleCooldownClear(a, m)
  <2>1. PICK a \in Auths, m \in Models \cup {NoName} : HandleCooldownClear(a, m)
    BY <1>8
  <2>2. \A p \in DOMAIN limits : limits[p].until \in Nat
    BY <1>0 DEF Timed
  <2> QED  BY <1>7, <2>1, <2>2 DEF Cleared
<1>9. CASE \E c \in Callers : Executor(c)
  BY <1>4, <1>9 DEF NoSooner
<1>10. CASE \E p \in Pairs : PickConsults(p)
  BY <1>5, <1>10 DEF NoSooner
<1> QED  BY <1>6, <1>8, <1>9, <1>10 DEF Next, Host

\* "A second 6004 with a smaller parsed reset must not release the earlier
\* (larger) hold" (model_ratelimit.go:202), in whatever order they are recorded.
THEOREM LimitsKept == Spec => LimitsNeverShorten
<1>1. Init => LInv
  <2> SUFFICES ASSUME Init PROVE LInv
    OBVIOUS
  <2>1. Timed(limits)
    BY DEF Init, Timed, EmptyTable
  <2>2. StampsPast
    BY DEF Init, StampsPast, AtRest
  <2> QED  BY <2>1, <2>2, CallsInductive DEF LInv
<1>2. LInv /\ [Next]_vars => LInv'
  BY CallsInductive, StampsStep, LimitsStep DEF LInv
<1>3. LInv /\ [Next]_vars =>
        [\A p \in DOMAIN limits : CoolingAt(limits, p, clock) =>
            \/ p \in DOMAIN limits' /\ limits'[p].until >= limits[p].until
            \/ \E a \in Auths, m \in Models \cup {NoName} :
                 HandleCooldownClear(a, m) /\ p[1] = a /\ m \in {p[2], NoName}]_vars
  BY LimitsStep DEF Cleared
<1> QED  BY <1>1, <1>2, <1>3, PTL DEF Spec, LimitsNeverShorten

-----------------------------------------------------------------------------
\* Every quarantine has an end and at least one strike, so that the ladder's
\* next rung exists and lies ahead of the stamp.
Struck(q) == \A a \in DOMAIN q : q[a].until \in Nat /\ q[a].strikes \in Nat \ {0}

QInv == IInv /\ StampsPast /\ Struck(quarantine)

\* accountRestrictionBackoffFor answers a duration for every strike.
LEMMA BackoffNat ==
  ASSUME NEW n \in Nat \ {0}
  PROVE  Backoff(n) \in Nat
<1>1. Ladder \in Seq(Nat \ {0}) /\ Len(Ladder) \in Nat \ {0}
  BY WorkbuddyGateAssumption
<1> QED  BY <1>1 DEF Backoff

\* Only a normal answer of the account ends its quarantine.
Answered(a) == \E c \in Callers : RecordHealthy(c) /\ AuthOf(c) = a

LEMMA QuarantineStep ==
  ASSUME QInv, [Next]_vars
  PROVE  /\ Struck(quarantine')
         /\ \A a \in DOMAIN quarantine : CoolingAt(quarantine, a, clock) =>
               \/ a \in DOMAIN quarantine' /\ quarantine'[a].until >= quarantine[a].until
               \/ Answered(a)
<1> DEFINE Kept == Struck(quarantine') /\ NoSooner(quarantine, quarantine', clock)
<1>0. /\ clock \in Nat /\ Struck(quarantine)
      /\ \A d \in Callers : call[d].now \in Nat /\ call[d].now <= clock
  BY DEF QInv, IInv, CallsOK, CallOK, Call, StampsPast
<1>1. ASSUME quarantine' = quarantine PROVE Kept
  BY <1>0, <1>1 DEF NoSooner, Struck, CoolingAt
<1>2. ASSUME NEW a, quarantine' = Read(quarantine, a, clock) PROVE Kept
  BY <1>0, <1>2 DEF Struck, Read, Without, Restrict, NoSooner, CoolingAt
<1>3. ASSUME NEW c \in Callers, RecordRestriction(c) PROVE Kept
  <2> DEFINE q == SweptIfLarge(quarantine, call[c].now)
             a == AuthOf(c)
             before == IF a \in DOMAIN q THEN q[a] ELSE [until |-> 0, strikes |-> 0]
             end == call[c].now + Backoff(before.strikes + 1)
             after == [until |-> IF end > before.until THEN end ELSE before.until,
                       strikes |-> before.strikes + 1]
  <2>1. Struck(q) /\ NoSooner(quarantine, q, clock)
    BY <1>0 DEF Struck, SweptIfLarge, Swept, EmptyTable, Restrict, NoSooner, CoolingAt
  <2>2. before.until \in Nat /\ before.strikes \in Nat
    BY <2>1 DEF Struck
  <2>3. end \in Nat
    BY <1>0, <2>2, BackoffNat
  <2>4. quarantine' = Put(q, a, after)
    BY <1>3 DEF RecordRestriction
  <2>5. /\ after.until \in Nat /\ after.strikes \in Nat \ {0}
        /\ a \in DOMAIN q => after.until >= q[a].until
    BY <2>2, <2>3
  <2> HIDE DEF q, a, after
  <2>6. Struck(quarantine')
    BY <2>1, <2>4, <2>5 DEF Struck, Put
  <2>7. \A b \in DOMAIN q : b \in DOMAIN quarantine' /\ quarantine'[b].until >= q[b].until
    BY <2>1, <2>4, <2>5 DEF Struck, Put
  <2>8. \A b \in DOMAIN quarantine' : quarantine'[b].until \in Nat
    BY <2>6 DEF Struck
  <2> QED  BY <1>0, <2>1, <2>6, <2>7, <2>8 DEF NoSooner, Struck
<1>4. ASSUME NEW c \in Callers, RecordHealthy(c)
      PROVE  /\ Struck(quarantine')
             /\ \A a \in DOMAIN quarantine :
                   Answered(a) \/ (a \in DOMAIN quarantine' /\ quarantine'[a] = quarantine[a])
  BY <1>0, <1>4 DEF RecordHealthy, Without, Restrict, Struck, Answered
<1>5. CASE \E c \in Callers : RecordHealthy(c)
  <2>1. \A a \in DOMAIN quarantine : quarantine[a].until \in Nat
    BY <1>0 DEF Struck
  <2> QED  BY <1>4, <1>5, <2>1
<1>6. ASSUME NEW c \in Callers, Executor(c), ~ RecordHealthy(c) PROVE Kept
  <2>1. CASE CheckQuarantine(c)
    BY <1>2, <2>1 DEF CheckQuarantine
  <2>2. CASE RecordRestriction(c)
    BY <1>3, <2>2
  <2>3. CASE quarantine' = quarantine
    BY <1>1, <2>3
  <2>4. quarantine' = quarantine \/ CheckQuarantine(c) \/ RecordRestriction(c)
    BY <1>6 DEF Executor, Arrive, CheckLimit, CheckHold, CheckCap, Admit, AdmitBusy, Sees,
       SeesLimit, SeesLimitUndeclared, SeesRestriction, SeesThrottle, SeesDailyQuota,
       SeesRefusedStream, SeesAnswer, SeesNothing, RecordLimit, RecordHold, Return, tables
  <2> QED  BY <2>1, <2>2, <2>3, <2>4
<1>7. ASSUME NEW p \in Pairs, PickConsults(p) PROVE Kept
  BY <1>1, <1>2, <1>7 DEF PickConsults
<1>8. CASE \/ \E a \in Auths, m \in Models \cup {NoName} : HandleCooldownClear(a, m)
           \/ \E n \in Caps : Configure(n)
           \/ Tick \/ UNCHANGED vars
  <2>1. quarantine' = quarantine
    BY <1>8 DEF HandleCooldownClear, Configure, Tick, vars, tables
  <2> QED  BY <1>1, <2>1 DEF NoSooner
<1>9. CASE \E c \in Callers : Executor(c) /\ ~ RecordHealthy(c)
  BY <1>6, <1>9 DEF NoSooner
<1>10. CASE \E p \in Pairs : PickConsults(p)
  BY <1>7, <1>10 DEF NoSooner
<1> QED  BY <1>5, <1>8, <1>9, <1>10 DEF Next, Host

\* "The window never shortens mid-quarantine" (account_restriction.go:131), in
\* whatever order restrictions are recorded: only a normal answer lifts it.
THEOREM QuarantinesKept == Spec => QuarantineNeverShortens
<1>1. Init => QInv
  <2> SUFFICES ASSUME Init PROVE QInv
    OBVIOUS
  <2>1. Struck(quarantine)
    BY DEF Init, Struck, EmptyTable
  <2>2. StampsPast
    BY DEF Init, StampsPast, AtRest
  <2> QED  BY <2>1, <2>2, CallsInductive DEF QInv
<1>2. QInv /\ [Next]_vars => QInv'
  BY CallsInductive, StampsStep, QuarantineStep DEF QInv
<1>3. QInv /\ [Next]_vars =>
        [\A a \in DOMAIN quarantine : CoolingAt(quarantine, a, clock) =>
            \/ a \in DOMAIN quarantine' /\ quarantine'[a].until >= quarantine[a].until
            \/ \E c \in Callers : RecordHealthy(c) /\ AuthOf(c) = a]_vars
  BY QuarantineStep DEF Answered
<1> QED  BY <1>1, <1>2, <1>3, PTL DEF Spec, QuarantineNeverShortens

(* Both together: no window of a model's limit or of an account's quarantine  *)
(* is cut short, for every number of callers and every table size.            *)
THEOREM WindowsNeverShorten == Spec => WindowsKept
BY LimitsKept, QuarantinesKept DEF WindowsKept
-----------------------------------------------------------------------------
\* A hold has an end, and the table keeps its bound: whoever evicts from a full
\* table has looked at MaxEntries entries, not more.
HInv == IInv /\ StampsPast /\ Timed(holds) /\ Fits(holds)

Evicted(p) ==
  /\ Cardinality(DOMAIN holds) = MaxEntries
  /\ \A q \in DOMAIN holds : CoolingAt(holds, q, clock) /\ holds[q].until >= holds[p].until

LEMMA ReadFits ==
  ASSUME NEW t, Fits(t), NEW p, NEW now
  PROVE  Fits(Read(t, p, now))
BY RestrictFits DEF Read, Without

\* The critical section of a mark: it makes room, then keeps the longer hold.
LEMMA HoldRecorded ==
  ASSUME HInv, NEW c \in Callers, RecordHold(c)
  PROVE  /\ Timed(holds') /\ Fits(holds')
         /\ \A p \in DOMAIN holds : CoolingAt(holds, p, clock) =>
               \/ p \in DOMAIN holds' /\ holds'[p].until >= holds[p].until
               \/ Evicted(p)
<1>0. /\ clock \in Nat /\ Fits(holds) /\ \A q \in DOMAIN holds : holds[q].until \in Nat
      /\ call[c].now \in Nat /\ call[c].now <= clock /\ call[c].until \in Nat
  BY DEF HInv, IInv, CallsOK, CallOK, Call, StampsPast, Timed
<1> DEFINE s == Swept(holds, call[c].now)
           x == call[c].pair
           end == call[c].until
<1>1. PICK u \in MadeRoom(s) : holds' = KeepsLonger(u, x, end)
  BY DEF RecordHold
<1>2. Fits(s) /\ DOMAIN s \subseteq DOMAIN holds /\ \A q \in DOMAIN s : s[q] = holds[q]
  BY <1>0, RestrictFits DEF Swept
<1>3. \A p \in DOMAIN holds \ DOMAIN u : CoolingAt(holds, p, clock) => Evicted(p)
  BY <1>0, <1>1, MarkSparesLive DEF Evicted
<1> HIDE DEF s
<1>4. HasRoom(u) /\ DOMAIN u \subseteq DOMAIN s /\ \A q \in DOMAIN u : u[q] = s[q]
  BY <1>1, <1>2, MadeRoomHasRoom
<1>5. \A q \in DOMAIN u : q \in DOMAIN holds /\ u[q] = holds[q] /\ u[q].until \in Nat
  BY <1>0, <1>2, <1>4
<1> HIDE DEF x, end
<1>6. end \in Nat
  BY <1>0 DEF end
<1>7. Fits(holds')
  <2>1. Fits(u) /\ Fits(Put(u, x, [until |-> end]))
    BY <1>4, PutFits, FS_CardinalityType, MaxEntriesAssumption DEF Fits, HasRoom
  <2> QED  BY <1>1, <2>1 DEF KeepsLonger
<1>8. /\ Timed(holds')
      /\ \A q \in DOMAIN u : q \in DOMAIN holds' /\ holds'[q].until >= u[q].until
  BY <1>1, <1>5, <1>6 DEF KeepsLonger, Put, Timed
<1> QED  BY <1>3, <1>5, <1>7, <1>8

LEMMA HoldsStep ==
  ASSUME HInv, [Next]_vars
  PROVE  /\ Timed(holds') /\ Fits(holds')
         /\ \A p \in DOMAIN holds : CoolingAt(holds, p, clock) =>
               \/ p \in DOMAIN holds' /\ holds'[p].until >= holds[p].until
               \/ \E a \in Auths, m \in Models \cup {NoName} :
                    HandleCooldownClear(a, m) /\ p[1] = a /\ m \in {p[2], NoName}
               \/ Evicted(p)
<1> DEFINE Kept == Timed(holds') /\ Fits(holds') /\ NoSooner(holds, holds', clock)
<1>0. Timed(holds) /\ Fits(holds)
  BY DEF HInv
<1>1. ASSUME holds' = holds PROVE Kept
  BY <1>0, <1>1 DEF NoSooner, Timed, CoolingAt
<1>2. ASSUME NEW p, holds' = Read(holds, p, clock) PROVE Kept
  BY <1>0, <1>2, ReadKeeps, ReadFits
<1>3. ASSUME NEW c \in Callers, Executor(c), ~ RecordHold(c) PROVE Kept
  <2>1. holds' = holds \/ holds' = Read(holds, call[c].pair, clock)
    BY <1>3 DEF Executor, Arrive, CheckLimit, CheckQuarantine, CheckHold, CheckCap, Admit,
       AdmitBusy, Sees, SeesLimit, SeesLimitUndeclared, SeesRestriction, SeesThrottle,
       SeesDailyQuota, SeesRefusedStream, SeesAnswer, SeesNothing, RecordLimit,
       RecordRestriction, RecordHealthy, Return, tables
  <2> QED  BY <1>1, <1>2, <2>1
<1>4. CASE \E c \in Callers : RecordHold(c)
  BY <1>4, HoldRecorded
<1>5. CASE \E c \in Callers : Executor(c) /\ ~ RecordHold(c)
  BY <1>3, <1>5 DEF NoSooner
<1>6. CASE \E p \in Pairs : PickConsults(p)
  BY <1>2, <1>6 DEF PickConsults, NoSooner
<1>7. CASE (\E n \in Caps : Configure(n)) \/ Tick \/ UNCHANGED vars
  <2>1. holds' = holds
    BY <1>7 DEF Configure, Tick, vars, tables
  <2> QED  BY <1>1, <2>1 DEF NoSooner
<1>8. CASE \E a \in Auths, m \in Models \cup {NoName} : HandleCooldownClear(a, m)
  <2>1. PICK a \in Auths, m \in Models \cup {NoName} : HandleCooldownClear(a, m)
    BY <1>8
  <2>2. \A p \in DOMAIN holds :
          (p[1] = a /\ m \in {p[2], NoName})
            \/ (p \in DOMAIN holds' /\ holds'[p].until >= holds[p].until)
    BY <1>0, <2>1 DEF HandleCooldownClear, ClearedAt, Restrict, Timed
  <2>3. Timed(holds') /\ Fits(holds')
    BY <1>0, <2>1, RestrictFits DEF HandleCooldownClear, ClearedAt, Timed
  <2> QED  BY <2>1, <2>2, <2>3
<1> QED  BY <1>4, <1>5, <1>6, <1>7, <1>8 DEF Next, Host

\* "Never shorten an active window" (cooldown.go:155) holds but for one
\* case: a full table evicts the first of its live holds to expire, whatever
\* pair it belongs to (cooldown.go:141-153).  Otherwise only the panel cuts it.
THEOREM HoldsKeptUnlessFull == Spec => HoldsKept
<1>1. Init => HInv
  <2> SUFFICES ASSUME Init PROVE HInv
    OBVIOUS
  <2>1. DOMAIN holds = {}
    BY DEF Init, EmptyTable
  <2>2. Timed(holds) /\ Fits(holds)
    BY <2>1, FS_EmptySet, MaxEntriesAssumption DEF Timed, Fits
  <2>3. StampsPast
    BY DEF Init, StampsPast, AtRest
  <2> QED  BY <2>2, <2>3, CallsInductive DEF HInv
<1>2. HInv /\ [Next]_vars => HInv'
  BY CallsInductive, StampsStep, HoldsStep DEF HInv
<1>3. HInv /\ [Next]_vars =>
        [\A p \in DOMAIN holds : CoolingAt(holds, p, clock) =>
            \/ p \in DOMAIN holds' /\ holds'[p].until >= holds[p].until
            \/ \E a \in Auths, m \in Models \cup {NoName} :
                 HandleCooldownClear(a, m) /\ p[1] = a /\ m \in {p[2], NoName}
            \/ /\ Cardinality(DOMAIN holds) = MaxEntries
               /\ \A q \in DOMAIN holds : /\ CoolingAt(holds, q, clock)
                                          /\ holds[q].until >= holds[p].until]_vars
  BY HoldsStep DEF Evicted
<1> QED  BY <1>1, <1>2, <1>3, PTL DEF Spec, HoldsKept

-----------------------------------------------------------------------------
(* Zcode's table.                                                            *)

(* Zcode's tables are the same tables: what the operators do, and the lemmas *)
(* above, hold of the instance's.                                            *)
LEMMA SameParts ==
  /\ Zcode!EmptyTable = EmptyTable
  /\ \A t, S : Zcode!Restrict(t, S) = Restrict(t, S)
  /\ \A t, p : Zcode!Without(t, p) = Without(t, p)
  /\ \A t : Zcode!Soonest(t) = Soonest(t)
  /\ \A S : Zcode!Cardinality(S) = Cardinality(S)
  /\ \A S : Zcode!IsFiniteSet(S) <=> IsFiniteSet(S)
<1>1. Zcode!EmptyTable = EmptyTable
  BY DEF Zcode!EmptyTable, EmptyTable
<1>2. \A t, S : Zcode!Restrict(t, S) = Restrict(t, S)
  BY DEF Zcode!Restrict, Restrict
<1>3. \A t, p : Zcode!Without(t, p) = Without(t, p)
  BY <1>2 DEF Zcode!Without, Without
<1>4. \A t : Zcode!Soonest(t) = Soonest(t)
  BY DEF Zcode!Soonest, Soonest
<1>5. \A S : Zcode!Cardinality(S) = Cardinality(S)
  BY DEF Zcode!Cardinality, Cardinality
<1>6. \A S : Zcode!IsFiniteSet(S) <=> IsFiniteSet(S)
  BY DEF Zcode!IsFiniteSet, IsFiniteSet
<1> QED  BY <1>1, <1>2, <1>3, <1>4, <1>5, <1>6

LEMMA SameTable ==
  /\ \A t : Zcode!Fits(t) <=> Fits(t)
  /\ \A t : Zcode!MadeRoom(t) = MadeRoom(t)
  /\ \A t, p, e : Zcode!Put(t, p, e) = Put(t, p, e)
  /\ \A t, p, now : Zcode!CoolingAt(t, p, now) <=> CoolingAt(t, p, now)
  /\ \A t, p, now : Zcode!Read(t, p, now) = Read(t, p, now)
  /\ \A t, now : Zcode!Swept(t, now) = Swept(t, now)
  /\ \A t, a, m, blank : Zcode!ClearedAt(t, a, m, blank) = ClearedAt(t, a, m, blank)
<1>1. \A t : Zcode!Fits(t) <=> Fits(t)
  BY SameParts DEF Zcode!Fits, Fits
<1>2. \A t : Zcode!MadeRoom(t) = MadeRoom(t)
  <2> SUFFICES ASSUME NEW t PROVE Zcode!MadeRoom(t) = MadeRoom(t)
    OBVIOUS
  <2>1. {Zcode!Without(t, p) : p \in Zcode!Soonest(t)} = {Without(t, p) : p \in Soonest(t)}
    BY SameParts
  <2> QED  BY <2>1, SameParts DEF Zcode!MadeRoom, MadeRoom
<1>3. \A t, p, e : Zcode!Put(t, p, e) = Put(t, p, e)
  BY DEF Zcode!Put, Put
<1>4. \A t, p, now : Zcode!CoolingAt(t, p, now) <=> CoolingAt(t, p, now)
  BY DEF Zcode!CoolingAt, CoolingAt
<1>5. \A t, p, now : Zcode!Read(t, p, now) = Read(t, p, now)
  BY SameParts, <1>4 DEF Zcode!Read, Read
<1>6. \A t, now : Zcode!Swept(t, now) = Swept(t, now)
  BY SameParts DEF Zcode!Swept, Swept
<1>7. \A t, a, m, blank : Zcode!ClearedAt(t, a, m, blank) = ClearedAt(t, a, m, blank)
  BY SameParts DEF Zcode!ClearedAt, ClearedAt
<1> QED  BY <1>1, <1>2, <1>3, <1>4, <1>5, <1>6, <1>7

\* The actions of the zcode plugin, in terms of these operators.
LEMMA ZcodeActions ==
  /\ Zcode!Init => table = EmptyTable
  /\ \A c \in Callers : Zcode!MarkModelCooldown(c) =>
       \E t \in MadeRoom(Swept(table, zcall[c].now)) :
         table' = Put(t, zcall[c].pair, Zcode!NewEntry(zcall[c]))
  /\ \A c \in Callers : Zcode!ModelCoolingUntil(c) =>
       table' = Read(table, zcall[c].pair, zcall[c].now)
  /\ \A a, m : Zcode!ClearModelCooldown(a, m) => table' = ClearedAt(table, a, m, NoName)
<1>1. Zcode!Init => table = EmptyTable
  BY SameParts DEF Zcode!Init
<1>2. ASSUME NEW c \in Callers, Zcode!MarkModelCooldown(c)
      PROVE  \E t \in MadeRoom(Swept(table, zcall[c].now)) :
               table' = Put(t, zcall[c].pair, Zcode!NewEntry(zcall[c]))
  <2>1. Zcode!Swept(table, zcall[c].now) = Swept(table, zcall[c].now)
    BY SameTable
  <2>2. Zcode!MadeRoom(Swept(table, zcall[c].now)) = MadeRoom(Swept(table, zcall[c].now))
    BY SameTable
  <2>3. PICK t \in MadeRoom(Swept(table, zcall[c].now)) :
          table' = Zcode!Put(t, zcall[c].pair, Zcode!NewEntry(zcall[c]))
    BY ONLY <1>2, <2>1, <2>2 DEF Zcode!MarkModelCooldown
  <2>4. Zcode!Put(t, zcall[c].pair, Zcode!NewEntry(zcall[c])) = Put(t, zcall[c].pair, Zcode!NewEntry(zcall[c]))
    BY SameTable
  <2> QED  BY <2>3, <2>4
<1>3. ASSUME NEW c \in Callers, Zcode!ModelCoolingUntil(c)
      PROVE  table' = Read(table, zcall[c].pair, zcall[c].now)
  <2>1. Zcode!Read(table, zcall[c].pair, zcall[c].now) = Read(table, zcall[c].pair, zcall[c].now)
    BY SameTable
  <2> QED  BY <1>3, <2>1 DEF Zcode!ModelCoolingUntil
<1>4. ASSUME NEW a, NEW m, Zcode!ClearModelCooldown(a, m)
      PROVE  table' = ClearedAt(table, a, m, NoName)
  <2>1. Zcode!ClearedAt(table, a, m, NoName) = ClearedAt(table, a, m, NoName)
    BY SameTable
  <2> QED  BY <1>4, <2>1 DEF Zcode!ClearModelCooldown
<1> QED  BY <1>1, <1>2, <1>3, <1>4

\* The inductive invariant: the types, and the table within its bound.
ZcodeInv == Zcode!TypeOK /\ Fits(table)

LEMMA ZcodeInductive == (Zcode!Init => ZcodeInv) /\ (ZcodeInv /\ [Zcode!Next]_Zcode!vars => ZcodeInv')
<1> USE WorkbuddyGateAssumption, CooldownsAssumption DEF ZcodeInv, Zcode!Entry, Zcode!Reasons, Zcode!TTL
<1>1. Zcode!Init => ZcodeInv
  <2> SUFFICES ASSUME Zcode!Init PROVE ZcodeInv
    OBVIOUS
  <2>1. DOMAIN table = {}
    BY ZcodeActions DEF EmptyTable
  <2>2. Fits(table)
    BY <2>1, FS_EmptySet, MaxEntriesAssumption DEF Fits
  <2> QED  BY <2>1, <2>2 DEF Zcode!Init, Zcode!TypeOK, Zcode!Calls
<1>2. ZcodeInv /\ [Zcode!Next]_Zcode!vars => ZcodeInv'
  <2> SUFFICES ASSUME Zcode!TypeOK, Fits(table), [Zcode!Next]_Zcode!vars
               PROVE  Zcode!TypeOK' /\ Fits(table')
    OBVIOUS
  <2> USE DEF Zcode!TypeOK
  <2>1. ASSUME NEW c \in Callers, NEW a \in ZcodeAuths \cup {NoName},
               NEW m \in Models \cup {NoName}, NEW kind \in Zcode!FailureKinds,
               Zcode!RecordUpstreamFailure(c, a, m, kind)
        PROVE  Zcode!TypeOK' /\ Fits(table')
    BY <2>1 DEF Zcode!RecordUpstreamFailure, Zcode!Calls, Zcode!Pairs, Zcode!ReasonOf
  <2>2. ASSUME NEW c \in Callers, Zcode!MarkModelCooldown(c)
        PROVE  Zcode!TypeOK' /\ Fits(table')
    <3> DEFINE s == Swept(table, zcall[c].now)
    <3>1. /\ zcall[c].pair \in Zcode!Pairs
          /\ zcall[c].reason \in Zcode!Reasons
          /\ zcall[c].now \in Nat
      BY <2>2 DEF Zcode!MarkModelCooldown, Zcode!Calls, Zcode!Idle
    <3>2. /\ Zcode!NewEntry(zcall[c]) \in Zcode!Entry
          /\ Zcode!NewEntry(zcall[c]).until = Zcode!NewEntry(zcall[c]).updated + Zcode!TTL(Zcode!NewEntry(zcall[c]).reason)
      BY <3>1 DEF Zcode!NewEntry
    <3>3. PICK u \in MadeRoom(s) : table' = Put(u, zcall[c].pair, Zcode!NewEntry(zcall[c]))
      BY <2>2, ZcodeActions
    <3>4. /\ Fits(s)
          /\ DOMAIN s \subseteq DOMAIN table
          /\ \A p \in DOMAIN s : s[p] = table[p]
      BY RestrictFits DEF Swept
    <3>5. /\ HasRoom(u)
          /\ DOMAIN u \subseteq DOMAIN s
          /\ \A p \in DOMAIN u : u[p] = s[p]
      <4> HIDE DEF s
      <4> QED  BY <3>3, <3>4, MadeRoomHasRoom
    <3> HIDE DEF s
    <3>6. /\ Fits(table')
          /\ DOMAIN table' = DOMAIN u \cup {zcall[c].pair}
          /\ table'[zcall[c].pair] = Zcode!NewEntry(zcall[c])
          /\ \A q \in DOMAIN u \ {zcall[c].pair} : table'[q] = u[q]
      <4>1. Fits(Put(u, zcall[c].pair, Zcode!NewEntry(zcall[c])))
        BY ONLY <3>5, PutFits
      <4>2. Fits(table')
        BY ONLY <4>1, <3>3
      <4> QED  BY <4>2, <3>3 DEF Put
    <3>7. DOMAIN table' \subseteq Zcode!Pairs
      BY <3>1, <3>4, <3>5, <3>6
    <3>8. \A p \in DOMAIN table' :
            table'[p] \in Zcode!Entry /\ table'[p].until = table'[p].updated + Zcode!TTL(table'[p].reason)
      <4> SUFFICES ASSUME NEW p \in DOMAIN table'
                   PROVE  table'[p] \in Zcode!Entry /\
                          table'[p].until = table'[p].updated + Zcode!TTL(table'[p].reason)
        OBVIOUS
      <4>1. CASE p = zcall[c].pair
        <5>1. table'[p] = Zcode!NewEntry(zcall[c])
          BY <4>1, <3>6
        <5> QED  BY ONLY <5>1, <3>2
      <4>2. CASE p # zcall[c].pair
        <5>1. table'[p] = table[p] /\ p \in DOMAIN table
          BY <4>2, <3>4, <3>5, <3>6
        <5> QED  BY <5>1
      <4> QED  BY <4>1, <4>2
    <3>9. zclock' \in Nat /\ zcall' \in [Callers -> Zcode!Calls]
      BY <2>2 DEF Zcode!MarkModelCooldown, Zcode!Calls
    <3> QED  BY <3>6, <3>7, <3>8, <3>9
  <2>3. ASSUME NEW c \in Callers, NEW p \in Zcode!Pairs, Zcode!QueryStart(c, p)
        PROVE  Zcode!TypeOK' /\ Fits(table')
    BY <2>3 DEF Zcode!QueryStart, Zcode!Calls
  <2>4. ASSUME NEW S, S \subseteq DOMAIN table, table' = Restrict(table, S),
               zclock' = zclock, zcall' \in [Callers -> Zcode!Calls]
        PROVE  Zcode!TypeOK' /\ Fits(table')
    <3>1. /\ Fits(table') /\ DOMAIN table' = S
          /\ \A p \in S : table'[p] = table[p]
      BY <2>4, RestrictFits
    <3> QED  BY <2>4, <3>1
  <2>5. ASSUME NEW c \in Callers, Zcode!ModelCoolingUntil(c)
        PROVE  Zcode!TypeOK' /\ Fits(table')
    <3>1. zclock' = zclock /\ zcall' \in [Callers -> Zcode!Calls]
      BY <2>5 DEF Zcode!ModelCoolingUntil, Zcode!Calls
    <3>2. CASE table' = table
      BY <3>1, <3>2
    <3>3. CASE table' = Restrict(table, DOMAIN table \ {zcall[c].pair})
      <4> DEFINE kept == DOMAIN table \ {zcall[c].pair}
      <4>1. kept \subseteq DOMAIN table /\ table' = Restrict(table, kept)
        BY <3>3
      <4> HIDE DEF kept
      <4> QED  BY <2>4, <3>1, <4>1
    <3>4. table' = Read(table, zcall[c].pair, zcall[c].now)
      BY <2>5, ZcodeActions
    <3>5. table' = table \/ table' = Restrict(table, DOMAIN table \ {zcall[c].pair})
      BY ONLY <3>4 DEF Read, Without
    <3> QED  BY <3>2, <3>3, <3>5
  <2>6. ASSUME NEW a \in ZcodeAuths \cup {NoName}, NEW m \in Models \cup {NoName},
               Zcode!ClearModelCooldown(a, m)
        PROVE  Zcode!TypeOK' /\ Fits(table')
    <3>1. /\ table' = ClearedAt(table, a, m, NoName)
          /\ zclock' = zclock /\ zcall' \in [Callers -> Zcode!Calls]
      BY <2>6, ZcodeActions DEF Zcode!ClearModelCooldown
    <3> DEFINE kept == {p \in DOMAIN table : ~ (p[1] = a /\ m \in {p[2], NoName})}
    <3>2. kept \subseteq DOMAIN table /\ table' = Restrict(table, kept)
      BY <3>1 DEF ClearedAt
    <3> HIDE DEF kept
    <3> QED  BY <2>4, <3>1, <3>2
  <2>7. CASE Zcode!Tick
    BY <2>7 DEF Zcode!Tick
  <2>8. CASE UNCHANGED Zcode!vars
    BY <2>8 DEF Zcode!vars
  <2> QED  BY <2>1, <2>2, <2>3, <2>5, <2>6, <2>7, <2>8 DEF Zcode!Next
<1> QED  BY <1>1, <1>2

\* The bound holds because no critical section adds an entry without having
\* made room for it first: cooldown.go:125-145 run under one cooldownMu.
THEOREM CooldownBounded == Zcode!Spec => [](Zcode!TypeOK /\ BoundedTable)
<1>1. ZcodeInv => Zcode!TypeOK /\ BoundedTable
  BY SameTable DEF ZcodeInv, BoundedTable, Zcode!BoundedTable
<1> QED  BY <1>1, ZcodeInductive, PTL DEF Zcode!Spec

-----------------------------------------------------------------------------
\* A stamp is never ahead of the clock, however late its call takes the lock.
ZcodeStampsPast == \A c \in Callers : zcall[c].op # "idle" => zcall[c].now <= zclock

LEMMA ZcodeStampsStep == ZcodeInv /\ ZcodeStampsPast /\ [Zcode!Next]_Zcode!vars => ZcodeStampsPast'
<1> SUFFICES ASSUME ZcodeInv, ZcodeStampsPast, [Zcode!Next]_Zcode!vars, NEW d \in Callers, zcall'[d].op # "idle"
             PROVE  zcall'[d].now <= zclock'
  BY DEF ZcodeStampsPast
<1>0. zclock \in Nat /\ zcall \in [Callers -> Zcode!Calls] /\ (zcall[d].op # "idle" => zcall[d].now \in Nat)
  BY DEF ZcodeInv, Zcode!TypeOK, Zcode!Calls, Zcode!Idle
<1>1. CASE \E c \in Callers, a \in ZcodeAuths \cup {NoName}, m \in Models \cup {NoName},
             kind \in Zcode!FailureKinds : Zcode!RecordUpstreamFailure(c, a, m, kind)
  BY <1>0, <1>1 DEF Zcode!RecordUpstreamFailure, ZcodeStampsPast
<1>2. CASE \E c \in Callers, p \in Zcode!Pairs : Zcode!QueryStart(c, p)
  BY <1>0, <1>2 DEF Zcode!QueryStart, ZcodeStampsPast
<1>3. CASE \E c \in Callers : Zcode!MarkModelCooldown(c) \/ Zcode!ModelCoolingUntil(c)
  BY <1>0, <1>3 DEF Zcode!MarkModelCooldown, Zcode!ModelCoolingUntil, Zcode!Idle, ZcodeStampsPast
<1>4. CASE \/ \E a \in ZcodeAuths \cup {NoName}, m \in Models \cup {NoName} : Zcode!ClearModelCooldown(a, m)
           \/ Zcode!Tick \/ UNCHANGED Zcode!vars
  BY <1>0, <1>4 DEF Zcode!ClearModelCooldown, Zcode!Tick, Zcode!vars, ZcodeStampsPast
<1> QED  BY <1>1, <1>2, <1>3, <1>4 DEF Zcode!Next

\* What a step does to a pair that is still cooling.
LEMMA ZcodeLiveStep ==
  ASSUME ZcodeInv, ZcodeStampsPast, [Zcode!Next]_Zcode!vars,
         NEW p \in DOMAIN table \ DOMAIN table', CoolingAt(table, p, zclock)
  PROVE  \/ \E a \in ZcodeAuths, m \in Models \cup {NoName} :
               Zcode!ClearModelCooldown(a, m) /\ p[1] = a /\ m \in {p[2], NoName}
         \/ /\ Cardinality(DOMAIN table) = MaxEntries
            /\ \A q \in DOMAIN table : /\ CoolingAt(table, q, zclock)
                                       /\ table[q].until >= table[p].until
<1>0. /\ zclock \in Nat /\ Fits(table) /\ \A q \in DOMAIN table : table[q].until \in Nat
      /\ \A c \in Callers : zcall[c].op # "idle" => zcall[c].now \in Nat
  BY DEF ZcodeInv, Zcode!TypeOK, Zcode!Entry, Zcode!Calls, Zcode!Idle
<1>1. ASSUME NEW c \in Callers, Zcode!MarkModelCooldown(c)
      PROVE  /\ Cardinality(DOMAIN table) = MaxEntries
             /\ \A q \in DOMAIN table : /\ CoolingAt(table, q, zclock)
                                        /\ table[q].until >= table[p].until
  <2>1. PICK u \in MadeRoom(Swept(table, zcall[c].now)) : table' = Put(u, zcall[c].pair, Zcode!NewEntry(zcall[c]))
    BY <1>1, ZcodeActions
  <2>2. p \notin DOMAIN u
    BY <2>1 DEF Put
  <2>3. zcall[c].now \in Nat /\ zcall[c].now <= zclock
    BY <1>0, <1>1 DEF Zcode!MarkModelCooldown, ZcodeStampsPast
  <2> QED  BY <1>0, <2>2, <2>3, MarkSparesLive
<1>2. ASSUME NEW c \in Callers, Zcode!ModelCoolingUntil(c) PROVE FALSE
  <2>1. zcall[c].now \in Nat /\ zcall[c].now <= zclock
    BY <1>0, <1>2 DEF Zcode!ModelCoolingUntil, ZcodeStampsPast
  <2>2. p = zcall[c].pair /\ ~ CoolingAt(table, p, zcall[c].now)
    BY <1>2, ZcodeActions DEF Read, Without, Restrict
  <2> QED  BY <1>0, <2>1, <2>2 DEF CoolingAt
<1>3. ASSUME NEW a \in ZcodeAuths \cup {NoName}, NEW m \in Models \cup {NoName}, Zcode!ClearModelCooldown(a, m)
      PROVE  a \in ZcodeAuths /\ p[1] = a /\ m \in {p[2], NoName}
  <2>1. a # NoName /\ table' = ClearedAt(table, a, m, NoName)
    BY <1>3, ZcodeActions DEF Zcode!ClearModelCooldown
  <2> QED  BY <2>1 DEF ClearedAt, Restrict
<1>4. CASE \E c \in Callers : Zcode!MarkModelCooldown(c)
  BY <1>1, <1>4
<1>5. CASE \E c \in Callers : Zcode!ModelCoolingUntil(c)
  BY <1>2, <1>5
<1>6. CASE \E a \in ZcodeAuths \cup {NoName}, m \in Models \cup {NoName} : Zcode!ClearModelCooldown(a, m)
  BY <1>3, <1>6
<1>7. CASE table' = table
  BY <1>7
<1> QED
  BY <1>4, <1>5, <1>6, <1>7 DEF Zcode!Next, Zcode!RecordUpstreamFailure, Zcode!QueryStart, Zcode!Tick, Zcode!vars

\* Marks, queries and clears take the lock in any order and with stale stamps;
\* a pair that is still cooling is lost to the panel or to a table full of live
\* entries only (cooldown.go:125-139, 164-167).
THEOREM CoolingPairsKept == Zcode!Spec => LiveEntriesKept
<1>1. Zcode!Init => ZcodeStampsPast
  BY DEF Zcode!Init, ZcodeStampsPast, Zcode!Idle
<1>2. ZcodeInv /\ ZcodeStampsPast /\ [Zcode!Next]_Zcode!vars =>
        [\A p \in DOMAIN table \ DOMAIN table' :
           Zcode!CoolingAt(table, p, zclock) =>
             \/ \E a \in ZcodeAuths, m \in Models \cup {NoName} :
                  Zcode!ClearModelCooldown(a, m) /\ p[1] = a /\ m \in {p[2], NoName}
             \/ /\ Zcode!Cardinality(DOMAIN table) = MaxEntries
                /\ \A q \in DOMAIN table : /\ Zcode!CoolingAt(table, q, zclock)
                                           /\ table[q].until >= table[p].until]_Zcode!vars
  <2>1. \A p : Zcode!CoolingAt(table, p, zclock) <=> CoolingAt(table, p, zclock)
    BY SameTable
  <2>2. Zcode!Cardinality(DOMAIN table) = Cardinality(DOMAIN table)
    BY SameParts
  <2> QED  BY <2>1, <2>2, ZcodeLiveStep
<1> QED  BY <1>1, <1>2, ZcodeInductive, ZcodeStampsStep, PTL DEF Zcode!Spec, LiveEntriesKept, Zcode!LiveEntriesKept
================================================================================
