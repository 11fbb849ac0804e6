---------------------------- MODULE CooldownTable ----------------------------
(***************************************************************************)
(* The bounded (auth, model) table that the zcode, qoder and workbuddy     *)
(* plugins each keep behind their own cooldownMu: what its critical        *)
(* sections do to the table, as operators on a partial function from       *)
(* pairs to entries.  The text of the three cooldown.go files is the same  *)
(* here; the lines named in the map are zcode's.                           *)
(***************************************************************************)
EXTENDS Integers, FiniteSets, Functions

CONSTANT MaxEntries   \* modelCooldownMaxEntries

ASSUME MaxEntriesAssumption == MaxEntries \in Nat \ {0}

EmptyTable == [p \in {} |-> 0]

Without(t, p) == Restrict(t, DOMAIN t \ {p})

Put(t, p, e) == [q \in DOMAIN t \cup {p} |-> IF q = p THEN e ELSE t[q]]

\* The pair may not be routed to at time now.
CoolingAt(t, p, now) == p \in DOMAIN t /\ t[p].until > now

\* cooldownSweepLocked, with the clock value its caller read before locking.
Swept(t, now) == Restrict(t, {p \in DOMAIN t : t[p].until > now})

\* The victims a full table may lose; map order breaks ties, so any minimum.
LatestPairs(t) == {p \in DOMAIN t : \A q \in DOMAIN t : t[q].until <= t[p].until}
Soonest(t) == {p \in DOMAIN t : \A q \in DOMAIN t : t[p].until <= t[q].until}

\* The tables a mark may insert into: t itself, or t without a soonest entry.
MadeRoomLate(t) ==
  IF Cardinality(DOMAIN t) > MaxEntries
  THEN {Without(t, p) : p \in Soonest(t)}
  ELSE {t}
MadeRoom(t) ==
  IF Cardinality(DOMAIN t) >= MaxEntries
  THEN {Without(t, p) : p \in Soonest(t)}
  ELSE {t}

\* The read of modelCoolingUntil: an entry expired at now is dropped.
Read(t, p, now) ==
  IF CoolingAt(t, p, now) THEN t ELSE Without(t, p)

\* clearModelCooldown: one pair, or the whole account when m is the blank.
ClearedAt(t, a, m, blank) ==
  Restrict(t, {p \in DOMAIN t : ~ (p[1] = a /\ m \in {p[2], blank})})

-----------------------------------------------------------------------------
\* The table keeps its bound.
Fits(t) == IsFiniteSet(DOMAIN t) /\ Cardinality(DOMAIN t) <= MaxEntries
=============================================================================
