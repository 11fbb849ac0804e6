---------------------------- MODULE ZcodeCooldown ----------------------------
(***************************************************************************)
(* The per-(auth, model) throttling of the zcode plugin                    *)
(* (plugins/zcode/cooldown.go).                                            *)
(*                                                                         *)
(* Executor goroutines record failures, the catalog filter and the         *)
(* scheduler query pairs, the panel clears them.  markModelCooldown and    *)
(* modelCoolingUntil read the clock BEFORE they take cooldownMu, so every  *)
(* such call is two steps here: the stamp, then the critical section.      *)
(***************************************************************************)
EXTENDS CooldownTable

CONSTANTS Auths,         \* auth IDs of the configured credentials
          Models,        \* upstream model IDs, already normalised
          NoName,        \* the empty string: a call with a missing half
          Callers,       \* goroutines that may be inside the table's API
          RateLimitTTL,  \* modelCooldownRateLimit
          UnknownTTL,    \* modelCooldownUnknown
          MaxTime        \* bound of the clock, for TLC only

VARIABLES clock,  \* wall time
          table,  \* cooldownTable
          call    \* call[c]: the API call goroutine c is inside, after its stamp

vars == <<clock, table, call>>

Pairs == Auths \X Models

Reasons == {"rate_limit", "upstream_error"}

Entry == [reason : Reasons, until : Nat, updated : Nat]

Idle == [op |-> "idle"]

Calls == {Idle}
  \cup [op : {"mark"}, pair : Pairs, reason : Reasons, now : Nat]
  \cup [op : {"query"}, pair : Pairs, now : Nat]

FailureKinds == {"hard_quota", "rate_limit", "empty_stream", "other"}

ReasonOf(kind) == IF kind = "rate_limit" THEN "rate_limit" ELSE "upstream_error"

TTL(reason) == IF reason = "rate_limit" THEN RateLimitTTL ELSE UnknownTTL

NewEntry(c) == [reason  |-> c.reason,
                until   |-> c.now + TTL(c.reason),
                updated |-> c.now]

-----------------------------------------------------------------------------
Init ==
  /\ clock = 0
  /\ table = EmptyTable
  /\ call = [c \in Callers |-> Idle]

\* recordUpstreamFailure up to the lock of markModelCooldown: hard quota and
\* unclassified failures leave the table alone, so does a call with an empty
\* half; a soft rate limit or an empty stream stamps the clock.
RecordUpstreamFailure(c, a, m, kind) ==
  /\ call[c] = Idle
  /\ kind \in {"rate_limit", "empty_stream"}
  /\ a # NoName /\ m # NoName
  /\ call' = [call EXCEPT ![c] = [op |-> "mark", pair |-> <<a, m>>,
                                  reason |-> ReasonOf(kind), now |-> clock]]
  /\ UNCHANGED <<clock, table>>

\* The critical section of markModelCooldown.
MarkModelCooldown(c) ==
  /\ call[c].op = "mark"
  /\ \E t \in MadeRoom(Swept(table, call[c].now)) :
       table' = Put(t, call[c].pair, NewEntry(call[c]))
  /\ call' = [call EXCEPT ![c] = Idle]
  /\ UNCHANGED clock

\* modelCoolingUntil up to its lock.
QueryStart(c, p) ==
  /\ call[c] = Idle
  /\ call' = [call EXCEPT ![c] = [op |-> "query", pair |-> p, now |-> clock]]
  /\ UNCHANGED <<clock, table>>

\* The critical section of modelCoolingUntil.
ModelCoolingUntil(c) ==
  /\ call[c].op = "query"
  /\ table' = Read(table, call[c].pair, call[c].now)
  /\ call' = [call EXCEPT ![c] = Idle]
  /\ UNCHANGED clock

\* clearModelCooldown, the panel's button.  It reads no clock: one step.
ClearModelCooldown(a, m) ==
  /\ a # NoName
  /\ table' = ClearedAt(table, a, m, NoName)
  /\ UNCHANGED <<clock, call>>

Tick ==
  /\ clock < MaxTime
  /\ clock' = clock + 1
  /\ UNCHANGED <<table, call>>

Next ==
  \/ \E c \in Callers, a \in Auths \cup {NoName}, m \in Models \cup {NoName},
        kind \in FailureKinds : RecordUpstreamFailure(c, a, m, kind)
  \/ \E c \in Callers : MarkModelCooldown(c)
  \/ \E c \in Callers, p \in Pairs : QueryStart(c, p)
  \/ \E c \in Callers : ModelCoolingUntil(c)
  \/ \E a \in Auths \cup {NoName}, m \in Models \cup {NoName} :
       ClearModelCooldown(a, m)
  \/ Tick

Spec == Init /\ [][Next]_vars

-----------------------------------------------------------------------------
\* The three variables have their types, and every entry's end lies after
\* the instant it was recorded at by the TTL of its reason, never more.
TypeOK ==
  /\ clock \in Nat
  /\ DOMAIN table \subseteq Pairs
  /\ \A p \in DOMAIN table :
       table[p] \in Entry /\ table[p].until = table[p].updated + TTL(table[p].reason)
  /\ call \in [Callers -> Calls]

\* "modelCooldownMaxEntries bounds the table so a hostile or buggy upstream
\* cannot grow it without limit" (cooldown.go:31): in whatever order marks,
\* stale queries and clears take the lock, the table never exceeds the bound.
BoundedTable ==
  Fits(table)

\* A pair that is still cooling loses its entry in one of two ways only: an
\* operator clears it, or a mark finds the table full of entries that are
\* ALL still live, this one expiring soonest.  No sweep or query made with a
\* stale clock drops a live entry, and no live entry is sacrificed while an
\* expired one is there to evict (cooldown.go:125-139, 164-167).
LiveEntriesKept ==
  [][ \A p \in DOMAIN table \ DOMAIN table' :
        CoolingAt(table, p, clock) =>
          \/ \E a \in Auths, m \in Models \cup {NoName} :
               ClearModelCooldown(a, m) /\ p[1] = a /\ m \in {p[2], NoName}
          \/ /\ Cardinality(DOMAIN table) = MaxEntries
             /\ \A q \in DOMAIN table : /\ CoolingAt(table, q, clock)
                                        /\ table[q].until >= table[p].until ]_vars
=============================================================================
