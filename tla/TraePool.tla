------------------------------- MODULE TraePool -------------------------------
(***************************************************************************)
(* The account pool of the trae plugin (plugins/trae/pool/pool.go) and     *)
(* everything that writes it: the executor with its quota-freeze gate      *)
(* (main.go), the daily scan and token refresh (scheduler/scheduler.go)    *)
(* and the panel (management.go).                                          *)
(*                                                                         *)
(* Every pool method holds the pool's mutex and is one step; the HTTP      *)
(* calls between two methods are not, so a request, a scan or a panel      *)
(* refresh may act on an answer that is no longer true.  The pool's credit *)
(* score is left out: routing is the host's, nothing decides by it.        *)
(***************************************************************************)
EXTENDS Integers

CONSTANTS Uids,       \* CN/SOLO accounts, all of them already in the pool
          Requests,   \* concurrent executor calls
          NoUid,
          DayLen,     \* 24 h
          DaySpans,   \* how long a local day may last: 24 h, but 23 or 25 with DST
          SoftTTL,    \* the 60 s of a 429 or a 404
          ErrorTTL,   \* the 10 min after consecutive errors
          Threshold,  \* consecutive errors that cool an account
          MaxTime     \* bound of the clock, for TLC only

VARIABLES clock,
          today,     \* the last local midnight
          tomorrow,  \* the next one, by the calendar
          pool,    \* byUID
          cred,    \* cred[u]: the session behind the stored credential
          remain,  \* upstream: the account's pack has something left
          cached,  \* accountCache: the panel's last positive snapshot, if any
          req,     \* req[r]: where executor call r is
          scan,    \* RunCheckinNow, serialised by runMu
          panel    \* refreshAccountCredits between its calls

time == <<clock, today, tomorrow>>

vars == <<time, pool, cred, remain, cached, req, scan, panel>>

FreezeReasons == {"chat", "scan"}                \* IsQuotaFreezeReason
MidnightReasons == FreezeReasons \cup {"panel"}  \* stamped with UntilNextMidnight
Reasons == MidnightReasons \cup {"none", "soft", "errors", "dead"}

Entry == [until : Nat, reason : Reasons, errs : 0 .. Threshold - 1, disabled : BOOLEAN]

Fresh == [until |-> 0, reason |-> "none", errs |-> 0, disabled |-> FALSE]

\* UntilNextMidnight: today's midnight plus 24 h.
NextMidnightOneDay == clock + DayLen
NextMidnight == today + DayLen

Cooling(u) == pool[u].until > clock
Frozen(e) == e.until > clock /\ e.reason \in FreezeReasons
QuotaFreeze(u) == Frozen(pool[u])

\* The pool methods, on one entry.
Cooldown(e, end, reason) == [e EXCEPT !.until = end, !.reason = reason, !.errs = 0]
Disable(e) == [e EXCEPT !.disabled = TRUE, !.reason = "dead"]
Release(e) == [e EXCEPT !.until = 0, !.reason = "none", !.errs = 0]
ReenableIfCredits(e, some) == IF some /\ ~ e.disabled THEN Release(e) ELSE e
NoteError(e, end) ==
  IF e.errs + 1 >= Threshold THEN Cooldown(e, end, "errors") ELSE [e EXCEPT !.errs = @ + 1]
NoteSuccess(e) == [e EXCEPT !.errs = 0]

\* The upstream's verdicts that reach applyCooldown; "request" stands for the
\* two kinds that blame the request and leave the account alone.
Verdicts == {"plan", "soft", "dead", "error", "request"}

ApplyCooldown(e, kind) ==
  CASE kind = "plan"    -> Cooldown(e, NextMidnight, "chat")
    [] kind = "soft"    -> Cooldown(e, clock + SoftTTL, "soft")
    [] kind = "dead"    -> Disable(e)
    [] kind = "error"   -> NoteError(e, clock + ErrorTTL)
    [] kind = "request" -> e

Request == [pc : {"idle", "probe", "thaw", "chat", "stream"}, uid : Uids \cup {NoUid},
            cred : {"live", "dead"}, faulted : BOOLEAN]
AtRest == [pc |-> "idle", uid |-> NoUid, cred |-> "live", faulted |-> FALSE]

\* What ent_usage says of a pack: its remain, or nothing that can be read.
Answers(u) == {IF remain[u] THEN "some" ELSE "zero", "unknown"}

Job == [pc : {"idle", "read", "store", "cool"}, uid : Uids \cup {NoUid},
        answer : {"some", "zero", "unknown"}]
NoJob == [pc |-> "idle", uid |-> NoUid, answer |-> "unknown"]

-----------------------------------------------------------------------------
Init ==
  /\ clock = 0 /\ today = 0 /\ tomorrow \in DaySpans
  /\ pool = [u \in Uids |-> Fresh]
  /\ cred = [u \in Uids |-> "live"]
  /\ remain \in [Uids -> BOOLEAN]
  /\ cached = [u \in Uids |-> FALSE]
  /\ req = [r \in Requests |-> AtRest]
  /\ scan = NoJob
  /\ panel = NoJob

\* A call arrives; quotaGate lets a credential through unless it is frozen.
Arrive(r, u) ==
  /\ req[r].pc = "idle"
  /\ req' = [req EXCEPT ![r] = [pc |-> IF QuotaFreeze(u) THEN "probe" ELSE "chat",
                                uid |-> u, cred |-> cred[u], faulted |-> FALSE]]
  /\ UNCHANGED <<time, pool, cred, remain, cached, scan, panel>>

\* The probe of a frozen credential answers: zero refuses the call, a
\* positive remain goes on to thaw, anything else passes.
Probe(r, answer) ==
  /\ req[r].pc = "probe" /\ answer \in Answers(req[r].uid)
  /\ req' = [req EXCEPT ![r] = IF answer = "zero" THEN AtRest
                               ELSE [@ EXCEPT !.pc = IF answer = "some" THEN "thaw" ELSE "chat"]]
  /\ UNCHANGED <<time, pool, cred, remain, cached, scan, panel>>

ProbeThaws(r) ==
  /\ req[r].pc = "thaw"
  /\ pool' = [pool EXCEPT ![req[r].uid] = ReenableIfCredits(@, TRUE)]
  /\ req' = [req EXCEPT ![r].pc = "chat"]
  /\ UNCHANGED <<time, cred, remain, cached, scan, panel>>

\* The chat call fails: a transport error says nothing of the account (NoVerdict),
\* a refusal is classified and recorded.
NoVerdict(r) ==
  /\ req[r].pc = "chat"
  /\ req' = [req EXCEPT ![r] = AtRest]
  /\ UNCHANGED <<time, pool, cred, remain, cached, scan, panel>>

Refused(r, kind) ==
  /\ req[r].pc = "chat"
  /\ kind = "dead" => "dead" \in {req[r].cred, cred[req[r].uid]}
  /\ pool' = [pool EXCEPT ![req[r].uid] = ApplyCooldown(@, kind)]
  /\ req' = [req EXCEPT ![r] = AtRest]
  /\ UNCHANGED <<time, cred, remain, cached, scan, panel>>

\* The chat call is accepted; its frames follow.  An error frame is recorded
\* when it is converted, and the call ends without NoteSuccess.
StreamOpens(r) ==
  /\ req[r].pc = "chat"
  /\ req' = [req EXCEPT ![r].pc = "stream"]
  /\ UNCHANGED <<time, pool, cred, remain, cached, scan, panel>>

StreamFaults(r, kind) ==
  /\ req[r].pc = "stream" /\ kind \in {"plan", "error", "request"}
  /\ pool' = [pool EXCEPT ![req[r].uid] = ApplyCooldown(@, kind)]
  /\ req' = [req EXCEPT ![r].faulted = TRUE]
  /\ UNCHANGED <<time, cred, remain, cached, scan, panel>>

StreamEnds(r) ==
  /\ req[r].pc = "stream"
  /\ pool' = IF req[r].faulted THEN pool
             ELSE [pool EXCEPT ![req[r].uid] = NoteSuccess(@)]
  /\ req' = [req EXCEPT ![r] = AtRest]
  /\ UNCHANGED <<time, cred, remain, cached, scan, panel>>

\* The client is gone: the pump returns at once.
StreamDropped(r) ==
  /\ req[r].pc = "stream"
  /\ req' = [req EXCEPT ![r] = AtRest]
  /\ UNCHANGED <<time, pool, cred, remain, cached, scan, panel>>

\* RunCheckinNow for one account that was not disabled when it was listed:
\* the usage is read, a positive remain thaws, a known zero freezes.
ScanStart(u) ==
  /\ scan.pc = "idle" /\ ~ pool[u].disabled
  /\ scan' = [pc |-> "read", uid |-> u, answer |-> "unknown"]
  /\ UNCHANGED <<time, pool, cred, remain, cached, req, panel>>

ScanFails ==
  /\ scan.pc = "read"
  /\ scan' = NoJob
  /\ UNCHANGED <<time, pool, cred, remain, cached, req, panel>>

ScanReads(answer) ==
  /\ scan.pc = "read" /\ answer \in Answers(scan.uid)
  /\ scan' = [scan EXCEPT !.pc = "store", !.answer = answer]
  /\ UNCHANGED <<time, pool, cred, remain, cached, req, panel>>

ScanStores ==
  /\ scan.pc = "store"
  /\ pool' = [pool EXCEPT ![scan.uid] = ReenableIfCredits(@, scan.answer = "some")]
  /\ scan' = IF scan.answer = "zero" THEN [scan EXCEPT !.pc = "cool"] ELSE NoJob
  /\ UNCHANGED <<time, cred, remain, cached, req, panel>>

ScanCools ==
  /\ scan.pc = "cool"
  /\ pool' = [pool EXCEPT ![scan.uid] = Cooldown(@, NextMidnight, "scan")]
  /\ scan' = NoJob
  /\ UNCHANGED <<time, cred, remain, cached, req, panel>>

\* RunRefreshNow meets a dead session.
RefreshFindsDead(u) ==
  /\ ~ pool[u].disabled /\ cred[u] = "dead"
  /\ pool' = [pool EXCEPT ![u] = Disable(@)]
  /\ UNCHANGED <<time, cred, remain, cached, req, scan, panel>>

\* refreshAccountCredits: read, store the snapshot, cool a known zero with a
\* reason of its own.
PanelReads(u, answer) ==
  /\ panel.pc = "idle" /\ answer \in Answers(u)
  /\ panel' = [pc |-> "store", uid |-> u, answer |-> answer]
  /\ UNCHANGED <<time, pool, cred, remain, cached, req, scan>>

PanelStores ==
  /\ panel.pc = "store"
  /\ cached' = [cached EXCEPT ![panel.uid] = panel.answer = "some"]
  /\ panel' = IF panel.answer = "zero" THEN [panel EXCEPT !.pc = "cool"] ELSE NoJob
  /\ UNCHANGED <<time, pool, cred, remain, req, scan>>

PanelCools ==
  /\ panel.pc = "cool"
  /\ pool' = [pool EXCEPT ![panel.uid] = Cooldown(@, NextMidnight, "panel")]
  /\ panel' = NoJob
  /\ UNCHANGED <<time, cred, remain, cached, req, scan>>

\* handleManualCheckin: the score is the cached snapshot; an accepted claim
\* voids the snapshot for the next reader.
ManualCheckin(u, accepted) ==
  /\ pool' = [pool EXCEPT ![u] = ReenableIfCredits(@, cached[u])]
  /\ cached' = [cached EXCEPT ![u] = @ /\ ~ accepted]
  /\ UNCHANGED <<time, cred, remain, req, scan, panel>>

\* handleCooldownRelease.
ManualRelease(u) ==
  /\ pool' = [pool EXCEPT ![u] = Release(@)]
  /\ UNCHANGED <<time, cred, remain, cached, req, scan, panel>>

\* A login or an import of a known account: Add swaps the credential and
\* keeps the entry's state.
ReLogin(u) ==
  /\ cred' = [cred EXCEPT ![u] = "live"]
  /\ UNCHANGED <<time, pool, remain, cached, req, scan, panel>>

\* The upstream: a session dies, a pack is used up or refilled.
SessionDies(u) ==
  /\ cred' = [cred EXCEPT ![u] = "dead"]
  /\ UNCHANGED <<time, pool, remain, cached, req, scan, panel>>

Upstream(u) ==
  /\ remain' = [remain EXCEPT ![u] = ~ @]
  /\ UNCHANGED <<time, pool, cred, cached, req, scan, panel>>

Tick ==
  /\ clock < MaxTime
  /\ clock' = clock + 1
  /\ IF clock' = tomorrow
     THEN today' = tomorrow /\ \E span \in DaySpans : tomorrow' = tomorrow + span
     ELSE UNCHANGED <<today, tomorrow>>
  /\ UNCHANGED <<pool, cred, remain, cached, req, scan, panel>>

Executor(r) ==
  \/ \E u \in Uids : Arrive(r, u)
  \/ \E answer \in {"some", "zero", "unknown"} : Probe(r, answer)
  \/ ProbeThaws(r)
  \/ NoVerdict(r)
  \/ \E kind \in Verdicts : Refused(r, kind) \/ StreamFaults(r, kind)
  \/ StreamOpens(r)
  \/ StreamEnds(r)
  \/ StreamDropped(r)

Scheduler ==
  \/ \E u \in Uids : ScanStart(u) \/ RefreshFindsDead(u)
  \/ ScanFails
  \/ \E answer \in {"some", "zero", "unknown"} : ScanReads(answer)
  \/ ScanStores
  \/ ScanCools

Panel ==
  \/ \E u \in Uids, answer \in {"some", "zero", "unknown"} : PanelReads(u, answer)
  \/ PanelStores
  \/ PanelCools
  \/ \E u \in Uids, accepted \in BOOLEAN : ManualCheckin(u, accepted)
  \/ \E u \in Uids : ManualRelease(u) \/ ReLogin(u)

Next ==
  \/ \E r \in Requests : Executor(r)
  \/ Scheduler
  \/ Panel
  \/ \E u \in Uids : SessionDies(u) \/ Upstream(u)
  \/ Tick

Spec == Init /\ [][Next]_vars

-----------------------------------------------------------------------------
\* The variables have their types; in particular the error count never
\* reaches the threshold, whose NoteError turns it into a cooldown.
TypeOK ==
  /\ clock \in Nat /\ today \in Nat /\ tomorrow \in Nat
  /\ pool \in [Uids -> Entry]
  /\ cred \in [Uids -> {"live", "dead"}]
  /\ remain \in [Uids -> BOOLEAN] /\ cached \in [Uids -> BOOLEAN]
  /\ req \in [Requests -> Request]
  /\ \A r \in Requests : req[r].pc # "idle" => req[r].uid \in Uids
  /\ scan \in Job /\ (scan.pc # "idle" => scan.uid \in Uids)
  /\ panel \in Job /\ (panel.pc # "idle" => panel.uid \in Uids)

\* "Until the next local midnight; a fixed 12 h would freeze an account past a
\* refill" (main.go:2491): while an exhausted account cools, whoever stamped
\* it and however often, its window ends at the coming midnight, not before
\* and not a day later.
FreezeEndsAtMidnight ==
  \A u \in Uids :
    Cooling(u) /\ pool[u].reason \in MidnightReasons => pool[u].until = tomorrow

\* "The 1005/4008 cooldown lasts to the next local midnight" (main.go:2491,
\* main.go:2035): no other call's late 429 or error brings it forward.
\* The code does not keep this; see the README, section 7.
FreezeOutlivesLateAnswers ==
  [][ \A r \in Requests, kind \in Verdicts \ {"plan", "dead"} :
        Refused(r, kind) /\ QuotaFreeze(req[r].uid) => Frozen(pool'[req[r].uid]) ]_vars
=============================================================================
