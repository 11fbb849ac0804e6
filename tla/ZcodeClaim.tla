------------------------------ MODULE ZcodeClaim ------------------------------
(***************************************************************************)
(* The zcode claim scheduler over one account and the pool of captcha      *)
(* parameters it shares with the executor (plugins/zcode:                  *)
(* claim_scheduler.go, claim.go, captcha_pool.go, touch.go, preview.go).   *)
(* A tick reads two lists, claims every plan it found, highest priority    *)
(* first, and lets the worst answer decide how long the account is left    *)
(* alone.  Time is the hold's end, which comes when it comes; a day        *)
(* outlasts a campaign.                                                    *)
(***************************************************************************)
EXTENDS Naturals, Sequences

CONSTANTS Ranked,    \* the plans, highest priority first
          NoPlan,    \* claim_plan_id is not set
          Params,    \* the captcha parameters the panel may mint
          NoParam,   \* the empty parameter
          Capacity,  \* captchaPoolCapacity
          MaxEvents  \* bound of faults and of what happens outside

VARIABLES plan,    \* upstream: each plan's state for the account
          session, \* upstream: the plan JWT is accepted
          spent,   \* upstream: the captcha parameters that were used
          want,    \* claim_plan_id
          hold,    \* what HoldUntil stands for
          kind,    \* the account's last outcome; badge when a person is needed
          pool,    \* captchaPoolState.entries, the oldest first
          stale,   \* the entries of the pool that are older than two hours
          tick,    \* claimSchedulerTick at this account
          events

upstream == <<plan, session, spent>>
vars == <<upstream, want, hold, kind, pool, stale, tick, events>>

Plans == {Ranked[i] : i \in DOMAIN Ranked}
Lists == {"banner", "preview"}
\* The list that shows a plan: the lowest one is in the preview only.
ShownIn(p) == IF p = Ranked[Len(Ranked)] THEN {"preview"} ELSE Lists
PlanStates == {"hidden", "open", "gated", "quota", "closed", "taken"}

\* From the most urgent outcome to the least (claimSeverity).
Severities == <<"login_required", "captcha", "quota_exhausted", "other", "already_claimed", "ok">>
Outcomes == {Severities[i] : i \in DOMAIN Severities}
Severity(o) == CHOOSE i \in DOMAIN Severities : Severities[i] = o

Idle == [at |-> "idle", found |-> {}, unread |-> {}, targets |-> {}, left |-> {}, outs |-> {}]

Init ==
  /\ plan \in [Plans -> {"hidden", "open", "gated", "quota"}]
  /\ session = TRUE /\ spent = {}
  /\ want \in Plans \cup {NoPlan}
  /\ hold = "none" /\ kind = "none"
  /\ pool = <<>> /\ stale = {}
  /\ tick = Idle
  /\ events = 0

Fault == events < MaxEvents /\ events' = events + 1
NoFault == UNCHANGED events

-----------------------------------------------------------------------------
(* The pool.                                                                *)

\* captchaPoolPut: no duplicate of an entry still in the pool; the oldest goes
\* when it is full.
Put(c) == pool' = Append(IF Len(pool) >= Capacity THEN Tail(pool) ELSE pool, c)
Mints(c) ==
  /\ Fault
  /\ \A i \in DOMAIN pool : pool[i] # c
  /\ Put(c) /\ stale' = stale \ {c}
  /\ UNCHANGED <<upstream, want, hold, kind, tick>>

\* captchaPoolTake: the oldest entry not stale; those before it are dropped.
Fresh == {i \in DOMAIN pool : pool[i] \notin stale}
Oldest == CHOOSE i \in Fresh : \A j \in Fresh : i <= j
Taken == IF Fresh = {} THEN NoParam ELSE pool[Oldest]
Rest == IF Fresh = {} THEN <<>> ELSE SubSeq(pool, Oldest + 1, Len(pool))

\* captchaRetryRoute: a chat that was challenged takes one too.
ChatTakes ==
  /\ Fault /\ pool # <<>>
  /\ pool' = Rest
  /\ spent' = spent \cup ({Taken} \ {NoParam})
  /\ UNCHANGED <<plan, session, want, hold, kind, stale, tick>>

-----------------------------------------------------------------------------
(* The tick.                                                                *)

\* An account on hold is skipped.
Begin ==
  /\ tick.at = "idle" /\ hold = "none"
  /\ tick' = [tick EXCEPT !.at = "banner"]
  /\ UNCHANGED <<upstream, want, hold, kind, pool, stale, events>>

Visible(list) == {p \in Plans : list \in ShownIn(p) /\ plan[p] # "hidden"}

\* fetchTouchPlans, then fetchClaimablePreview: what a list that does not read
\* shows is unknown, not none.
Read(list, next) ==
  /\ tick.at = list
  /\ \/ NoFault /\ session
        /\ tick' = [tick EXCEPT !.at = next, !.found = @ \cup Visible(list)]
     \/ (IF session THEN Fault ELSE NoFault)
        /\ tick' = [tick EXCEPT !.at = next, !.unread = @ \cup {list}]
  /\ UNCHANGED <<upstream, want, hold, kind, pool, stale>>

\* claimTargets: the configured plan alone, or all of them.
TargetsFirst == {p \in tick.found : p = Ranked[1] /\ want \in {NoPlan, p}}
Targets == {p \in tick.found : want \in {NoPlan, p}}
\* p has the highest priority of these plans.
First(p, plans) ==
  \E i \in DOMAIN Ranked : Ranked[i] = p /\ \A j \in 1 .. i - 1 : Ranked[j] \notin plans

\* Nothing to claim: no hold; the last outcome goes unless a list was unread.
Select ==
  /\ tick.at = "select"
  /\ IF Targets = {}
     THEN /\ tick' = Idle
          /\ kind' = IF tick.found = {} /\ tick.unread # {} THEN kind ELSE "none"
     ELSE /\ tick' = [tick EXCEPT !.at = "claim", !.targets = Targets, !.left = Targets]
          /\ UNCHANGED kind
  /\ UNCHANGED <<upstream, want, hold, pool, stale, events>>

\* postClaim, with a parameter or without: the upstream's verdict.
Verdict(p, c) ==
  IF ~ session THEN "login_required"
  ELSE CASE plan[p] = "taken" -> "already_claimed"
         [] plan[p] = "quota" -> "quota_exhausted"
         [] plan[p] \in {"hidden", "closed"} -> "other"
         [] plan[p] = "gated" /\ c \in spent \cup {NoParam} -> "captcha"
         [] OTHER -> "ok"
Grants(p, c) == plan' = IF Verdict(p, c) = "ok" THEN [plan EXCEPT ![p] = "taken"] ELSE plan

\* Each target takes a parameter, whether it needs one or not; a claim that is
\* lost on the way there or back counts as failed.
Claim ==
  /\ tick.at = "claim"
  /\ \E p \in tick.left : \E o \in {Verdict(p, Taken), "other"} :
       /\ First(p, tick.left)
       /\ IF o = Verdict(p, Taken) THEN NoFault /\ Grants(p, Taken)
          ELSE Fault /\ (Grants(p, Taken) \/ UNCHANGED plan)
       /\ tick' = [tick EXCEPT !.left = @ \ {p}, !.outs = @ \cup {o}]
  /\ pool' = Rest /\ spent' = spent \cup ({Taken} \ {NoParam})
  /\ UNCHANGED <<session, want, hold, kind, stale>>

\* applyClaimOutcome and foldClaimOutcomes: the worst outcome decides; a list
\* that did not read limits the hold to an hour.
HoldOf(o) == CASE o \in {"ok", "already_claimed"} -> "day"
               [] o = "quota_exhausted" -> "hour"
               [] o = "login_required" -> "login"
               [] OTHER -> "cooldown"
WorstIsBest == CHOOSE o \in tick.outs : \A q \in tick.outs : Severity(o) >= Severity(q)
Worst == CHOOSE o \in tick.outs : \A q \in tick.outs : Severity(o) <= Severity(q)
Fold ==
  /\ tick.at = "claim" /\ tick.left = {}
  /\ kind' = Worst
  /\ hold' = IF tick.unread # {} /\ HoldOf(Worst) = "day" THEN "hour" ELSE HoldOf(Worst)
  /\ tick' = Idle
  /\ UNCHANGED <<upstream, want, pool, stale, events>>

\* HoldUntil passes.
HoldEnds ==
  /\ hold \notin {"none", "day"} /\ hold' = "none"
  /\ UNCHANGED <<upstream, want, kind, pool, stale, tick, events>>

-----------------------------------------------------------------------------
(* Outside.                                                                 *)

\* handleClaim, with the panel's own parameter: the scheduler does not know.
PanelClaims(p) ==
  /\ Fault /\ session /\ plan[p] \in {"open", "gated"}
  /\ plan' = [plan EXCEPT ![p] = "taken"]
  /\ UNCHANGED <<session, spent, want, hold, kind, pool, stale, tick>>
\* A campaign opens, gates its claims or ends; the daily cap rolls; a session
\* is revoked or logged in again; entries grow stale; the operator configures.
Campaign(p) ==
  /\ Fault
  /\ \E s \in PlanStates \ {"hidden", "taken"} : plan[p] # "taken" /\ plan' = [plan EXCEPT ![p] = s]
  /\ UNCHANGED <<session, spent, want, hold, kind, pool, stale, tick>>
DayRolls ==
  /\ \E p \in Plans : plan[p] = "quota" /\ plan' = [plan EXCEPT ![p] = "open"]
  /\ UNCHANGED <<session, spent, want, hold, kind, pool, stale, tick, events>>
Session ==
  /\ Fault /\ session' = ~ session
  /\ UNCHANGED <<plan, spent, want, hold, kind, pool, stale, tick>>
GrowsStale ==
  /\ Fault /\ pool # <<>> /\ Head(pool) \notin stale /\ stale' = stale \cup {Head(pool)}
  /\ UNCHANGED <<upstream, want, hold, kind, pool, tick>>
Configures(p) ==
  /\ Fault /\ want # p /\ want' = p
  /\ UNCHANGED <<upstream, hold, kind, pool, stale, tick>>

Steps == Read("banner", "preview") \/ Read("preview", "select") \/ Select \/ Claim \/ Fold
Next ==
  \/ Begin \/ Steps \/ HoldEnds \/ DayRolls \/ ChatTakes \/ Session \/ GrowsStale
  \/ \E c \in Params : Mints(c)
  \/ \E p \in Plans : PanelClaims(p) \/ Campaign(p)
  \/ \E p \in Plans \cup {NoPlan} : Configures(p)

Spec == Init /\ [][Next]_vars

-----------------------------------------------------------------------------
\* The variables have their types and the pool its capacity (captcha_pool.go:68).
TypeOK ==
  /\ plan \in [Plans -> PlanStates] /\ session \in BOOLEAN /\ spent \subseteq Params
  /\ want \in Plans \cup {NoPlan} /\ kind \in Outcomes \cup {"none"}
  /\ hold \in {"none", "cooldown", "login", "hour", "day"}
  /\ pool \in Seq(Params) /\ Len(pool) <= Capacity /\ stale \subseteq Params
  /\ tick.found \subseteq Plans /\ tick.unread \subseteq Lists /\ tick.outs \subseteq Outcomes
  /\ events \in 0 .. MaxEvents

\* A tick leaves the account alone for a day only when both lists were read and
\* every plan it set out to claim is the account's: neither a success beside a
\* failure nor a list that did not read hides a plan that long (claim_scheduler.go
\* 150-176).
DayMeansDone ==
  [][ hold' = "day" /\ hold # "day" =>
        /\ tick.unread = {}
        /\ \A p \in tick.targets : plan[p] = "taken" ]_vars

\* A plan that is open, without a captcha, when a tick sets out is claimed in the
\* end, whatever failed, was unread or held in between, unless the campaign, the
\* session or the configuration changes.
OpenIsClaimed ==
  \A p \in Plans :
    (tick.at = "banner" /\ plan[p] = "open" /\ want \in {NoPlan, p} /\ session)
      ~> (plan[p] # "open" \/ want \notin {NoPlan, p} \/ ~ session)
=============================================================================
