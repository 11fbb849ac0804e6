----------------------------- MODULE QoderCampaign -----------------------------
(***************************************************************************)
(* A qoder account's daily round (plugins/qoder: campaign.go,              *)
(* round_state.go, checkin.go, billing.go): the list of campaigns read in  *)
(* the dialects that may or may not be shown the daily row, the claims of  *)
(* one pass, the memo of the round's id with its copy on disk, the probe   *)
(* of a hidden round and the latch its verdicts arm.  Every daily window   *)
(* is a campaign of a new id: rounds are numbered.                         *)
(***************************************************************************)
EXTENDS Integers, FiniteSets

CONSTANTS NoId, Coupon, Detail, \* no campaign; a coupon's and a detail row's
          Seed,                 \* roundSeedFor's id
          Consent,              \* claim_unverified
          MaxRound, MaxRetries, \* bounds of the rounds and of a tick's retries
          MaxEvents             \* bound of faults, clicks and what others do

VARIABLES up,       \* upstream: the round, its row and the other rows
          identity, \* the host's machine identity
          window,   \* the round opened less than 30 minutes ago
          memo,     \* roundMemo: the account's entry and the region's
          disk,     \* the saved memo
          loaded,   \* the memo was hydrated in this process
          latch,    \* roundProbeLast: the keys that are cooling
          answered, \* the ids a probe of this account had a verdict on
          pass,     \* the check-in passes
          events

vars == <<up, identity, window, memo, disk, loaded, latch, answered, pass, events>>
upstream == <<up, identity, window>>
state == <<memo, disk, loaded>>

Actors == {"tick", "panel"}
Ids == (1 .. MaxRound) \cup {NoId, Coupon, Detail, Seed}
Visibility == {{}, {"native"}, {"browser", "derived"}}
NoMemo == [own |-> NoId, region |-> NoId]
\* What the pass of an actor knows: its kind, the rows it read, the rows it has
\* yet to claim, the id it probes, what its claims were answered.
Idle == [at |-> "idle", kind |-> "none", daily |-> "absent", coupon |-> "absent", detail |-> "absent",
         todo |-> {}, id |-> NoId, said |-> {}, res |-> "none", tries |-> 0]

Init ==
  /\ up \in [round : {1}, daily : {"open"}, shown : Visibility, gated : BOOLEAN,
             coupon : {"absent", "open", "locked"}, detail : {"absent", "open"},
             reward : {"credits", "other", "hidden"}]
  /\ up.gated => up.shown = {"native"}
  /\ up.detail = "absent" => up.reward = "credits"
  /\ identity \in {"native", "derived"}
  \* Bound: at most one thing beside a plainly shown or hidden row.
  /\ Cardinality({x \in {up.detail, up.coupon} : x # "absent"} \cup {r \in {"gated"} : up.gated}) <= 1
  /\ up.coupon # "absent" \/ up.detail # "absent" => identity = "native"
  /\ up.coupon # "absent" => up.shown = {"native"}
  /\ up.detail # "absent" => up.shown = {}
  /\ window = FALSE
  /\ memo = NoMemo
  /\ disk \in {NoMemo, [own |-> 1, region |-> 1]}
  /\ loaded = FALSE
  /\ latch = {}
  /\ answered = {}
  /\ pass = [w \in Actors |-> Idle]
  /\ events = 0

At(w, place) == pass[w].at = place
Becomes(w, t) == pass' = [pass EXCEPT ![w] = t]
Fault == events < MaxEvents /\ events' = events + 1
NoFault == UNCHANGED events
\* The end of performCampaignCheckin with a result.
Result(w, r) == Becomes(w, [pass[w] EXCEPT !.at = "told", !.res = r, !.id = NoId])

-----------------------------------------------------------------------------
(* The list.                                                                *)

\* The daily row as a dialect is shown it: never to the sibling of an account
\* that took the round.
Daily(dialect) == IF dialect \in up.shown /\ up.daily # "dup" THEN up.daily ELSE "absent"

\* fetchCampaignStatus: in the host's identity, again if a rotated native one saw
\* no campaign, and as a browser if there is no row to claim benefits from.
HasBenefitRow(dialect) == Daily(dialect) # "absent" \/ up.coupon # "absent"
ListedDaily ==
  LET own == Daily(identity) IN
  IF own # "absent" THEN own
  ELSE IF identity = "rotated" /\ Daily("native") # "absent" THEN Daily("native")
  ELSE IF up.coupon = "absent" /\ HasBenefitRow("browser") THEN Daily("browser")
  ELSE "absent"
Refreshed == IF identity = "rotated" THEN "native" ELSE identity

\* loadRoundState: once per process, entries of the disk over the memo.
Over(saved, id) == IF saved = NoId THEN id ELSE saved
Hydrated == IF loaded THEN memo
            ELSE [own |-> Over(disk.own, memo.own), region |-> Over(disk.region, memo.region)]

\* rememberCampaignRound keeps the first row benefits are claimed from, for the
\* account and for the region.
Found(w) == {id \in {pass[w].id, Coupon} : \/ id = pass[w].id /\ pass[w].daily # "absent"
                                           \/ id = Coupon /\ pass[w].coupon # "absent"}
Remembered(w) == IF Found(w) = {} THEN {Hydrated}
                 ELSE {[own |-> id, region |-> id] : id \in Found(w)}

-----------------------------------------------------------------------------
(* A pass.                                                                  *)

\* The tick and the panel's check-in read the status first, claimPro the list.
Begin(w, kind) ==
  /\ At(w, "idle")
  /\ IF w = "panel" THEN Fault ELSE kind = "checkin" /\ NoFault
  /\ Becomes(w, [Idle EXCEPT !.at = "look", !.kind = kind])
  /\ UNCHANGED <<upstream, state, latch, answered>>

\* A read of the list, for the status ("look") or for the claims ("list", after
\* the identity was forced); id keeps the round it was read in.
Read(w) ==
  /\ At(w, "look") \/ At(w, "list")
  /\ identity' = Refreshed
  /\ Becomes(w, [pass[w] EXCEPT !.at = IF At(w, "look") THEN "looked" ELSE "listed",
                                !.daily = ListedDaily, !.coupon = up.coupon, !.detail = up.detail,
                                !.id = up.round])
  /\ UNCHANGED <<up, window, state, latch, answered, events>>

\* It fails: the check-in of this tick or click is over.
ReadFails(w) ==
  /\ At(w, "look") \/ At(w, "list")
  /\ Fault
  /\ Result(w, "error")
  /\ UNCHANGED <<upstream, state, latch, answered>>

\* claimedCampaign and claimableCampaign: an open row is never "already".
Claimable(w) == {r \in {"daily", "coupon"} : pass[w][r] = "open"}
Taken(w) == \E r \in {"daily", "coupon"} : pass[w][r] = "taken"
Locked(w) == pass[w].daily = "out" \/ pass[w].coupon = "locked"

\* The rows a pass claims: performCampaignCheckin's claimable ones, else the
\* detail rows; claimPro's detail rows only.
After(w) ==
  LET p == pass[w] IN
  IF At(w, "looked")
  THEN IF p.kind = "pro" THEN [p EXCEPT !.at = "detail"]
       ELSE IF Claimable(w) = {} /\ Taken(w) THEN [p EXCEPT !.at = "told", !.res = "already"]
       ELSE [p EXCEPT !.at = "list"]
  ELSE IF Claimable(w) # {} THEN [p EXCEPT !.at = "claim", !.todo = Claimable(w)]
  ELSE IF Taken(w) THEN [p EXCEPT !.at = "told", !.res = "already"]
  ELSE IF Locked(w) THEN [p EXCEPT !.at = "told", !.res = "ineligible"]
  ELSE [p EXCEPT !.at = "detail"]

\* The list's round is remembered, and saved at most every 30 s; then the rows
\* decide.
Remember(w) ==
  /\ At(w, "looked") \/ At(w, "listed")
  /\ memo' \in Remembered(w)
  /\ loaded' = TRUE
  /\ disk' \in IF Found(w) = {} THEN {disk} ELSE {disk, memo'}
  /\ Becomes(w, [After(w) EXCEPT !.daily = "absent", !.coupon = "absent",
                   !.detail = IF After(w).at = "detail" THEN pass[w].detail ELSE "absent",
                   !.id = IF After(w).at = "claim" THEN pass[w].id ELSE NoId])
  /\ UNCHANGED <<upstream, latch, answered, events>>

-----------------------------------------------------------------------------
(* A claim.                                                                 *)

\* A derived identity never rides the claim, a native one does.
Anchored == identity # "derived"

\* What upstream answers to a claim of an id, and what it does.
Verdict(id) ==
  CASE id = up.round -> IF up.gated /\ ~ Anchored THEN "error"
                        ELSE CASE up.daily = "open" -> "credits"
                               [] up.daily = "taken" -> "already"
                               [] up.daily = "dup" -> "blocked"
                               [] OTHER -> "ineligible"
    [] id = Coupon -> CASE up.coupon = "open" -> "code"
                        [] up.coupon = "taken" -> "already"
                        [] OTHER -> "ineligible"
    [] id = Detail -> CASE up.detail = "open" /\ up.reward # "other" -> "credits"
                        [] up.detail = "taken" -> "already"
                        [] OTHER -> "ineligible"
    [] OTHER -> "ineligible"
Granted(id) ==
  IF Verdict(id) \notin {"credits", "code"} THEN up
  ELSE CASE id = Coupon -> [up EXCEPT !.coupon = "taken"]
         [] id = Detail -> [up EXCEPT !.detail = "taken"]
         [] OTHER -> [up EXCEPT !.daily = "taken"]

\* The claim is answered, with the error it may be, or its answer is lost or says
\* nothing the code knows ("odd"); a claim that landed may have no amount to read
\* ("unread"), a coupon's code may come later ("pending").
Landed == {"credits", "code", "pending", "unread"}
Verdicts == Landed \cup {"already", "blocked", "ineligible", "error", "odd"}
Conclusive(s) == s \notin {"error", "odd"}
Answers(id, s) ==
  \/ /\ NoFault /\ up' = Granted(id)
     /\ \/ s = Verdict(id)
        \/ s = "pending" /\ Verdict(id) = "code"
        \/ s = "unread" /\ Verdict(id) \in {"credits", "code"}
  \/ Fault /\ ~ Conclusive(s) /\ up' \in {up, Granted(id)}

\* What the answers of a pass amount to: an amount or a code is a claim, a coupon
\* without its code a note, a claim that landed without an amount nothing at all.
Noted == {"pending", "ineligible", "error"}
SumBlockedFirst(said) ==
  IF "blocked" \in said THEN "blocked"
  ELSE IF "already" \in said THEN "already"
  ELSE IF said \cap {"credits", "code"} # {} THEN "claimed"
  ELSE IF said \cap Noted # {} THEN "ineligible" ELSE "nothing"
Sum(said) ==
  IF said \cap {"credits", "code"} # {} THEN "claimed"
  ELSE IF "blocked" \in said THEN "blocked"
  ELSE IF "already" \in said THEN "already"
  ELSE IF said \cap Noted # {} THEN "ineligible" ELSE "nothing"

\* The daily row before the coupon.
Claim(w) ==
  LET row == IF "daily" \in pass[w].todo THEN "daily" ELSE "coupon"
      id == IF row = "daily" THEN pass[w].id ELSE Coupon
      rest == pass[w].todo \ {row}
  IN
  /\ At(w, "claim")
  /\ \E s \in Verdicts :
       /\ Answers(id, s)
       /\ Becomes(w, IF rest # {} THEN [pass[w] EXCEPT !.todo = rest, !.said = {s}]
            ELSE [pass[w] EXCEPT !.todo = {}, !.id = NoId, !.at = "told",
                    !.said = pass[w].said \cup {s}, !.res = Sum(pass[w].said \cup {s})])
  /\ UNCHANGED <<identity, window, state, latch, answered>>

\* attemptViewDetailsClaims and claimProViaCampaigns: a row of credits is
\* claimed, of another kind only by neither, an unreadable one with consent; a
\* dead one never.  The reward's own amount stands in for one the claim does not
\* name, claimPro needs none.
RidesDetail == up.reward = "credits" \/ (up.reward = "hidden" /\ Consent)
Counts(w, s) == s = "credits" \/ (s = "unread" /\ (pass[w].kind = "pro" \/ up.reward = "credits"))
ClaimDetail(w) ==
  LET then(s) == IF Counts(w, s) THEN [pass[w] EXCEPT !.at = "told", !.detail = "absent", !.said = {s}, !.res = "claimed"]
                 ELSE IF pass[w].kind = "pro" THEN [pass[w] EXCEPT !.at = "told", !.detail = "absent", !.res = "nothing"]
                 ELSE [pass[w] EXCEPT !.at = "probe", !.detail = "absent"]
  IN
  /\ At(w, "detail")
  /\ IF pass[w].detail = "open" /\ RidesDetail
     THEN \E s \in Verdicts : Answers(Detail, s) /\ Becomes(w, then(s))
     ELSE Becomes(w, then("none")) /\ UNCHANGED <<up, events>>
  /\ UNCHANGED <<identity, window, state, latch, answered>>

-----------------------------------------------------------------------------
(* The probe of a hidden round.                                             *)

\* probeFor, then the seed.
ProbeIdOwn(m) == IF m.own # NoId THEN m.own ELSE Seed
ProbeId(m) == IF m.own # NoId THEN m.own ELSE IF m.region # NoId THEN m.region ELSE Seed

\* The latch is of the account and the round.
KeyOfAccount(id) == NoId
Key(id) == id
Cooled(id) == Key(id) \in latch

\* The memo names the id, and no latch stands against it.
Probe(w) ==
  LET id == ProbeId(Hydrated) IN
  /\ At(w, "probe")
  /\ memo' = Hydrated /\ loaded' = TRUE
  /\ Becomes(w, IF id = NoId \/ Cooled(id)
                THEN [pass[w] EXCEPT !.at = "told", !.res = "nothing", !.id = id]
                ELSE [pass[w] EXCEPT !.at = "hit", !.id = id])
  /\ UNCHANGED <<upstream, disk, latch, answered, events>>

\* probeCooldownFor, for 30 minutes or 6 hours: the latch ends before the round.
Latched(id, s) == latch' = IF Conclusive(s) THEN latch \cup {Key(id)} ELSE latch

\* Only a verdict arms the latch.
Hit(w) ==
  LET id == pass[w].id IN
  /\ At(w, "hit")
  /\ \E s \in Verdicts :
       /\ Answers(id, s)
       /\ Latched(id, s)
       /\ answered' = IF Conclusive(s) THEN answered \cup {id} ELSE answered
       /\ Becomes(w, [pass[w] EXCEPT !.at = "told", !.said = {s},
            !.res = CASE s \in Landed -> "claimed" [] ~ Conclusive(s) -> "nothing" [] OTHER -> s])
  /\ UNCHANGED <<identity, window, state>>

\* The tick tries again while the round has just opened; a pass ends.
End(w) ==
  /\ At(w, "told")
  /\ IF w = "tick" /\ pass[w].res = "nothing" /\ window /\ pass[w].tries < MaxRetries
     THEN Becomes(w, [Idle EXCEPT !.at = "list", !.kind = "checkin", !.tries = pass[w].tries + 1])
     ELSE Becomes(w, Idle)
  /\ UNCHANGED <<upstream, state, latch, answered, events>>

-----------------------------------------------------------------------------
(* Outside.                                                                 *)

\* 10:00: a new campaign, unseen for some minutes whatever the dialect.
NewRound ==
  /\ up.round < MaxRound
  /\ \E s \in Visibility :
       /\ up.gated => s = {"native"}
       /\ up' = [up EXCEPT !.round = @ + 1, !.daily = "open", !.shown = s, !.coupon = "absent"]
  /\ window' = TRUE
  /\ UNCHANGED <<identity, state, latch, answered, pass, events>>
WindowCloses ==
  /\ window
  /\ window' = FALSE
  /\ UNCHANGED <<up, identity, state, latch, answered, pass, events>>

\* A sibling on the same device takes the round, or its list shows the row; the
\* stock ends and returns.
SiblingClaims ==
  /\ Fault /\ up.daily = "open"
  /\ up' = [up EXCEPT !.daily = "dup"]
  /\ UNCHANGED <<identity, window, state, latch, answered, pass>>
SiblingSees ==
  /\ Fault
  /\ memo' = [Hydrated EXCEPT !.region = up.round]
  /\ disk' \in {disk, memo'}
  /\ loaded' = TRUE
  /\ UNCHANGED <<upstream, latch, answered, pass>>
Stock ==
  /\ Fault
  /\ up.daily \in {"open", "out"}
  /\ up' = [up EXCEPT !.daily = IF up.daily = "open" THEN "out" ELSE "open"]
  /\ UNCHANGED <<identity, window, state, latch, answered, pass>>

\* 26 hours pass: ids of rows that are gone are forgotten.
Gone(id) == id \in 1 .. up.round - 1 \/ (id = Coupon /\ up.coupon = "absent")
Kept(id) == IF Gone(id) THEN NoId ELSE id
Forgets ==
  /\ \/ Gone(memo.own) /\ memo' = [memo EXCEPT !.own = NoId]
     \/ Gone(memo.region) /\ memo' = [memo EXCEPT !.region = NoId]
  /\ disk' = [own |-> Kept(disk.own), region |-> Kept(disk.region)]
  /\ UNCHANGED <<upstream, loaded, latch, answered, pass, events>>
LatchExpires ==
  /\ \E key \in latch : latch' = latch \ {key}
  /\ UNCHANGED <<upstream, state, answered, pass, events>>

\* The bridge is provisioned; its identity rotates.
Provisioned ==
  /\ Fault /\ identity = "derived" /\ identity' = "native"
  /\ UNCHANGED <<up, window, state, latch, answered, pass>>
Rotates ==
  /\ Fault /\ identity = "native" /\ identity' = "rotated"
  /\ UNCHANGED <<up, window, state, latch, answered, pass>>

\* The host restarts: memo, latches and passes are gone.
Restart ==
  /\ Fault
  /\ memo' = NoMemo /\ loaded' = FALSE
  /\ latch' = {}
  /\ pass' = [w \in Actors |-> Idle]
  /\ UNCHANGED <<upstream, disk, answered>>

Steps(w) == Read(w) \/ ReadFails(w) \/ Remember(w) \/ Claim(w) \/ ClaimDetail(w)
            \/ Probe(w) \/ Hit(w) \/ End(w)
Outside == NewRound \/ WindowCloses \/ SiblingClaims \/ SiblingSees \/ Stock \/ Forgets \/ LatchExpires
           \/ Provisioned \/ Rotates \/ Restart
Next == \/ \E w \in Actors : Steps(w) \/ \E k \in {"checkin", "pro"} : Begin(w, k)
        \/ Outside

Spec == Init /\ [][Next]_vars

-----------------------------------------------------------------------------
\* The variables have their types.
TypeOK ==
  /\ up.round \in 1 .. MaxRound /\ up.daily \in {"open", "out", "taken", "dup"}
  /\ identity \in {"native", "derived", "rotated"} /\ window \in BOOLEAN /\ loaded \in BOOLEAN
  /\ memo \in [own : Ids, region : Ids] /\ disk \in [own : Ids, region : Ids]
  /\ latch \subseteq Ids /\ answered \subseteq Ids
  /\ \A w \in Actors : /\ pass[w].at \in {"idle", "look", "looked", "list", "listed", "claim",
                                          "detail", "probe", "hit", "told"}
                       /\ pass[w].id \in Ids /\ pass[w].tries \in 0 .. MaxRetries
  /\ events \in 0 .. MaxEvents

\* "A conclusive verdict on round R must not silence the probe for a new round"
\* (campaign.go:411): a pass that probes nothing has no id, or one that upstream
\* already gave this account a verdict on.
LatchIsVerdict ==
  \A w \in Actors : At(w, "told") /\ pass[w].res = "nothing" /\ pass[w].id # NoId /\ pass[w].said = {}
    => pass[w].id \in answered

\* An amount or a code that a pass was given it reports, whatever its other rows
\* were answered; a probe reports whatever landed; and a claim is reported only if
\* one landed.  (A pass over the list does not tell of a claim that landed without
\* an amount, nor of a coupon granted without its code: campaign.go:1307, 1313.)
GrantsTold ==
  \A w \in Actors : LET p == pass[w] IN
    At(w, "told") =>
      /\ p.said \cap {"credits", "code"} # {} => p.res = "claimed"
      /\ p.id # NoId /\ p.said \cap Landed # {} => p.res = "claimed"
      /\ p.res = "claimed" => p.said \cap Landed # {}

\* The round's row is hidden or shown, its id known to the account or the region:
\* it does not stay open to the account for ever.  (A coupon row in the list
\* keeps the probe away, and a gated claim needs a native identity.)
Known == up.round \in {memo.own, memo.region} \/ ListedDaily = "open"
Unclaimed == /\ up.daily = "open" /\ up.coupon = "absent"
             /\ up.gated => Anchored
             /\ Known
RoundSettles == []<>(~ Unclaimed)
=============================================================================
