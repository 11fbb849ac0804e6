------------------------------ MODULE ZcodeProofs ------------------------------
(***************************************************************************)
(* The zcode plugin, for any plans, parameters, accounts, calls, logins,   *)
(* rounds and tickets: what a tick promises for a day, what a call leaves  *)
(* on record, what a login stores, and how rounds settle their tickets.    *)
(* Each lane has an invariant of its own; a step of one leaves the others' *)
(* variables alone.                                                        *)
(***************************************************************************)
EXTENDS MCZcodeAccounts, SequenceTheorems, WellFoundedInduction, TLAPS

-----------------------------------------------------------------------------
(* The planes.  A call has no failure on record before its last answer, and  *)
(* it is sent at most three times per route.                                 *)

ChatAnswers == {"none", "ok", "nopackage", "challenge", "refused", "unsigned", "lost", "broken"}

ChatCalls == [at : {"idle", "send", "answered", "done"}, stream : BOOLEAN, route : {"coding", "jwt"},
              rung : 0 .. 3, signed : BOOLEAN, tried : {"none", "fallback", "captcha"},
              answer : ChatAnswers, recorded : BOOLEAN]

PlaneTypes ==
  /\ home \in {"coding", "jwt"} /\ asks \in BOOLEAN /\ strict \in BOOLEAN /\ keys \in BOOLEAN
  /\ jwt \in BOOLEAN /\ memo \in BOOLEAN /\ bypass \in BOOLEAN
  /\ gate \in {"unknown", "on", "off", "down"} /\ params \in 0 .. 1
  /\ events \in 0 .. MaxEvents

Unspoiled(t) ==
  /\ t.at = "send" => t.rung <= 2
  /\ t.at # "done" => ~ t.recorded
  /\ t.at = "done" => (t.recorded <=> t.answer \notin {"ok", "lost"})

PlaneInv ==
  /\ PlaneTypes
  /\ call \in [Calls -> ChatCalls]
  /\ \A c \in Calls : Unspoiled(call[c])

\* One call moves.
LEMMA OneCallMoves ==
  ASSUME PlaneInv, NEW c \in Calls, NEW t \in ChatCalls, Becomes(c, t), Unspoiled(t)
  PROVE  call' \in [Calls -> ChatCalls] /\ \A d \in Calls : Unspoiled(call'[d])
<1>1. call \in [Calls -> ChatCalls] /\ \A d \in Calls : Unspoiled(call[d])
  BY DEF PlaneInv
<1>2. call' \in [Calls -> ChatCalls] /\ call'[c] = t /\ \A d \in Calls \ {c} : call'[d] = call[d]
  BY <1>1 DEF Becomes
<1> QED  BY <1>1, <1>2

LEMMA PlaneStarts == ZcodeAssumption /\ Init => PlaneInv
<1> SUFFICES ASSUME ZcodeAssumption, Init PROVE PlaneInv
  OBVIOUS
<1>1. Idle \in ChatCalls /\ Unspoiled(Idle)
  BY DEF Idle, ChatCalls, ChatAnswers, Unspoiled
<1>2. 0 \in 0 .. MaxEvents
  BY DEF ZcodeAssumption
<1>3. params \in 0 .. 1
  BY DEF Init
<1>4. PlaneTypes
  BY <1>2, <1>3 DEF Init, PlaneTypes
<1> QED  BY <1>1, <1>4 DEF Init, PlaneInv

LEMMA EventsCounted ==
  ASSUME ZcodeAssumption, PlaneTypes, Fault \/ NoFault
  PROVE  events' \in 0 .. MaxEvents
BY DEF ZcodeAssumption, PlaneTypes, Fault, NoFault

\* A send climbs one rung; only the last one is answered.
LEMMA SendSteps ==
  ASSUME ZcodeAssumption, PlaneInv, NEW c \in Calls, Send(c)
  PROVE  PlaneInv'
<1>1. PlaneTypes /\ call[c] \in ChatCalls /\ Unspoiled(call[c]) /\ At(c, "send")
  BY DEF PlaneInv, Send
<1>2. /\ call[c].rung \in 0 .. 2 /\ call[c].route \in {"coding", "jwt"} /\ call[c].signed \in BOOLEAN
      /\ ~ call[c].recorded
  BY <1>1 DEF ChatCalls, Unspoiled, At
<1>3. Answer(c) \in ChatAnswers
  BY DEF Answer, ChatAnswers
<1>4. PICK g \in {"on", "off", "down"} :
        LET r == call[c].rung
            s == call[c].route = "coding" /\ Signs(g)
            rejected == call[c].route = "coding" /\ strict /\ ~ s
            onwards == [call[c] EXCEPT !.rung = r + 1, !.signed = @ /\ s]
            ends(a) == [onwards EXCEPT !.at = "answered", !.answer = a]
        IN /\ IF call[c].route = "jwt" \/ bypass THEN g = "off" /\ UNCHANGED gate
              ELSE Probed(g) /\ gate' = g
           /\ \/ /\ Fault /\ Becomes(c, ends("lost")) /\ UNCHANGED bypass
              \/ /\ r < 2
                 /\ \/ rejected /\ NoFault
                    \/ call[c].route = "coding" /\ strict /\ s /\ Fault
                 /\ Becomes(c, onwards)
                 /\ bypass' = (bypass \/ r = 1)
              \/ /\ NoFault /\ ~ (rejected /\ r < 2)
                 /\ Becomes(c, ends(IF rejected THEN "unsigned" ELSE Answer(c)))
                 /\ UNCHANGED bypass
  BY DEF Send
<1> DEFINE r == call[c].rung
           s == call[c].route = "coding" /\ Signs(g)
           rejected == call[c].route = "coding" /\ strict /\ ~ s
           onwards == [call[c] EXCEPT !.rung = r + 1, !.signed = @ /\ s]
           ends(a) == [onwards EXCEPT !.at = "answered", !.answer = a]
           said == IF rejected THEN "unsigned" ELSE Answer(c)
<1>5. s \in BOOLEAN
  OBVIOUS
<1>6. PlaneTypes'
  <2>1. gate' \in {"unknown", "on", "off", "down"} /\ bypass' \in BOOLEAN
    BY <1>1, <1>4 DEF PlaneTypes
  <2>2. events' \in 0 .. MaxEvents
    BY <1>1, <1>4, EventsCounted
  <2> QED  BY <1>1, <2>1, <2>2 DEF Send, PlaneTypes, upstream
<1>7. /\ onwards \in ChatCalls /\ onwards.at = "send" /\ onwards.rung = r + 1 /\ ~ onwards.recorded
  <2>1. r + 1 \in 0 .. 3 /\ (call[c].signed /\ s) \in BOOLEAN
    BY <1>2, <1>5
  <2>2. onwards = [call[c] EXCEPT !.rung = r + 1, !.signed = call[c].signed /\ s]
    BY <1>1 DEF ChatCalls
  <2> DEFINE up_ == r + 1
             sealed == call[c].signed /\ s
  <2> HIDE DEF up_, sealed
  <2>3. [call[c] EXCEPT !.rung = up_, !.signed = sealed] \in ChatCalls
    BY <1>1, <2>1 DEF ChatCalls, up_, sealed
  <2> QED  BY <1>1, <1>2, <2>2, <2>3 DEF ChatCalls, At, up_, sealed
<1> HIDE DEF onwards
<1>8. ASSUME NEW a \in ChatAnswers PROVE ends(a) \in ChatCalls /\ Unspoiled(ends(a))
  BY <1>7 DEF ChatCalls, Unspoiled
<1> HIDE DEF ends
<1>9. "lost" \in ChatAnswers /\ said \in ChatAnswers
  BY <1>3 DEF ChatAnswers
<1>10. \/ Becomes(c, ends("lost")) \/ (r < 2 /\ Becomes(c, onwards)) \/ Becomes(c, ends(said))
  BY <1>4 DEF onwards, ends
<1>11. CASE Becomes(c, ends("lost"))
  BY <1>6, <1>8, <1>9, <1>11, OneCallMoves DEF PlaneInv
<1>12. CASE Becomes(c, ends(said))
  BY <1>6, <1>8, <1>9, <1>12, OneCallMoves DEF PlaneInv
<1>13. CASE r < 2 /\ Becomes(c, onwards)
  <2>1. Unspoiled(onwards)
    BY <1>2, <1>7, <1>13 DEF Unspoiled
  <2> QED  BY <1>6, <1>7, <1>13, <2>1, OneCallMoves DEF PlaneInv
<1> QED  BY <1>10, <1>11, <1>12, <1>13

\* The other sends of a call: it starts over, with nothing on record.
LEMMA AgainSteps ==
  ASSUME ZcodeAssumption, PlaneInv, NEW c \in Calls, Fallback(c) \/ CaptchaRetry(c)
  PROVE  PlaneInv'
<1>1. PlaneTypes /\ call[c] \in ChatCalls /\ Unspoiled(call[c]) /\ At(c, "answered")
  BY DEF PlaneInv, Fallback, CaptchaRetry
<1>2. PICK how \in {"fallback", "captcha"} : Again(c, how)
  BY DEF Fallback, CaptchaRetry
<1> DEFINE t == [call[c] EXCEPT !.at = "send", !.route = "jwt", !.rung = 0, !.tried = how]
<1>3. t \in ChatCalls /\ Unspoiled(t)
  <2>1. t \in ChatCalls
    <3>1. how \in {"none", "fallback", "captcha"} /\ 0 \in 0 .. 3
      BY <1>2
    <3>2. call[c] \in [at : {"idle", "send", "answered", "done"}, stream : BOOLEAN,
              route : {"coding", "jwt"}, rung : 0 .. 3, signed : BOOLEAN,
              tried : {"none", "fallback", "captcha"}, answer : ChatAnswers, recorded : BOOLEAN]
      BY <1>1 DEF ChatCalls
    <3>3. [call[c] EXCEPT !.at = "send", !.route = "jwt", !.rung = 0, !.tried = how] \in ChatCalls
      BY <3>1, <3>2 DEF ChatCalls
    <3> QED  BY <3>3
  <2>2. t.at = "send" /\ t.rung = 0 /\ t.recorded = call[c].recorded
    BY <1>1 DEF ChatCalls
  <2> HIDE DEF t
  <2> QED  BY <1>1, <2>1, <2>2 DEF Unspoiled, At
<1>4. Becomes(c, t)
  BY <1>2 DEF Again
<1>5. PlaneTypes'
  BY <1>1 DEF Fallback, CaptchaRetry, PlaneTypes, upstream, signer
<1> HIDE DEF t
<1> QED  BY <1>3, <1>4, <1>5, OneCallMoves DEF PlaneInv

\* The end of a call is what it says and what it leaves.
LEMMA CallEnds ==
  ASSUME PlaneInv, NEW c \in Calls, At(c, "answered"), NEW answer \in ChatAnswers,
         NEW recorded \in BOOLEAN, recorded <=> answer \notin {"ok", "lost"},
         Ends(c, answer, recorded)
  PROVE  call' \in [Calls -> ChatCalls] /\ \A d \in Calls : Unspoiled(call'[d])
<1>1. call[c] \in ChatCalls /\ Unspoiled(call[c])
  BY DEF PlaneInv
<1> DEFINE t == [call[c] EXCEPT !.at = "done", !.answer = answer, !.recorded = @ \/ recorded]
<1>2. ~ call[c].recorded
  BY <1>1 DEF Unspoiled, At
<1>3. t \in ChatCalls
  BY <1>1 DEF ChatCalls
<1>4. t.at = "done" /\ t.answer = answer /\ (t.recorded <=> recorded)
  BY <1>1, <1>2 DEF ChatCalls
<1>5. Becomes(c, t)
  BY DEF Ends
<1> HIDE DEF t
<1>6. Unspoiled(t)
  BY <1>4 DEF Unspoiled
<1> QED  BY <1>3, <1>5, <1>6, OneCallMoves

LEMMA AnswerSteps ==
  ASSUME ZcodeAssumption, PlaneInv, NEW c \in Calls, Accepted(c) \/ Refused(c)
  PROVE  PlaneInv'
<1>1. PlaneTypes /\ call[c] \in ChatCalls /\ call[c].answer \in ChatAnswers /\ call[c].tried \in {"none", "fallback", "captcha"}
  BY DEF PlaneInv, ChatCalls
<1>2. At(c, "answered")
  BY DEF Accepted, Refused
<1>3. PlaneTypes'
  <2>1. events' \in 0 .. MaxEvents
    BY <1>1, EventsCounted DEF Accepted, Refused, NoFault
  <2> QED  BY <1>1, <2>1 DEF Accepted, Refused, PlaneTypes, upstream, signer
<1>4. CASE Accepted(c)
  BY <1>2, <1>3, <1>4, CallEnds DEF Accepted, PlaneInv, ChatAnswers
<1>5. CASE Refused(c)
  <2> DEFINE said == IF call[c].answer = "lost" /\ call[c].tried # "none" THEN "refused" ELSE call[c].answer
             noted_ == call[c].answer # "lost" \/ call[c].tried # "none"
  <2>1. said \in ChatAnswers /\ noted_ \in BOOLEAN /\ (noted_ <=> said \notin {"ok", "lost"})
    BY <1>1, <1>5 DEF Refused, ChatAnswers
  <2>2. Ends(c, said, noted_)
    BY <1>5 DEF Refused
  <2> HIDE DEF said, noted_
  <2> QED  BY <1>2, <1>3, <2>1, <2>2, CallEnds DEF PlaneInv
<1> QED  BY <1>4, <1>5

LEMMA PlaneSteps == ZcodeAssumption /\ PlaneInv /\ Next => PlaneInv'
<1> SUFFICES ASSUME ZcodeAssumption, PlaneInv, Next PROVE PlaneInv'
  OBVIOUS
<1>1. ASSUME NEW c \in Calls, Works(c) PROVE PlaneInv'
  BY <1>1, SendSteps, AgainSteps, AnswerSteps DEF Works
<1>2. ASSUME NEW c \in Calls, NEW s \in BOOLEAN, Begin(c, s) PROVE PlaneInv'
  <2> DEFINE t == [Idle EXCEPT !.at = "send", !.stream = s, !.route = IF Rides THEN "jwt" ELSE "coding"]
  <2>1. t \in ChatCalls /\ Unspoiled(t)
    <3> DEFINE way == IF Rides THEN "jwt" ELSE "coding"
    <3>1. way \in {"coding", "jwt"}
      OBVIOUS
    <3> HIDE DEF way
    <3>2. Idle \in ChatCalls /\ ~ Idle.recorded
      BY DEF Idle, ChatCalls, ChatAnswers
    <3>3. [Idle EXCEPT !.at = "send", !.stream = s, !.route = way] \in ChatCalls
      BY <1>2, <3>1, <3>2 DEF ChatCalls
    <3> QED  BY <3>2, <3>3 DEF way, Unspoiled, Idle
  <2>2. Becomes(c, t)
    BY <1>2 DEF Begin
  <2>3. PlaneTypes'
    BY <1>2 DEF Begin, PlaneInv, PlaneTypes, upstream, signer
  <2> HIDE DEF t
  <2> QED  BY <2>1, <2>2, <2>3, OneCallMoves DEF PlaneInv
<1>3. ASSUME Harvest \/ Forgets \/ GateExpires \/ Outside PROVE PlaneInv'
  <2>1. PlaneTypes
    BY DEF PlaneInv
  <2>2. events' \in 0 .. MaxEvents
    BY <1>3, <2>1, EventsCounted DEF Harvest, Forgets, GateExpires, Outside, NoFault
  <2>3. PlaneTypes'
    <3>1. CASE Harvest
      BY <2>1, <2>2, <3>1 DEF Harvest, PlaneTypes, upstream, signer
    <3>2. CASE Forgets
      BY <2>1, <2>2, <3>2 DEF Forgets, PlaneTypes, upstream, signer
    <3>3. CASE GateExpires
      BY <2>1, <2>2, <3>3 DEF GateExpires, PlaneTypes, upstream, signer
    <3>4. CASE Outside
      <4>1. home' \in {"coding", "jwt"} /\ params' \in 0 .. 1
        BY <2>1, <3>4 DEF Outside, PlaneTypes
      <4>2. asks' \in BOOLEAN /\ strict' \in BOOLEAN
        BY <2>1, <3>4, Zenon DEF Outside, PlaneTypes
      <4>3. keys' \in BOOLEAN /\ jwt' \in BOOLEAN
        BY <2>1, <3>4, Zenon DEF Outside, PlaneTypes
      <4> QED  BY <2>1, <2>2, <3>4, <4>1, <4>2, <4>3 DEF Outside, PlaneTypes, signer
    <3> QED  BY <1>3, <3>1, <3>2, <3>3, <3>4
  <2>4. call' = call
    BY <1>3 DEF Harvest, Forgets, GateExpires, Outside
  <2> QED  BY <2>3, <2>4 DEF PlaneInv
<1> QED  BY <1>1, <1>2, <1>3 DEF Next

LEMMA PlaneRests == PlaneInv /\ UNCHANGED vars => PlaneInv'
BY DEF PlaneInv, PlaneTypes, vars, upstream, signer

-----------------------------------------------------------------------------
(* The tick.  While it claims, a target is still to be asked for, is the     *)
(* account's, or has left an answer behind that is no success.               *)

Ticks == [at : {"idle", "banner", "preview", "select", "claim"}, found : SUBSET Claims!Plans,
          unread : SUBSET Claims!Lists, targets : SUBSET Claims!Plans,
          left : SUBSET Claims!Plans, outs : SUBSET Claims!Outcomes]

Good == {"ok", "already_claimed"}
Accounted(p) == p \in tick.left \/ plan[p] = "taken" \/ ~ (tick.outs \subseteq Good)

ClaimInv ==
  /\ Claims!TypeOK
  /\ tick \in Ticks
  /\ tick.at # "claim" => tick.outs = {}
  /\ tick.at = "claim" => tick.left # {} \/ tick.outs # {}
  /\ tick.at = "claim" => \A p \in tick.targets : Accounted(p)

\* The outcomes' ranks.
LEMMA Ranks ==
  /\ Claims!Outcomes = {"login_required", "captcha", "quota_exhausted", "other"} \cup Good
  /\ Claims!Severity("login_required") = 1 /\ Claims!Severity("captcha") = 2
  /\ Claims!Severity("quota_exhausted") = 3 /\ Claims!Severity("other") = 4
  /\ Claims!Severity("already_claimed") = 5 /\ Claims!Severity("ok") = 6
<1>1. DOMAIN Claims!Severities = 1 .. 6
  BY DEF Claims!Severities
<1>2. /\ Claims!Severities[1] = "login_required" /\ Claims!Severities[2] = "captcha"
      /\ Claims!Severities[3] = "quota_exhausted" /\ Claims!Severities[4] = "other"
      /\ Claims!Severities[5] = "already_claimed" /\ Claims!Severities[6] = "ok"
  BY DEF Claims!Severities
<1>3. 1 .. 6 = {1, 2, 3, 4, 5, 6}
  OBVIOUS
<1>4. Claims!Outcomes = {Claims!Severities[1], Claims!Severities[2], Claims!Severities[3],
                         Claims!Severities[4], Claims!Severities[5], Claims!Severities[6]}
  BY <1>1, <1>3 DEF Claims!Outcomes
<1> QED  BY <1>1, <1>2, <1>3, <1>4 DEF Claims!Severity, Good

\* The worst outcome exists, and a good one is worst among good ones only.
LEMMA WorstIsWorst ==
  ASSUME tick.outs # {}, tick.outs \subseteq Claims!Outcomes
  PROVE  Claims!Worst \in tick.outs /\ (Claims!Worst \in Good => tick.outs \subseteq Good)
<1> DEFINE ranks == {Claims!Severity(o) : o \in tick.outs}
<1>1. ranks \subseteq Nat /\ ranks # {}
  BY Ranks DEF Good
<1>2. PICK m \in ranks : \A k \in ranks : ~ (k < m)
  <2>1. PICK i \in ranks : \A j \in ranks : ~ (<<j, i>> \in OpToRel(<, Nat))
    BY ONLY <1>1, NatLessThanWellFounded, WFMin
  <2> QED  BY <1>1, <2>1 DEF OpToRel
<1>3. \E o \in tick.outs : \A q \in tick.outs : Claims!Severity(o) <= Claims!Severity(q)
  BY <1>1, <1>2
<1>4. Claims!Worst \in tick.outs /\ \A q \in tick.outs : Claims!Severity(Claims!Worst) <= Claims!Severity(q)
  BY <1>3 DEF Claims!Worst
<1> QED  BY <1>4, Ranks DEF Good

\* What is taken from the pool is one of its parameters; the rest is shorter.
LEMMA TakenFromPool ==
  ASSUME pool \in Seq(Params), Len(pool) <= Capacity, ZcodeAssumption
  PROVE  /\ Claims!Taken \in Params \cup {NoParam}
         /\ Claims!Rest \in Seq(Params) /\ Len(Claims!Rest) <= Capacity
<1>0. Capacity \in Nat
  BY DEF ZcodeAssumption
<1>1. CASE Claims!Fresh = {}
  BY <1>0, <1>1 DEF Claims!Taken, Claims!Rest
<1>2. CASE Claims!Fresh # {}
  <2>1. Claims!Fresh \subseteq Nat /\ Claims!Fresh \subseteq 1 .. Len(pool)
    BY DEF Claims!Fresh
  <2>2. PICK i \in Claims!Fresh : \A j \in Claims!Fresh : ~ (j < i)
    <3>1. PICK i \in Claims!Fresh : \A j \in Claims!Fresh : ~ (<<j, i>> \in OpToRel(<, Nat))
      BY ONLY <1>2, <2>1, NatLessThanWellFounded, WFMin
    <3> QED  BY <2>1, <3>1 DEF OpToRel
  <2>3. Claims!Oldest \in Claims!Fresh
    <3>1. \A j \in Claims!Fresh : i <= j
      BY <2>1, <2>2
    <3> QED  BY <3>1 DEF Claims!Oldest
  <2>4. Claims!Oldest \in 1 .. Len(pool)
    BY <2>1, <2>3
  <2>5. Claims!Taken = pool[Claims!Oldest] /\ Claims!Rest = SubSeq(pool, Claims!Oldest + 1, Len(pool))
    BY <1>2 DEF Claims!Taken, Claims!Rest
  <2> DEFINE o == Claims!Oldest
  <2> HIDE DEF o
  <2>6. o \in 1 .. Len(pool) /\ Claims!Taken = pool[o] /\ Claims!Rest = SubSeq(pool, o + 1, Len(pool))
    BY <2>4, <2>5 DEF o
  <2>7. pool[o] \in Params
    BY <2>6
  <2>8. /\ SubSeq(pool, o + 1, Len(pool)) \in Seq(Params)
        /\ Len(SubSeq(pool, o + 1, Len(pool))) <= Len(pool)
    BY <2>6
  <2>9. Len(SubSeq(pool, o + 1, Len(pool))) \in Nat /\ Len(pool) \in Nat
    BY <2>8
  <2> QED  BY <1>0, <2>6, <2>7, <2>8, <2>9
<1> QED  BY <1>1, <1>2

LEMMA ClaimStarts == ZcodeAssumption /\ Claims!Init => ClaimInv
<1> SUFFICES ASSUME ZcodeAssumption, Claims!Init PROVE ClaimInv
  OBVIOUS
<1>1. Capacity \in Nat /\ 0 \in 0 .. MaxEvents
  BY DEF ZcodeAssumption
<1>2. Claims!Idle \in Ticks /\ Claims!Idle.at = "idle" /\ Claims!Idle.outs = {}
      /\ Claims!Idle.found = {} /\ Claims!Idle.unread = {}
  BY DEF Claims!Idle, Ticks
<1>3. pool = <<>> /\ <<>> \in Seq(Params) /\ Len(<<>>) = 0
  BY DEF Claims!Init
<1>4. plan \in [Claims!Plans -> Claims!PlanStates]
  BY DEF Claims!Init, Claims!PlanStates
<1>5. Claims!TypeOK
  BY <1>1, <1>2, <1>3, <1>4 DEF Claims!Init, Claims!TypeOK
<1> QED  BY <1>2, <1>5 DEF Claims!Init, ClaimInv

LEMMA MissesCounted ==
  ASSUME ZcodeAssumption, missed \in 0 .. MaxEvents, Claims!Fault \/ Claims!NoFault
  PROVE  missed' \in 0 .. MaxEvents
BY DEF ZcodeAssumption, Claims!Fault, Claims!NoFault

\* The steps of a tick.
LEMMA TickSteps ==
  ASSUME ZcodeAssumption, ClaimInv, Claims!Begin \/ Claims!Steps
  PROVE  ClaimInv'
<1>1. /\ plan \in [Claims!Plans -> Claims!PlanStates] /\ session \in BOOLEAN /\ spent \subseteq Params
      /\ want \in Claims!Plans \cup {NoPlan} /\ kind \in Claims!Outcomes \cup {"none"}
      /\ hold \in {"none", "cooldown", "login", "hour", "day"}
      /\ pool \in Seq(Params) /\ Len(pool) <= Capacity /\ stale \subseteq Params
      /\ missed \in 0 .. MaxEvents /\ tick \in Ticks
  BY DEF ClaimInv, Claims!TypeOK
<1>2. /\ tick.found \subseteq Claims!Plans /\ tick.unread \subseteq Claims!Lists
      /\ tick.targets \subseteq Claims!Plans /\ tick.left \subseteq Claims!Plans
      /\ tick.outs \subseteq Claims!Outcomes
  BY <1>1 DEF Ticks
<1>3. ASSUME tick' \in Ticks, plan' \in [Claims!Plans -> Claims!PlanStates], UNCHANGED <<session, want, stale>>,
             kind' \in Claims!Outcomes \cup {"none"}, hold' \in {"none", "cooldown", "login", "hour", "day"},
             spent' \subseteq Params, pool' \in Seq(Params), Len(pool') <= Capacity, missed' \in 0 .. MaxEvents
      PROVE  Claims!TypeOK'
  BY <1>1, <1>3 DEF Claims!TypeOK, Ticks
<1>4. ASSUME Claims!Begin PROVE ClaimInv'
  <2>1. tick' \in Ticks /\ tick'.at = "banner" /\ tick'.outs = {}
    BY <1>1, <1>4 DEF Claims!Begin, Ticks, ClaimInv
  <2>2. Claims!TypeOK'
    BY <1>1, <1>3, <1>4, <2>1 DEF Claims!Begin, Claims!upstream
  <2> QED  BY <2>1, <2>2 DEF ClaimInv
<1>5. ASSUME NEW list \in Claims!Lists, NEW next \in {"preview", "select"}, list # "claim", Claims!Read(list, next) PROVE ClaimInv'
  <2>1. tick.outs = {}
    BY <1>5 DEF ClaimInv, Claims!Read, Claims!Lists
  <2>2. tick' \in Ticks /\ tick'.at = next /\ tick'.outs = {}
    <3>1. CASE tick' = [tick EXCEPT !.at = next, !.found = @ \cup Claims!Visible(list)]
      BY <1>1, <2>1, <3>1 DEF Ticks, Claims!Visible
    <3>2. CASE tick' = [tick EXCEPT !.at = next, !.unread = @ \cup {list}]
      BY <1>1, <2>1, <3>2 DEF Ticks
    <3> QED  BY <1>5, <3>1, <3>2 DEF Claims!Read
  <2>3. missed' \in 0 .. MaxEvents
    BY <1>1, <1>5, MissesCounted DEF Claims!Read
  <2>4. Claims!TypeOK'
    BY <1>1, <1>3, <1>5, <2>2, <2>3 DEF Claims!Read, Claims!upstream
  <2> QED  BY <2>2, <2>4 DEF ClaimInv
<1>6. ASSUME Claims!Select PROVE ClaimInv'
  <2>1. Claims!Targets \subseteq Claims!Plans /\ tick.outs = {}
    BY <1>2, <1>6 DEF Claims!Targets, Claims!Select, ClaimInv
  <2>2. kind' \in Claims!Outcomes \cup {"none"}
    BY <1>1, <1>6 DEF Claims!Select
  <2>3. CASE Claims!Targets = {}
    <3>1. tick' \in Ticks /\ tick'.at = "idle" /\ tick'.outs = {}
      BY <1>6, <2>3 DEF Claims!Select, Claims!Idle, Ticks
    <3>2. Claims!TypeOK'
      BY <1>1, <1>3, <1>6, <2>2, <3>1 DEF Claims!Select, Claims!upstream
    <3> QED  BY <3>1, <3>2 DEF ClaimInv
  <2>4. CASE Claims!Targets # {}
    <3> DEFINE T == Claims!Targets
    <3>1. tick' = [tick EXCEPT !.at = "claim", !.targets = T, !.left = T]
      BY <1>6, <2>4 DEF Claims!Select
    <3> HIDE DEF T
    <3>2. tick' \in Ticks
      BY <1>1, <2>1, <3>1 DEF Ticks, T
    <3>3. tick'.targets = T /\ tick'.left = T
      BY <1>1, <3>1 DEF Ticks
    <3>4. Claims!TypeOK'
      BY <1>1, <1>3, <1>6, <2>2, <3>2 DEF Claims!Select, Claims!upstream
    <3>5. tick'.at = "claim"
      BY <1>1, <3>1 DEF Ticks
    <3> QED  BY <2>4, <3>2, <3>3, <3>4, <3>5 DEF ClaimInv, Accounted, T
  <2> QED  BY <2>3, <2>4
<1>7. ASSUME Claims!Claim PROVE ClaimInv'
  <2>0. tick.at = "claim"
    BY <1>7 DEF Claims!Claim
  <2> DEFINE v(p) == Claims!Verdict(p, Claims!Taken)
  <2>a. PICK p \in tick.left : \E o \in {v(p), "other"} :
          /\ IF o = v(p) THEN Claims!NoFault /\ Claims!Grants(p, Claims!Taken)
             ELSE Claims!Fault /\ (Claims!Grants(p, Claims!Taken) \/ UNCHANGED plan)
          /\ tick' = [tick EXCEPT !.left = @ \ {p}, !.outs = @ \cup {o}]
    BY <1>7 DEF Claims!Claim
  <2>1. PICK o \in {v(p), "other"} :
          /\ IF o = v(p) THEN Claims!NoFault /\ Claims!Grants(p, Claims!Taken)
             ELSE Claims!Fault /\ (Claims!Grants(p, Claims!Taken) \/ UNCHANGED plan)
          /\ tick' = [tick EXCEPT !.left = @ \ {p}, !.outs = @ \cup {o}]
    BY <2>a
  <2>2. p \in Claims!Plans
    BY <1>2, <2>a
  <2>3. /\ v(p) \in Claims!Outcomes
        /\ v(p) = "already_claimed" => plan[p] = "taken"
    BY Ranks DEF Claims!Verdict, Good
  <2>4. o \in Claims!Outcomes
    BY <2>1, <2>3, Ranks
  <2>5. /\ plan' \in [Claims!Plans -> Claims!PlanStates]
        /\ \A q \in Claims!Plans : plan[q] = "taken" => plan'[q] = "taken"
        /\ o = "ok" => plan'[p] = "taken"
    <3>1. plan' = plan \/ plan' = [plan EXCEPT ![p] = "taken"]
      BY <2>1 DEF Claims!Grants
    <3>2. o = "ok" => plan' = [plan EXCEPT ![p] = "taken"]
      BY <2>1 DEF Claims!Grants
    <3> QED  BY <1>1, <2>2, <3>1, <3>2 DEF Claims!PlanStates
  <2>6. tick' \in Ticks
    <3>1. tick.left \ {p} \in SUBSET Claims!Plans /\ tick.outs \cup {o} \in SUBSET Claims!Outcomes
      BY <1>2, <2>4
    <3> QED  BY <1>1, <2>1, <3>1 DEF Ticks
  <2>7. /\ tick'.at = "claim" /\ tick'.targets = tick.targets
        /\ tick'.left = tick.left \ {p} /\ tick'.outs = tick.outs \cup {o}
    BY <1>1, <2>0, <2>1 DEF Ticks
  <2>8. \A q \in tick'.targets : Accounted(q)'
    <3> SUFFICES ASSUME NEW q \in tick.targets PROVE Accounted(q)'
      BY <2>7
    <3>1. Accounted(q) /\ q \in Claims!Plans
      BY <1>2, <2>0 DEF ClaimInv
    <3>2. CASE q = p
      <4>1. o \in Good => plan'[p] = "taken"
        BY <2>1, <2>2, <2>3, <2>5 DEF Good
      <4> QED  BY <2>7, <3>2, <4>1 DEF Accounted
    <3>3. CASE q # p
      BY <2>5, <2>7, <3>1, <3>3 DEF Accounted
    <3> QED  BY <3>2, <3>3
  <2>9. Claims!TypeOK'
    <3>1. missed' \in 0 .. MaxEvents
      BY <1>1, <2>1, MissesCounted
    <3>2. pool' \in Seq(Params) /\ Len(pool') <= Capacity /\ spent' \subseteq Params
      BY <1>1, <1>7, TakenFromPool DEF Claims!Claim
    <3> QED  BY <1>1, <1>3, <1>7, <2>5, <2>6, <3>1, <3>2 DEF Claims!Claim
  <2>10. tick'.outs # {}
    BY <2>7
  <2> QED  BY <2>6, <2>7, <2>8, <2>9, <2>10 DEF ClaimInv
<1>8. ASSUME Claims!Fold PROVE ClaimInv'
  <2>1. tick' \in Ticks /\ tick'.at = "idle" /\ tick'.outs = {}
    BY <1>8 DEF Claims!Fold, Claims!Idle, Ticks
  <2>2. Claims!Worst \in Claims!Outcomes
    BY <1>2, <1>8, WorstIsWorst DEF Claims!Fold, ClaimInv
  <2>3. Claims!HoldOf(Claims!Worst) \in {"none", "cooldown", "login", "hour", "day"}
    BY DEF Claims!HoldOf
  <2>4. Claims!TypeOK'
    BY <1>1, <1>3, <1>8, <2>1, <2>2, <2>3 DEF Claims!Fold, Claims!upstream
  <2> QED  BY <2>1, <2>4 DEF ClaimInv
<1> QED  BY <1>4, <1>5, <1>6, <1>7, <1>8 DEF Claims!Steps, Claims!Lists

\* What happens around a tick takes no plan away from the account.
LEMMA AroundTick ==
  ASSUME ZcodeAssumption, ClaimInv, Claims!Next, ~ (Claims!Begin \/ Claims!Steps)
  PROVE  ClaimInv'
<1>1. /\ plan \in [Claims!Plans -> Claims!PlanStates] /\ session \in BOOLEAN /\ spent \subseteq Params
      /\ want \in Claims!Plans \cup {NoPlan} /\ kind \in Claims!Outcomes \cup {"none"}
      /\ hold \in {"none", "cooldown", "login", "hour", "day"}
      /\ pool \in Seq(Params) /\ Len(pool) <= Capacity /\ stale \subseteq Params
      /\ missed \in 0 .. MaxEvents /\ tick \in Ticks
      /\ tick.found \subseteq Claims!Plans /\ tick.unread \subseteq Claims!Lists
      /\ tick.outs \subseteq Claims!Outcomes
  BY DEF ClaimInv, Claims!TypeOK
<1>2. ASSUME plan' \in [Claims!Plans -> Claims!PlanStates], tick' = tick,
             \A q \in Claims!Plans : plan[q] = "taken" => plan'[q] = "taken",
             session' \in BOOLEAN, spent' \subseteq Params, want' \in Claims!Plans \cup {NoPlan},
             kind' = kind, hold' \in {"none", "cooldown", "login", "hour", "day"},
             pool' \in Seq(Params), Len(pool') <= Capacity, stale' \subseteq Params,
             missed' \in 0 .. MaxEvents
      PROVE  ClaimInv'
  <2>1. Claims!TypeOK'
    BY <1>1, <1>2 DEF Claims!TypeOK
  <2>2. tick.targets \subseteq Claims!Plans
    BY <1>1 DEF Ticks
  <2> QED  BY <1>1, <1>2, <2>1, <2>2 DEF ClaimInv, Accounted
<1>3. CASE Claims!HoldEnds
  BY <1>1, <1>2, <1>3 DEF Claims!HoldEnds, Claims!upstream
<1>4. CASE Claims!DayRolls
  <2>1. /\ plan' \in [Claims!Plans -> Claims!PlanStates]
        /\ \A q \in Claims!Plans : plan[q] = "taken" => plan'[q] = "taken"
    BY <1>1, <1>4 DEF Claims!DayRolls, Claims!PlanStates
  <2> QED  BY <1>1, <1>2, <1>4, <2>1 DEF Claims!DayRolls
<1>5. CASE Claims!ChatTakes
  <2>1. missed' \in 0 .. MaxEvents
    BY <1>1, <1>5, MissesCounted DEF Claims!ChatTakes
  <2>2. pool' \in Seq(Params) /\ Len(pool') <= Capacity /\ spent' \subseteq Params
    BY <1>1, <1>5, TakenFromPool DEF Claims!ChatTakes
  <2> QED  BY <1>1, <1>2, <1>5, <2>1, <2>2 DEF Claims!ChatTakes
<1>6. CASE Claims!Session
  <2>1. missed' \in 0 .. MaxEvents
    BY <1>1, <1>6, MissesCounted DEF Claims!Session
  <2> QED  BY <1>1, <1>2, <1>6, <2>1 DEF Claims!Session
<1>7. CASE Claims!GrowsStale
  <2>1. missed' \in 0 .. MaxEvents
    BY <1>1, <1>7, MissesCounted DEF Claims!GrowsStale
  <2>2. Head(pool) \in Params
    BY <1>1, <1>7 DEF Claims!GrowsStale
  <2> QED  BY <1>1, <1>2, <1>7, <2>1, <2>2 DEF Claims!GrowsStale, Claims!upstream
<1>8. ASSUME NEW c \in Params, Claims!Mints(c) PROVE ClaimInv'
  <2>1. missed' \in 0 .. MaxEvents
    BY <1>1, <1>8, MissesCounted DEF Claims!Mints
  <2>2. Capacity \in Nat \ {0}
    BY DEF ZcodeAssumption
  <2>3. pool' \in Seq(Params) /\ Len(pool') <= Capacity
    <3>1. CASE Len(pool) >= Capacity
      <4>1. pool # <<>>
        BY <2>2, <3>1
      <4>2. Tail(pool) \in Seq(Params) /\ Len(Tail(pool)) = Len(pool) - 1
        BY <1>1, <4>1
      <4>3. pool' = Append(Tail(pool), c)
        BY <1>8, <3>1 DEF Claims!Mints, Claims!Put
      <4>4. Append(Tail(pool), c) \in Seq(Params) /\ Len(Append(Tail(pool), c)) = Len(Tail(pool)) + 1
        BY <4>2
      <4> QED  BY <1>1, <2>2, <4>2, <4>3, <4>4
    <3>2. CASE ~ (Len(pool) >= Capacity)
      <4>1. pool' = Append(pool, c)
        BY <1>8, <3>2 DEF Claims!Mints, Claims!Put
      <4> QED  BY <1>1, <2>2, <3>2, <4>1
    <3> QED  BY <3>1, <3>2
  <2> QED  BY <1>1, <1>2, <1>8, <2>1, <2>3 DEF Claims!Mints, Claims!upstream
<1>9. ASSUME NEW p \in Claims!Plans, Claims!PanelClaims(p) \/ Claims!Campaign(p) PROVE ClaimInv'
  <2>1. missed' \in 0 .. MaxEvents
    BY <1>1, <1>9, MissesCounted DEF Claims!PanelClaims, Claims!Campaign
  <2>2. /\ plan' \in [Claims!Plans -> Claims!PlanStates]
        /\ \A q \in Claims!Plans : plan[q] = "taken" => plan'[q] = "taken"
    <3>1. PICK s \in Claims!PlanStates : plan' = [plan EXCEPT ![p] = s] /\ (plan[p] = "taken" => s = "taken")
      BY <1>9 DEF Claims!PanelClaims, Claims!Campaign, Claims!PlanStates
    <3> QED  BY <1>1, <3>1
  <2> QED  BY <1>1, <1>2, <1>9, <2>1, <2>2 DEF Claims!PanelClaims, Claims!Campaign
<1>10. ASSUME NEW p \in Claims!Plans \cup {NoPlan}, Claims!Configures(p) PROVE ClaimInv'
  <2>1. missed' \in 0 .. MaxEvents
    BY <1>1, <1>10, MissesCounted DEF Claims!Configures
  <2> QED  BY <1>1, <1>2, <1>10, <2>1 DEF Claims!Configures, Claims!upstream
<1> QED  BY <1>3, <1>4, <1>5, <1>6, <1>7, <1>8, <1>9, <1>10 DEF Claims!Next

LEMMA ClaimSteps == ZcodeAssumption /\ ClaimInv /\ Claims!Next => ClaimInv'
BY TickSteps, AroundTick

LEMMA ClaimRests == ClaimInv /\ UNCHANGED Claims!vars => ClaimInv'
<1> SUFFICES ASSUME ClaimInv, UNCHANGED Claims!vars PROVE ClaimInv'
  OBVIOUS
<1>1. UNCHANGED <<plan, session, spent, want, hold, kind, pool, stale, tick, missed>>
  BY DEF Claims!vars, Claims!upstream
<1>2. Claims!TypeOK'
  BY <1>1 DEF ClaimInv, Claims!TypeOK
<1> QED  BY <1>1, <1>2 DEF ClaimInv, Accounted

\* Only a tick that read both lists and whose targets are all the account's
\* leaves it alone for a day.
LEMMA DayEarned ==
  ASSUME ZcodeAssumption, ClaimInv, Claims!Next \/ UNCHANGED Claims!vars, hold' = "day", hold # "day"
  PROVE  tick.unread = {} /\ \A p \in tick.targets : plan[p] = "taken"
<1>1. CASE Claims!Fold
  <2>1. tick.outs # {} /\ tick.outs \subseteq Claims!Outcomes /\ tick.at = "claim" /\ tick.left = {}
    BY <1>1 DEF Claims!Fold, ClaimInv, Claims!TypeOK
  <2>2. tick.unread = {} /\ Claims!HoldOf(Claims!Worst) = "day"
    BY <1>1 DEF Claims!Fold
  <2>3. Claims!Worst \in Good
    BY <2>2 DEF Claims!HoldOf, Good
  <2>4. tick.outs \subseteq Good
    BY <2>1, <2>3, WorstIsWorst
  <2> QED  BY <2>1, <2>2, <2>4 DEF ClaimInv, Accounted
<1>2. CASE ~ Claims!Fold
  <2>1. hold' = hold \/ hold' = "none"
    <3>1. CASE Claims!Begin \/ Claims!Steps
      BY <1>2, <3>1 DEF Claims!Begin, Claims!Steps, Claims!Read, Claims!Select, Claims!Claim
    <3>2. CASE UNCHANGED Claims!vars
      BY <3>2 DEF Claims!vars
    <3>3. CASE Claims!Next /\ ~ (Claims!Begin \/ Claims!Steps)
      BY <3>3 DEF Claims!Next, Claims!HoldEnds, Claims!DayRolls, Claims!ChatTakes, Claims!Session,
         Claims!GrowsStale, Claims!Mints, Claims!PanelClaims, Claims!Campaign, Claims!Configures
    <3> QED  BY <3>1, <3>2, <3>3
  <2> QED  BY <2>1
<1> QED  BY <1>1, <1>2

-----------------------------------------------------------------------------
(* The accounts.  A goroutine that is at work has its account, and whoever  *)
(* asks for an account's credits holds its flight, alone.                    *)

Tasks == [at : {"idle", "fetch", "ask", "wait", "store", "decide", "save"},
          kind : {"row", "reconcile", "switch"}, account : Account!Accounts \cup {NoOne},
          disabled : BOOLEAN, credits : Account!Known, was : Account!Known \cup {"waits"},
          note : Account!Known]

Flying(t) == t.at \in {"ask", "store"}
Sound(t) ==
  /\ t.at # "idle" => t.account \in Account!Accounts
  /\ Flying(t) => t.was \in Account!Known

AccountTypes ==
  /\ up \in [Account!Accounts -> {"some", "none"}]
  /\ doc \in [Account!Accounts -> [disabled : BOOLEAN, note : Account!Known]]
  /\ cache \in [Account!Accounts -> [credits : Account!Known, age : {"absent", "fresh", "stale"}]]
  /\ noted \in [Account!Accounts -> [disabled : BOOLEAN, note : Account!Known \cup {"absent"}]]
  /\ active \in Account!Accounts \cup {NoOne}
  /\ flight \in [Account!Accounts -> Account!Goroutines \cup {NoOne}]

Flights ==
  \A a \in Account!Accounts, g \in Account!Goroutines :
    flight[a] = g <=> Flying(task[g]) /\ task[g].account = a

AccountInv ==
  /\ AccountTypes
  /\ task \in [Account!Goroutines -> Tasks]
  /\ \A g \in Account!Goroutines : Sound(task[g])
  /\ Flights

\* The first of a set of accounts in the host's order is one of them.
LEMMA FirstIsOne ==
  ASSUME ZcodeAssumption, NEW S, S \subseteq Account!Accounts, S # {}
  PROVE  Account!FirstOf(S) \in S
<1>0. Order \in Seq({Order[i] : i \in DOMAIN Order})
  BY DEF ZcodeAssumption
<1> DEFINE places == {i \in DOMAIN Order : Order[i] \in S}
<1>1. places \subseteq Nat /\ places # {}
  BY <1>0 DEF Account!Accounts
<1>2. \E i \in places : \A j \in places : ~ (j < i)
  <2>1. PICK i \in places : \A j \in places : ~ (<<j, i>> \in OpToRel(<, Nat))
    BY ONLY <1>1, NatLessThanWellFounded, WFMin
  <2> QED  BY <1>1, <2>1 DEF OpToRel
<1>3. \E i \in DOMAIN Order : Order[i] \in S /\ \A j \in DOMAIN Order : Order[j] \in S => i <= j
  BY <1>1, <1>2
<1> QED  BY <1>3 DEF Account!FirstOf

\* The pick and the default are accounts, if anything.
LEMMA PickedIsOne ==
  ASSUME ZcodeAssumption, active \in Account!Accounts \cup {NoOne}
  PROVE  /\ Account!Pick \in Account!Accounts \cup {NoOne}
         /\ Account!Default \in Account!Accounts \cup {NoOne}
<1>1. Account!Ready \subseteq Account!Accounts /\ Account!Enabled \subseteq Account!Accounts
  BY DEF Account!Ready, Account!Enabled
<1>2. ASSUME NEW S, S \subseteq Account!Accounts
      PROVE  Account!FirstOf(S) \in Account!Accounts \cup {NoOne}
  <2>1. CASE S = {}
    BY <2>1 DEF Account!FirstOf
  <2>2. CASE S # {}
    BY <1>2, <2>2, FirstIsOne
  <2> QED  BY <2>1, <2>2
<1> QED  BY <1>1, <1>2 DEF Account!Pick, Account!Default

LEMMA AccountStarts == Account!Init => AccountInv
<1> SUFFICES ASSUME Account!Init PROVE AccountInv
  OBVIOUS
<1>1. Account!Idle \in Tasks /\ Sound(Account!Idle) /\ ~ Flying(Account!Idle)
  BY DEF Account!Idle, Tasks, Account!Known, Sound, Flying
<1>2. AccountTypes
  BY DEF Account!Init, AccountTypes, Account!NoEntry, Account!NoMemo, Account!Known
<1>3. Flights
  <2>1. NoOne \notin Account!Goroutines
    BY ZcodeAssumption DEF ZcodeAssumption, Account!Goroutines
  <2> QED  BY <1>1, <2>1 DEF Account!Init, Flights
<1> QED  BY <1>1, <1>2, <1>3 DEF Account!Init, AccountInv

\* One goroutine moves and takes or leaves no flight.
LEMMA OneTaskMoves ==
  ASSUME AccountInv, AccountTypes', UNCHANGED flight, NEW g \in Account!Goroutines,
         NEW t \in Tasks, Sound(t), Account!Becomes(g, t),
         (Flying(t) \/ Flying(task[g])) => Flying(t) /\ Flying(task[g]) /\ t.account = task[g].account
  PROVE  AccountInv'
<1>1. task \in [Account!Goroutines -> Tasks] /\ (\A h \in Account!Goroutines : Sound(task[h])) /\ Flights
  BY DEF AccountInv
<1>2. /\ task' \in [Account!Goroutines -> Tasks] /\ task'[g] = t
      /\ \A h \in Account!Goroutines \ {g} : task'[h] = task[h]
  BY <1>1 DEF Account!Becomes
<1>3. \A h \in Account!Goroutines : Sound(task'[h])
  BY <1>1, <1>2
<1>4. \A h \in Account!Goroutines : (Flying(task'[h]) <=> Flying(task[h])) /\ (Flying(task[h]) => task'[h].account = task[h].account)
  BY <1>2
<1>5. Flights'
  BY <1>1, <1>4 DEF Flights
<1> QED  BY <1>2, <1>3, <1>5 DEF AccountInv

\* Chats, the dashboard and the operator.
LEMMA ChatSteps ==
  ASSUME ZcodeAssumption, AccountInv, Account!Chat \/ Account!Dashboard
  PROVE  AccountInv'
<1>1. AccountTypes /\ NoOne \notin Account!Goroutines
  BY DEF AccountInv, ZcodeAssumption, Account!Goroutines
<1>2. Account!Pick \in Account!Accounts \cup {NoOne} /\ Account!Default \in Account!Accounts \cup {NoOne}
  BY <1>1, PickedIsOne DEF AccountTypes
<1>3. AccountTypes'
  <2>1. CASE Account!Chat
    <3>1. cache' \in [Account!Accounts -> [credits : Account!Known, age : {"absent", "fresh", "stale"}]]
      <4> DEFINE p == Account!Pick
                 dropped == [credits |-> "nil", age |-> "fresh"]
      <4>1. dropped \in [credits : Account!Known, age : {"absent", "fresh", "stale"}]
        BY DEF Account!Known
      <4>2. cache' \in {cache, [cache EXCEPT ![p] = dropped]}
        BY <2>1 DEF Account!Chat
      <4> HIDE DEF p, dropped
      <4> QED  BY <1>1, <4>1, <4>2 DEF AccountTypes
    <3> QED  BY <1>1, <1>2, <2>1, <3>1 DEF Account!Chat, AccountTypes
  <2>2. CASE Account!Dashboard
    <3>1. cache' \in [Account!Accounts -> [credits : Account!Known, age : {"absent", "fresh", "stale"}]]
      <4>1. Account!NoEntry \in [credits : Account!Known, age : {"absent", "fresh", "stale"}]
        BY DEF Account!NoEntry, Account!Known
      <4> QED  BY <1>1, <2>2, <4>1 DEF Account!Dashboard, AccountTypes
    <3> QED  BY <1>1, <1>2, <2>2, <3>1 DEF Account!Dashboard, AccountTypes
  <2> QED  BY <2>1, <2>2
<1>4. flight' = flight
  BY DEF Account!Chat, Account!Dashboard
<1>5. CASE UNCHANGED task
  BY <1>3, <1>4, <1>5 DEF AccountInv, Flights
<1>6. CASE Account!At("reconcile", "idle") /\ Account!Pick # NoOne /\ Account!Begun("reconcile", "reconcile", Account!Pick)
  <2> DEFINE a == Account!Pick
             flag == doc[a].disabled
             t == [Account!Idle EXCEPT !.at = "fetch", !.kind = "reconcile", !.account = a, !.disabled = flag]
  <2>1. a \in Account!Accounts
    BY <1>2, <1>6
  <2> HIDE DEF a
  <2>2. flag \in BOOLEAN
    BY <1>1, <2>1 DEF AccountTypes
  <2> HIDE DEF flag
  <2>3. t \in Tasks /\ t.at = "fetch" /\ t.account = a
    BY <2>1, <2>2 DEF Tasks, Account!Idle, Account!Known
  <2>4. Account!Becomes("reconcile", t)
    BY <1>6 DEF Account!Begun, a, flag
  <2> HIDE DEF t
  <2>5. Sound(t) /\ ~ Flying(t)
    BY <2>1, <2>3 DEF Sound, Flying
  <2>6. ~ Flying(task["reconcile"]) /\ "reconcile" \in Account!Goroutines
    BY <1>6 DEF Account!At, Flying, Account!Goroutines
  <2> QED  BY <1>3, <1>4, <2>3, <2>4, <2>5, <2>6, OneTaskMoves
<1>7. UNCHANGED task \/ (Account!At("reconcile", "idle") /\ Account!Pick # NoOne /\ Account!Begun("reconcile", "reconcile", Account!Pick))
  BY DEF Account!Chat, Account!Dashboard
<1> QED  BY <1>5, <1>6, <1>7

\* What a goroutine begins with.
LEMMA TaskBegins ==
  ASSUME ZcodeAssumption, AccountInv, NEW a \in Account!Accounts,
         Account!SwitchBegins(a) \/ \E kind_ \in {"row", "reconcile"} : Account!PanelBegins(kind_, a)
  PROVE  AccountInv'
<1>1. AccountTypes
  BY DEF AccountInv
<1>2. AccountTypes' /\ flight' = flight
  BY <1>1 DEF AccountTypes, Account!SwitchBegins, Account!PanelBegins
<1>3. Account!At("panel", "idle") /\ "panel" \in Account!Goroutines
  BY DEF Account!SwitchBegins, Account!PanelBegins, Account!Goroutines
<1>4. ~ Flying(task["panel"])
  BY <1>3 DEF Flying, Account!At
<1> DEFINE flag == doc[a].disabled
<1>5. flag \in BOOLEAN
  BY <1>1 DEF AccountTypes
<1> HIDE DEF flag
<1>6. PICK t \in Tasks : Account!Becomes("panel", t) /\ t.at \in {"fetch", "decide"} /\ t.account = a
  <2>1. CASE Account!SwitchBegins(a)
    <3> DEFINE t == [Account!Idle EXCEPT !.at = "decide", !.kind = "switch", !.account = a]
    <3>1. t \in Tasks /\ t.at = "decide" /\ t.account = a
      BY DEF Tasks, Account!Idle, Account!Known
    <3>2. Account!Becomes("panel", t)
      BY <2>1 DEF Account!SwitchBegins
    <3> HIDE DEF t
    <3> QED  BY <3>1, <3>2
  <2>2. ASSUME NEW k \in {"row", "reconcile"}, Account!PanelBegins(k, a)
        PROVE  \E t \in Tasks : Account!Becomes("panel", t) /\ t.at \in {"fetch", "decide"} /\ t.account = a
    <3> DEFINE t == [Account!Idle EXCEPT !.at = "fetch", !.kind = k, !.account = a, !.disabled = flag]
    <3>1. t \in Tasks /\ t.at = "fetch" /\ t.account = a
      BY <1>5, <2>2 DEF Tasks, Account!Idle, Account!Known
    <3>2. Account!Becomes("panel", t)
      BY <2>2 DEF Account!PanelBegins, Account!Begun, flag
    <3> HIDE DEF t
    <3> QED  BY <3>1, <3>2
  <2> QED  BY <2>1, <2>2
<1>7. Sound(t) /\ ~ Flying(t)
  BY <1>6 DEF Sound, Flying
<1> QED  BY <1>2, <1>3, <1>4, <1>6, <1>7, OneTaskMoves

\* The steps of a fetch.
LEMMA FetchSteps ==
  ASSUME ZcodeAssumption, AccountInv, NEW g \in Account!Goroutines,
         Account!Cached(g) \/ Account!Fetch(g) \/ Account!Joined(g) \/ Account!Ask(g) \/ Account!Store(g)
  PROVE  AccountInv'
<1>1. AccountTypes /\ NoOne \notin Account!Goroutines
  BY DEF AccountInv, ZcodeAssumption, Account!Goroutines
<1>2. task \in [Account!Goroutines -> Tasks] /\ (\A h \in Account!Goroutines : Sound(task[h])) /\ Flights
  BY DEF AccountInv
<1> DEFINE s == task[g]
           a == s.account
<1>3. s \in Tasks /\ Sound(s) /\ s.at # "idle"
  BY <1>2 DEF Account!Cached, Account!Fetch, Account!Joined, Account!Ask, Account!Store, Account!At
<1> HIDE DEF s
<1>4. a \in Account!Accounts
  BY <1>3 DEF Sound
<1>5. up[a] \in Account!Known /\ cache[a].credits \in Account!Known
  BY <1>1, <1>4 DEF AccountTypes, Account!Known
<1>6. ASSUME NEW c \in Account!Known, NEW p \in {"decide", "store"}
      PROVE  /\ [s EXCEPT !.at = p, !.credits = c] \in Tasks
             /\ [s EXCEPT !.at = p, !.credits = c].at = p
             /\ [s EXCEPT !.at = p, !.credits = c].account = a
             /\ [s EXCEPT !.at = p, !.credits = c].was = s.was
  BY <1>3, <1>6 DEF Tasks
<1>7. ASSUME NEW c \in Account!Known, Account!Becomes(g, [s EXCEPT !.at = "decide", !.credits = c]),
             ~ Flying(s), AccountTypes', flight' = flight
      PROVE  AccountInv'
  <2> DEFINE t == [s EXCEPT !.at = "decide", !.credits = c]
  <2>1. t \in Tasks /\ t.at = "decide" /\ t.account = a
    BY <1>6, <1>7
  <2> HIDE DEF t
  <2>2. Sound(t) /\ ~ Flying(t)
    BY <1>4, <2>1 DEF Sound, Flying
  <2>3. Account!Becomes(g, t)
    BY <1>7 DEF t
  <2> QED  BY <1>7, <2>1, <2>2, <2>3, OneTaskMoves DEF s
<1>8. CASE Account!Cached(g)
  <2>1. AccountTypes' /\ flight' = flight /\ ~ Flying(s)
    BY <1>1, <1>8 DEF Account!Cached, AccountTypes, Flying, Account!At, s
  <2> QED  BY <1>5, <1>7, <1>8, <2>1 DEF Account!Cached, s
<1>9. CASE Account!Joined(g)
  <2>1. AccountTypes' /\ flight' = flight /\ ~ Flying(s)
    BY <1>1, <1>9 DEF Account!Joined, AccountTypes, Flying, Account!At, s
  <2> DEFINE c == IF cache[a].age = "absent" THEN s.was ELSE cache[a].credits
  <2>2. c \in Account!Known
    BY <1>3, <1>5, <1>9 DEF Account!Joined, Tasks, s
  <2>3. Account!Becomes(g, [s EXCEPT !.at = "decide", !.credits = c])
    BY <1>9 DEF Account!Joined, s
  <2> HIDE DEF c
  <2> QED  BY <1>7, <2>1, <2>2, <2>3
<1>10. CASE Account!Ask(g)
  <2>1. AccountTypes' /\ flight' = flight /\ Flying(s)
    BY <1>1, <1>10 DEF Account!Ask, AccountTypes, Flying, Account!At, s
  <2>2. s.was \in Account!Known
    BY <1>3, <2>1 DEF Sound
  <2>3. PICK c \in Account!Known : Account!Becomes(g, [s EXCEPT !.at = "store", !.credits = c])
    BY <1>5, <1>10, <2>2 DEF Account!Ask, s
  <2> DEFINE t == [s EXCEPT !.at = "store", !.credits = c]
  <2>4. t \in Tasks /\ t.at = "store" /\ t.account = a /\ t.was = s.was
    BY <1>6
  <2> HIDE DEF t
  <2>5. Sound(t) /\ Flying(t)
    BY <1>4, <2>2, <2>4 DEF Sound, Flying
  <2>6. Account!Becomes(g, t)
    BY <2>3 DEF t
  <2> QED  BY <2>1, <2>4, <2>5, <2>6, OneTaskMoves DEF s
<1>11. CASE Account!Fetch(g) /\ flight[a] # NoOne
  <2> DEFINE t == [s EXCEPT !.at = "wait", !.was = "waits"]
  <2>1. t \in Tasks /\ t.at = "wait" /\ t.account = a
    BY <1>3 DEF Tasks
  <2>2. Account!Becomes(g, t) /\ AccountTypes' /\ flight' = flight /\ ~ Flying(s)
    BY <1>1, <1>11 DEF Account!Fetch, AccountTypes, Flying, Account!At, s
  <2> HIDE DEF t
  <2>3. Sound(t) /\ ~ Flying(t)
    BY <1>4, <2>1 DEF Sound, Flying
  <2> QED  BY <2>1, <2>2, <2>3, OneTaskMoves DEF s
<1>12. CASE Account!Fetch(g) /\ flight[a] = NoOne
  <2> DEFINE c == cache[a].credits
             t == [s EXCEPT !.at = "ask", !.was = c]
  <2>0. c \in Account!Known
    BY <1>5
  <2> HIDE DEF c
  <2>1. t \in Tasks /\ t.at = "ask" /\ t.account = a /\ t.was = c
    BY <1>3, <2>0 DEF Tasks
  <2>2. /\ Account!Becomes(g, t) /\ ~ Flying(s) /\ flight' = [flight EXCEPT ![a] = g]
        /\ UNCHANGED <<up, doc, cache, noted, active>>
    BY <1>12 DEF Account!Fetch, Flying, Account!At, s, c
  <2> HIDE DEF t
  <2>3. Sound(t) /\ Flying(t)
    BY <1>4, <2>0, <2>1 DEF Sound, Flying
  <2>4. AccountTypes'
    BY <1>1, <1>4, <2>2 DEF AccountTypes
  <2>5. /\ task' \in [Account!Goroutines -> Tasks] /\ task'[g] = t
        /\ \A h \in Account!Goroutines \ {g} : task'[h] = task[h]
    BY <1>2, <2>1, <2>2 DEF Account!Becomes
  <2>6. flight \in [Account!Accounts -> Account!Goroutines \cup {NoOne}]
    BY <1>1 DEF AccountTypes
  <2>7. Flights'
    <3> SUFFICES ASSUME NEW b \in Account!Accounts, NEW h \in Account!Goroutines
                 PROVE  (flight[b] = h)' <=> (Flying(task'[h]) /\ task'[h].account = b)
      BY DEF Flights
    <3>1. flight[b] = h <=> Flying(task[h]) /\ task[h].account = b
      BY <1>2 DEF Flights
    <3>2. flight'[b] = IF b = a THEN g ELSE flight[b]
      BY <1>4, <2>2, <2>6
    <3>3. CASE h = g
      BY <2>1, <2>2, <2>3, <2>5, <3>1, <3>2, <3>3 DEF s
    <3>4. CASE h # g
      BY <1>1, <1>12, <2>5, <3>1, <3>2, <3>4
    <3> QED  BY <3>3, <3>4
  <2>8. \A h \in Account!Goroutines : Sound(task'[h])
    BY <1>2, <2>3, <2>5
  <2> QED  BY <2>4, <2>5, <2>7, <2>8 DEF AccountInv
<1>13. CASE Account!Store(g)
  <2> DEFINE heard(h) == Account!At(h, "wait") /\ task[h].account = a /\ task[h].was = "waits"
             left_ == [s EXCEPT !.at = "decide"]
             told(h) == [task[h] EXCEPT !.was = s.credits]
  <2>1. /\ cache' = [cache EXCEPT ![a] = [credits |-> s.credits, age |-> "fresh"]]
        /\ flight' = [flight EXCEPT ![a] = NoOne]
        /\ task' = [h \in Account!Goroutines |->
                      IF h = g THEN left_ ELSE IF heard(h) THEN told(h) ELSE task[h]]
        /\ UNCHANGED <<up, doc, noted, active>> /\ Flying(s)
    BY <1>13 DEF Account!Store, Flying, Account!At, s
  <2>2. s.credits \in Account!Known
    BY <1>3 DEF Tasks
  <2>3. left_ \in Tasks /\ left_.at = "decide" /\ left_.account = a
    BY <1>3 DEF Tasks
  <2>4. \A h \in Account!Goroutines : told(h) \in Tasks /\ told(h).at = task[h].at /\ told(h).account = task[h].account
    BY <1>2, <2>2 DEF Tasks
  <2> HIDE DEF left_, told
  <2>5. AccountTypes'
    <3>1. cache' \in [Account!Accounts -> [credits : Account!Known, age : {"absent", "fresh", "stale"}]]
      BY <1>1, <1>4, <2>1, <2>2 DEF AccountTypes
    <3>2. flight' \in [Account!Accounts -> Account!Goroutines \cup {NoOne}]
      BY <1>1, <1>4, <2>1 DEF AccountTypes
    <3> QED  BY <1>1, <2>1, <3>1, <3>2 DEF AccountTypes
  <2>6. task' \in [Account!Goroutines -> Tasks]
    BY <1>2, <2>1, <2>3, <2>4
  <2>7. ~ Flying(task'[g]) /\ Sound(task'[g])
    BY <1>4, <2>1, <2>3 DEF Flying, Sound
  <2>8. ASSUME NEW h \in Account!Goroutines \ {g}
        PROVE  /\ task'[h].at = task[h].at /\ task'[h].account = task[h].account
               /\ Flying(task[h]) => task'[h] = task[h]
    BY <2>1, <2>4 DEF Flying, Account!At
  <2>9. \A h \in Account!Goroutines : Sound(task'[h])
    BY <1>2, <2>7, <2>8 DEF Sound, Flying
  <2>10. flight \in [Account!Accounts -> Account!Goroutines \cup {NoOne}] /\ flight[a] = g
    BY <1>1, <1>2, <1>4, <2>1 DEF AccountTypes, Flights, s
  <2>11. Flights'
    <3> SUFFICES ASSUME NEW b \in Account!Accounts, NEW h \in Account!Goroutines
                 PROVE  (flight[b] = h)' <=> (Flying(task'[h]) /\ task'[h].account = b)
      BY DEF Flights
    <3>1. flight[b] = h <=> Flying(task[h]) /\ task[h].account = b
      BY <1>2 DEF Flights
    <3>2. flight'[b] = IF b = a THEN NoOne ELSE flight[b]
      BY <1>4, <2>1, <2>10
    <3>3. CASE h = g
      BY <1>1, <1>4, <2>1, <2>7, <3>1, <3>2, <3>3 DEF s
    <3>4. CASE h # g
      <4>1. Flying(task'[h]) <=> Flying(task[h])
        BY <2>8, <3>4 DEF Flying
      <4> QED  BY <1>1, <2>8, <2>10, <3>1, <3>2, <3>4, <4>1
    <3> QED  BY <3>3, <3>4
  <2> QED  BY <2>5, <2>6, <2>9, <2>11 DEF AccountInv
<1> QED  BY <1>8, <1>9, <1>10, <1>11, <1>12, <1>13

\* The decision and what is written.
LEMMA WriteSteps ==
  ASSUME ZcodeAssumption, AccountInv, NEW g \in Account!Goroutines,
         Account!Flip(g) \/ Account!Sync(g) \/ Account!SwitchReads(g) \/ Account!Save(g)
  PROVE  AccountInv'
<1>1. AccountTypes
  BY DEF AccountInv
<1> DEFINE s == task[g]
           a == s.account
<1>2. s \in Tasks /\ Sound(s) /\ s.at \in {"decide", "save"}
  BY DEF AccountInv, Account!Flip, Account!Sync, Account!SwitchReads, Account!Save, Account!At
<1> HIDE DEF s
<1>3. a \in Account!Accounts
  BY <1>2 DEF Sound
<1>4. doc[a].disabled \in BOOLEAN /\ doc[a].note \in Account!Known /\ s.disabled \in BOOLEAN
      /\ s.credits \in Account!Known /\ s.note \in Account!Known
  BY <1>1, <1>2, <1>3 DEF AccountTypes, Tasks
<1>5. Account!NoteFor(g) \in Account!Known
  BY <1>4 DEF Account!NoteFor, s
<1>6. ASSUME NEW flag \in BOOLEAN, NEW n \in Account!Known
      PROVE  /\ [s EXCEPT !.at = "save", !.disabled = flag, !.note = n] \in Tasks
             /\ [s EXCEPT !.at = "save", !.disabled = flag, !.note = n].at = "save"
             /\ [s EXCEPT !.at = "save", !.disabled = flag, !.note = n].account = a
  BY <1>2 DEF Tasks
<1>7. Account!Idle \in Tasks /\ Sound(Account!Idle) /\ ~ Flying(Account!Idle)
  BY DEF Account!Idle, Tasks, Account!Known, Sound, Flying
<1>8. flight' = flight /\ ~ Flying(task[g])
  BY <1>2 DEF Account!Flip, Account!Sync, Account!SwitchReads, Account!Save, Flying, s
<1>9. AccountTypes'
  <2>1. CASE Account!Flip(g)
    <3> DEFINE now == ~ s.disabled
    <3>1. now \in BOOLEAN
      OBVIOUS
    <3>2. /\ doc' = [doc EXCEPT ![a] = [disabled |-> now, note |-> s.credits]]
          /\ noted' = [noted EXCEPT ![a] = [disabled |-> now, note |-> s.credits]]
          /\ UNCHANGED <<up, cache, active, flight>>
      BY <2>1 DEF Account!Flip, s
    <3> HIDE DEF now
    <3>3. doc' \in [Account!Accounts -> [disabled : BOOLEAN, note : Account!Known]]
      BY <1>1, <1>3, <1>4, <3>1, <3>2 DEF AccountTypes
    <3>4. noted' \in [Account!Accounts -> [disabled : BOOLEAN, note : Account!Known \cup {"absent"}]]
      BY <1>1, <1>3, <1>4, <3>1, <3>2 DEF AccountTypes
    <3> QED  BY <1>1, <3>2, <3>3, <3>4 DEF AccountTypes
  <2>2. CASE Account!Save(g)
    <3>1. /\ doc' = [doc EXCEPT ![a] = [disabled |-> s.disabled, note |-> s.note]]
          /\ noted' \in {noted, [noted EXCEPT ![a] = [disabled |-> s.disabled, note |-> s.note]]}
          /\ UNCHANGED <<up, cache, active, flight>>
      BY <2>2 DEF Account!Save, s
    <3>2. doc' \in [Account!Accounts -> [disabled : BOOLEAN, note : Account!Known]]
      BY <1>1, <1>3, <1>4, <3>1 DEF AccountTypes
    <3>3. noted' \in [Account!Accounts -> [disabled : BOOLEAN, note : Account!Known \cup {"absent"}]]
      BY <1>1, <1>3, <1>4, <3>1 DEF AccountTypes
    <3> QED  BY <1>1, <3>1, <3>2, <3>3 DEF AccountTypes
  <2>3. CASE Account!Sync(g) \/ Account!SwitchReads(g)
    BY <1>1, <2>3 DEF Account!Sync, Account!SwitchReads, AccountTypes
  <2> QED  BY <2>1, <2>2, <2>3
<1>10. CASE Account!Ends(g)
  BY <1>7, <1>8, <1>9, <1>10, OneTaskMoves DEF Account!Ends
<1>11. ASSUME NEW flag \in BOOLEAN, NEW n \in Account!Known,
              Account!Becomes(g, [s EXCEPT !.at = "save", !.disabled = flag, !.note = n])
       PROVE  AccountInv'
  <2> DEFINE t == [s EXCEPT !.at = "save", !.disabled = flag, !.note = n]
  <2>1. t \in Tasks /\ t.at = "save" /\ t.account = a
    BY <1>6
  <2>2. Account!Becomes(g, t)
    BY <1>11
  <2> HIDE DEF t
  <2>3. Sound(t) /\ ~ Flying(t)
    BY <1>3, <2>1 DEF Sound, Flying
  <2> QED  BY <1>8, <1>9, <2>1, <2>2, <2>3, OneTaskMoves
<1>12. CASE Account!SwitchReads(g)
  BY <1>4, <1>11, <1>12 DEF Account!SwitchReads, s
<1>13. CASE Account!Sync(g)
  <2>1. \/ Account!Ends(g)
        \/ Account!Becomes(g, [s EXCEPT !.at = "save", !.disabled = doc[a].disabled, !.note = Account!NoteFor(g)])
        \/ Account!Becomes(g, [s EXCEPT !.at = "save", !.disabled = s.disabled, !.note = Account!NoteFor(g)])
    BY <1>13 DEF Account!Sync, s
  <2> QED  BY <1>4, <1>5, <1>10, <1>11, <2>1
<1>14. CASE Account!Flip(g) \/ Account!Save(g)
  BY <1>10, <1>14 DEF Account!Flip, Account!Save
<1> QED  BY <1>12, <1>13, <1>14

LEMMA AccountSteps == ZcodeAssumption /\ AccountInv /\ Account!Next => AccountInv'
<1> SUFFICES ASSUME ZcodeAssumption, AccountInv, Account!Next PROVE AccountInv'
  OBVIOUS
<1>1. AccountTypes
  BY DEF AccountInv
<1>2. ASSUME AccountTypes', UNCHANGED <<task, flight>> PROVE AccountInv'
  BY <1>2 DEF AccountInv, Flights
<1>3. ASSUME NEW a \in Account!Accounts, Account!SelectAuth(a) PROVE AccountInv'
  BY <1>1, <1>2, <1>3 DEF Account!SelectAuth, AccountTypes
<1>4. ASSUME NEW a \in Account!Accounts, Account!Ages(a) PROVE AccountInv'
  <2>1. cache' \in [Account!Accounts -> [credits : Account!Known, age : {"absent", "fresh", "stale"}]]
    BY <1>1, <1>4 DEF Account!Ages, AccountTypes
  <2> QED  BY <1>1, <1>2, <1>4, <2>1 DEF Account!Ages, AccountTypes
<1>5. ASSUME NEW a \in Account!Accounts, Account!Moves(a) PROVE AccountInv'
  <2>1. up' \in [Account!Accounts -> {"some", "none"}]
    BY <1>1, <1>5 DEF Account!Moves, AccountTypes
  <2> QED  BY <1>1, <1>2, <1>5, <2>1 DEF Account!Moves, AccountTypes
<1>6. ASSUME NEW a \in Account!Accounts, Account!Edits(a) PROVE AccountInv'
  <2>1. doc' \in [Account!Accounts -> [disabled : BOOLEAN, note : Account!Known]]
    <3> DEFINE edited == [disabled |-> ~ doc[a].disabled, note |-> doc[a].note]
    <3>1. edited \in [disabled : BOOLEAN, note : Account!Known]
      BY <1>1 DEF AccountTypes
    <3>2. doc' = [doc EXCEPT ![a] = edited]
      BY <1>6 DEF Account!Edits
    <3> HIDE DEF edited
    <3> QED  BY <1>1, <3>1, <3>2 DEF AccountTypes
  <2> QED  BY <1>1, <1>2, <1>6, <2>1 DEF Account!Edits, AccountTypes
<1> QED  BY <1>3, <1>4, <1>5, <1>6, ChatSteps, TaskBegins, FetchSteps, WriteSteps DEF Account!Next,
       Account!Works

LEMMA AccountRests == AccountInv /\ UNCHANGED Account!vars => AccountInv'
BY DEF AccountInv, AccountTypes, Flights, Account!vars

-----------------------------------------------------------------------------
(* The logins.  A poll at work belongs to a login that was started and is    *)
(* pinned to its provider; before a copy there is a key.                     *)

Logins == [entry : {"none", "open", "gone"}, provider : Login!Providers,
           grant : {"pending", "ready", "failed"}, late : BOOLEAN]
LoginPolls == [at : {"idle", "ask", "exchange", "locate", "list", "create", "copy"},
               flow : Flows \cup {NoFlow}, provider : Login!Providers]

Pinned(l, f, provider) == f \in Flows /\ l[f].entry # "none" /\ provider = l[f].provider
Polled(l, m, t) ==
  /\ t.at = "idle" => t.flow = NoFlow
  /\ t.at # "idle" => Pinned(l, t.flow, t.provider)
  /\ t.at = "copy" => m[t.provider] > 0
Usable(l, m, x) ==
  x.flow # NoFlow => Pinned(l, x.flow, x.provider) /\ m[x.provider] > 0 /\ (x.provider = "zai" => x.secret)

LoginTypes ==
  /\ chosen \in Login!Providers
  /\ login \in [Flows -> Logins]
  /\ minted \in [Login!Providers -> Nat]
  /\ poll \in [Polls -> LoginPolls]
  /\ stored \in [flow : Flows \cup {NoFlow}, provider : Login!Providers, secret : BOOLEAN]

LoginInv ==
  /\ LoginTypes
  /\ \A p \in Polls : Polled(login, minted, poll[p])
  /\ Usable(login, minted, stored)

LEMMA LoginStarts == Login!Init => LoginInv
<1> SUFFICES ASSUME Login!Init PROVE LoginInv
  OBVIOUS
<1>1. Login!Unborn \in Logins /\ Login!Idle \in LoginPolls /\ Login!Idle.at = "idle" /\ Login!Idle.flow = NoFlow
  BY DEF Login!Unborn, Login!Idle, Logins, LoginPolls, Login!Providers
<1>2. /\ Login!Nothing \in [flow : Flows \cup {NoFlow}, provider : Login!Providers, secret : BOOLEAN]
      /\ Login!Nothing.flow = NoFlow
  BY DEF Login!Nothing, Login!Providers
<1>3. minted \in [Login!Providers -> Nat]
  BY DEF Login!Init
<1> QED  BY <1>1, <1>2, <1>3 DEF Login!Init, LoginInv, LoginTypes, Polled, Usable

\* A login that turns stays started, with its provider.
LEMMA OneLoginTurns ==
  ASSUME LoginInv, NEW f \in Flows, NEW l \in Logins, Login!Turns(f, l),
         login[f].entry # "none" => l.entry # "none" /\ l.provider = login[f].provider
  PROVE  /\ login' \in [Flows -> Logins] /\ login'[f] = l
         /\ \A g \in Flows, provider \in Login!Providers : Pinned(login, g, provider) => Pinned(login', g, provider)
<1>1. login \in [Flows -> Logins]
  BY DEF LoginInv, LoginTypes
<1>2. login' \in [Flows -> Logins] /\ login'[f] = l /\ \A g \in Flows \ {f} : login'[g] = login[g]
  BY <1>1 DEF Login!Turns
<1> QED  BY <1>2 DEF Pinned

\* Keys are only added, and pins stay: the polls that do not move and what is
\* stored keep what they rest on.
LEMMA OnePollMoves ==
  ASSUME LoginInv, LoginTypes', NEW p \in Polls, NEW t \in LoginPolls, Login!Becomes(p, t), Polled(login', minted', t),
         \A g \in Flows, provider \in Login!Providers : Pinned(login, g, provider) => Pinned(login', g, provider),
         \A x \in Login!Providers : minted[x] > 0 => minted'[x] > 0,
         stored' = stored \/ Usable(login', minted', stored')
  PROVE  LoginInv'
<1>1. LoginTypes /\ (\A q \in Polls : Polled(login, minted, poll[q])) /\ Usable(login, minted, stored)
  BY DEF LoginInv
<1>2. poll' \in [Polls -> LoginPolls] /\ poll'[p] = t /\ \A q \in Polls \ {p} : poll'[q] = poll[q]
  BY <1>1 DEF LoginTypes, Login!Becomes
<1>3. ASSUME NEW q \in Polls PROVE Polled(login', minted', poll'[q])
  <2>1. CASE q = p
    BY <1>2, <2>1 DEF Polled
  <2>2. CASE q # p
    <3>1. poll'[q] = poll[q] /\ Polled(login, minted, poll[q]) /\ poll[q] \in LoginPolls
      BY <1>1, <1>2, <2>2 DEF LoginTypes
    <3>2. poll[q].provider \in Login!Providers /\ (poll[q].at # "idle" => poll[q].flow \in Flows)
      BY <3>1 DEF LoginPolls, Polled, Pinned
    <3>3. poll[q].at # "idle" => Pinned(login', poll[q].flow, poll[q].provider)
      BY <3>1, <3>2 DEF Polled
    <3>4. poll[q].at = "copy" => minted'[poll[q].provider] > 0
      BY <3>1, <3>2 DEF Polled
    <3> QED  BY <3>1, <3>3, <3>4 DEF Polled, Pinned
  <2> QED  BY <2>1, <2>2
<1>4. Usable(login', minted', stored')
  <2>1. CASE stored' = stored
    <3>1. stored.provider \in Login!Providers
      BY <1>1 DEF LoginTypes
    <3>2. stored.flow # NoFlow => Pinned(login', stored.flow, stored.provider) /\ minted'[stored.provider] > 0
      BY <1>1, <3>1 DEF Usable, Pinned
    <3> QED  BY <1>1, <2>1, <3>2 DEF Usable, Pinned
  <2>2. CASE Usable(login', minted', stored')
    BY <2>2 DEF Usable, Pinned
  <2> QED  BY <2>1, <2>2
<1> QED  BY <1>3, <1>4 DEF LoginInv

\* Logins start, are decided, grow late, and are loaded.
LEMMA FlowSteps ==
  ASSUME LoginInv, NEW f \in Flows,
         Login!StartLogin(f) \/ Login!Decides(f) \/ Login!GrowsLate(f) \/ \E p \in Polls : Login!Load(p, f)
  PROVE  LoginInv'
<1>1. LoginTypes /\ (\A q \in Polls : Polled(login, minted, poll[q])) /\ Usable(login, minted, stored)
  BY DEF LoginInv
<1>2. login[f] \in Logins
  BY <1>1 DEF LoginTypes
<1>3. PICK l \in Logins : Login!Turns(f, l) /\ (login[f].entry # "none" => l.entry # "none" /\ l.provider = login[f].provider)
                          /\ ((\E p \in Polls : Login!Load(p, f)) => l.entry # "none")
  <2>1. CASE Login!StartLogin(f)
    <3> DEFINE l == [login[f] EXCEPT !.entry = "open", !.provider = chosen]
    <3>1. l \in Logins /\ Login!Turns(f, l) /\ login[f].entry = "none" /\ l.entry = "open"
      BY <1>1, <1>2, <2>1 DEF Login!StartLogin, Logins, LoginTypes
    <3> QED  BY <3>1
  <2>2. CASE Login!Decides(f)
    <3>1. PICK g \in {"ready", "failed"} : Login!Turns(f, [login[f] EXCEPT !.grant = g])
      BY <2>2 DEF Login!Decides
    <3> DEFINE l == [login[f] EXCEPT !.grant = g]
    <3>2. l \in Logins /\ l.entry = login[f].entry /\ l.provider = login[f].provider /\ l.entry = "open"
      BY <1>2, <2>2 DEF Logins, Login!Decides
    <3> QED  BY <3>1, <3>2
  <2>3. CASE Login!GrowsLate(f)
    <3> DEFINE l == [login[f] EXCEPT !.late = TRUE]
    <3>1. l \in Logins /\ l.entry = login[f].entry /\ l.provider = login[f].provider /\ l.entry = "open"
      BY <1>2, <2>3 DEF Logins, Login!GrowsLate
    <3> QED  BY <2>3, <3>1 DEF Login!GrowsLate
  <2>4. CASE \E p \in Polls : Login!Load(p, f)
    <3> DEFINE l == Login!Loaded(f)
    <3>1. Login!Turns(f, l) /\ login[f].entry = "open"
      BY <2>4 DEF Login!Load
    <3>2. l \in Logins /\ l.provider = login[f].provider /\ l.entry \in {"open", "gone"}
      BY <1>2, <3>1 DEF Logins, Login!Loaded, Login!Gone
    <3> HIDE DEF l
    <3> QED  BY <3>1, <3>2
  <2> QED  BY <2>1, <2>2, <2>3, <2>4
<1>4. /\ login' \in [Flows -> Logins] /\ login'[f] = l
      /\ \A g \in Flows, provider \in Login!Providers : Pinned(login, g, provider) => Pinned(login', g, provider)
  BY <1>3, OneLoginTurns
<1>5. UNCHANGED <<chosen, minted, stored>>
  BY DEF Login!StartLogin, Login!Decides, Login!GrowsLate, Login!Load
<1>6. CASE UNCHANGED poll
  <2>1. LoginTypes'
    BY <1>1, <1>4, <1>5, <1>6 DEF LoginTypes
  <2>2. ASSUME NEW q \in Polls PROVE Polled(login', minted', poll'[q])
    <3>1. Polled(login, minted, poll[q]) /\ poll[q].provider \in Login!Providers
      BY <1>1 DEF LoginTypes, LoginPolls
    <3> QED  BY <1>4, <1>5, <1>6, <3>1 DEF Polled, Pinned
  <2>3. Usable(login', minted', stored')
    <3>1. Usable(login, minted, stored) /\ stored.provider \in Login!Providers
      BY <1>1 DEF LoginTypes
    <3> QED  BY <1>4, <1>5, <3>1 DEF Usable, Pinned
  <2> QED  BY <2>1, <2>2, <2>3 DEF LoginInv
<1>7. ASSUME NEW p \in Polls, Login!Load(p, f), ~ login[f].late PROVE LoginInv'
  <2> DEFINE t == [at |-> "ask", flow |-> f, provider |-> login[f].provider]
  <2>1. t \in LoginPolls /\ t.at = "ask" /\ t.flow = f /\ t.provider = login[f].provider
    BY <1>2 DEF Logins, LoginPolls
  <2>2. Login!Becomes(p, t)
    BY <1>7 DEF Login!Load, Login!ProviderPinned
  <2> HIDE DEF t
  <2>3. LoginTypes'
    BY <1>1, <1>4, <1>5, <2>1, <2>2 DEF LoginTypes, Login!Becomes
  <2>4. Pinned(login, f, t.provider)
    BY <1>7, <2>1 DEF Pinned, Login!Load
  <2>5. Pinned(login', f, t.provider)
    BY <1>4, <2>1, <2>4 DEF LoginPolls
  <2>6. Polled(login', minted', t)
    BY <2>1, <2>5 DEF Polled, Pinned
  <2> QED  BY <1>4, <1>5, <2>1, <2>2, <2>3, <2>6, OnePollMoves
<1>8. UNCHANGED poll \/ \E p \in Polls : Login!Load(p, f) /\ ~ login[f].late
  BY DEF Login!StartLogin, Login!Decides, Login!GrowsLate, Login!Load
<1> QED  BY <1>6, <1>7, <1>8

\* The steps of a poll.
LEMMA PollSteps ==
  ASSUME LoginInv, NEW p \in Polls, Login!Works(p)
  PROVE  LoginInv'
<1>1. LoginTypes /\ (\A q \in Polls : Polled(login, minted, poll[q])) /\ Usable(login, minted, stored)
  BY DEF LoginInv
<1> DEFINE s == poll[p]
<1>2. s \in LoginPolls /\ Polled(login, minted, s) /\ s.at # "idle"
  BY <1>1 DEF LoginTypes, Login!Works, Login!Ask, Login!Step, Login!ListKeys, Login!CreateKey,
     Login!CopySecret, Login!At
<1> HIDE DEF s
<1>3. Pinned(login, s.flow, s.provider) /\ s.provider \in Login!Providers /\ s.flow \in Flows
  BY <1>2 DEF Polled, Pinned, LoginPolls
<1>4. Login!ProviderOf(p) = s.provider
  BY DEF Login!ProviderOf, s
<1>5. Login!Idle \in LoginPolls /\ Login!Idle.at = "idle" /\ Login!Idle.flow = NoFlow
  BY DEF Login!Idle, LoginPolls, Login!Providers
<1>6. ASSUME NEW place \in {"exchange", "locate", "list", "create", "copy"}
      PROVE  /\ [s EXCEPT !.at = place] \in LoginPolls /\ [s EXCEPT !.at = place].at = place
             /\ [s EXCEPT !.at = place].flow = s.flow /\ [s EXCEPT !.at = place].provider = s.provider
  BY <1>2, <1>6 DEF LoginPolls
\* A poll that goes on, or ends, with no fewer keys.
<1>7. ASSUME UNCHANGED <<chosen, login, stored>>, minted' \in [Login!Providers -> Nat],
             \A x \in Login!Providers : minted[x] > 0 => minted'[x] > 0,
             \/ Login!Ends(p)
             \/ \E place \in {"exchange", "locate", "list", "create"} : Login!Goes(p, place)
             \/ Login!Goes(p, "copy") /\ minted'[s.provider] > 0
      PROVE  LoginInv'
  <2>1. \A g \in Flows, provider \in Login!Providers : Pinned(login, g, provider) => Pinned(login', g, provider)
    BY <1>7 DEF Pinned
  <2>2. ASSUME NEW t \in LoginPolls, Login!Becomes(p, t) PROVE LoginTypes'
    BY <1>1, <1>7, <2>2 DEF LoginTypes, Login!Becomes
  <2>3. CASE Login!Ends(p)
    <3>1. Login!Becomes(p, Login!Idle)
      BY <2>3 DEF Login!Ends
    <3>2. Polled(login', minted', Login!Idle)
      BY <1>5 DEF Polled
    <3> QED  BY <1>5, <1>7, <2>1, <2>2, <3>1, <3>2, OnePollMoves
  <2>4. ASSUME NEW place \in {"exchange", "locate", "list", "create", "copy"}, Login!Goes(p, place),
               place = "copy" => minted'[s.provider] > 0
        PROVE  LoginInv'
    <3> DEFINE t == [s EXCEPT !.at = place]
    <3>1. t \in LoginPolls /\ t.at = place /\ t.flow = s.flow /\ t.provider = s.provider
      BY <1>6, <2>4
    <3>2. Login!Becomes(p, t)
      BY <2>4 DEF Login!Goes, s
    <3> HIDE DEF t
    <3>3. Polled(login', minted', t)
      <4>1. Pinned(login', s.flow, s.provider)
        BY <1>3, <2>1
      <4> QED  BY <2>4, <3>1, <4>1 DEF Polled, Pinned
    <3> QED  BY <1>7, <2>1, <2>2, <3>1, <3>2, <3>3, OnePollMoves
  <2> QED  BY <1>7, <2>3, <2>4
<1>8. CASE Login!Ask(p) \/ Login!Step(p, "exchange", "locate") \/ Login!Step(p, "locate", "list")
  <2>1. /\ UNCHANGED <<chosen, login, stored, minted>>
        /\ Login!Ends(p) \/ \E place \in {"exchange", "locate", "list", "create"} : Login!Goes(p, place)
    BY <1>8 DEF Login!Ask, Login!Step
  <2> QED  BY <1>1, <1>7, <2>1 DEF LoginTypes
<1>9. CASE Login!ListKeys(p)
  <2>1. /\ UNCHANGED <<chosen, login, stored, minted>>
        /\ \/ \E place \in {"exchange", "locate", "list", "create"} : Login!Goes(p, place)
           \/ Login!Goes(p, "copy") /\ minted[s.provider] > 0
    BY <1>4, <1>9 DEF Login!ListKeys
  <2> QED  BY <1>1, <1>7, <2>1 DEF LoginTypes
<1>10. CASE Login!CreateKey(p)
  <2>1. /\ UNCHANGED <<chosen, login, stored>>
        /\ minted' \in {minted, [minted EXCEPT ![s.provider] = @ + 1]}
        /\ Login!Ends(p) \/ (Login!Goes(p, "copy") /\ minted' = [minted EXCEPT ![s.provider] = @ + 1])
    BY <1>4, <1>10 DEF Login!CreateKey
  <2>2. minted \in [Login!Providers -> Nat]
    BY <1>1 DEF LoginTypes
  <2>3. /\ minted' \in [Login!Providers -> Nat]
        /\ \A x \in Login!Providers : minted[x] > 0 => minted'[x] > 0
        /\ minted' = [minted EXCEPT ![s.provider] = @ + 1] => minted'[s.provider] > 0
    BY <1>3, <2>1, <2>2
  <2> QED  BY <1>7, <2>1, <2>3
<1>11. CASE Login!CopySecret(p) /\ UNCHANGED <<login, stored>>
  <2>1. UNCHANGED <<chosen, login, stored, minted>>
    BY <1>11 DEF Login!CopySecret
  <2>2. Login!Ends(p)
    BY <1>11 DEF Login!CopySecret, Login!Success
  <2> QED  BY <1>1, <1>7, <2>1, <2>2 DEF LoginTypes
<1>12. ASSUME NEW secret \in BOOLEAN, s.provider = "zai" => secret, Login!Success(p, secret), s.at = "copy",
              UNCHANGED <<chosen, minted>>
       PROVE  LoginInv'
  <2> DEFINE l == Login!Gone(s.flow)
             x == [flow |-> s.flow, provider |-> s.provider, secret |-> secret]
  <2>1. login[s.flow] \in Logins /\ login[s.flow].entry # "none"
    BY <1>1, <1>3 DEF LoginTypes, Pinned
  <2>2. l \in Logins /\ l.entry # "none" /\ l.provider = login[s.flow].provider
    BY <2>1 DEF Login!Gone, Logins
  <2>3. Login!Turns(s.flow, l) /\ stored' = x /\ Login!Becomes(p, Login!Idle)
    BY <1>4, <1>12 DEF Login!Success, Login!Ends, s
  <2>4. x \in [flow : Flows \cup {NoFlow}, provider : Login!Providers, secret : BOOLEAN]
        /\ x.flow = s.flow /\ x.provider = s.provider /\ x.secret = secret
    BY <1>3
  <2> HIDE DEF l, x
  <2>5. /\ login' \in [Flows -> Logins]
        /\ \A g \in Flows, provider \in Login!Providers : Pinned(login, g, provider) => Pinned(login', g, provider)
    BY <1>3, <2>2, <2>3, OneLoginTurns
  <2>6. minted[s.provider] > 0
    BY <1>2, <1>12 DEF Polled
  <2>7. Usable(login', minted', stored')
    <3>1. Pinned(login', s.flow, s.provider)
      BY <1>3, <2>5
    <3> QED  BY <1>12, <2>3, <2>4, <2>6, <3>1 DEF Usable, Pinned
  <2>8. LoginTypes'
    BY <1>1, <1>5, <1>12, <2>3, <2>4, <2>5 DEF LoginTypes, Login!Becomes
  <2>9. Polled(login', minted', Login!Idle)
    BY <1>5 DEF Polled
  <2> QED  BY <1>5, <1>12, <2>3, <2>5, <2>7, <2>8, <2>9, OnePollMoves
<1>13. CASE Login!CopySecret(p) /\ ~ UNCHANGED <<login, stored>>
  <2>1. /\ s.at = "copy" /\ UNCHANGED <<chosen, minted>>
        /\ Login!Success(p, TRUE) \/ (Login!Success(p, FALSE) /\ s.provider = "bigmodel")
    BY <1>4, <1>13 DEF Login!CopySecret, Login!At, Login!BareKey, s
  <2> QED  BY <1>12, <2>1
<1> QED  BY <1>8, <1>9, <1>10, <1>11, <1>13 DEF Login!Works

LEMMA LoginSteps == LoginInv /\ Login!Next => LoginInv'
<1> SUFFICES ASSUME LoginInv, Login!Next PROVE LoginInv'
  OBVIOUS
<1>1. CASE Login!Chooses
  <2>1. chosen' \in Login!Providers /\ UNCHANGED <<login, minted, poll, stored>>
    BY <1>1 DEF Login!Chooses
  <2> QED  BY <2>1 DEF LoginInv, LoginTypes, Polled, Usable, Pinned
<1> QED  BY <1>1, FlowSteps, PollSteps DEF Login!Next

LEMMA LoginRests == LoginInv /\ UNCHANGED Login!vars => LoginInv'
BY DEF LoginInv, LoginTypes, Polled, Usable, Pinned, Login!vars

-----------------------------------------------------------------------------
(* The rounds and their tickets.  "A finished round has settled all" is not  *)
(* inductive: what survives each step is that at most the CURRENT ticket is  *)
(* unsettled (a swap settles the one it replaces), and that a round inside   *)
(* its first acquire has no ticket yet, so that giving up there leaves       *)
(* nothing behind.                                                           *)

LEMMA OffPeakConstants ==
  /\ Executes \cap Streams = {} /\ NoTicket \notin Tickets
  /\ Budget \in Nat /\ MaxAttempts \in Nat /\ MaxPoll \in Nat \ {0} /\ MaxTime \in Nat
BY ZcodeAssumption DEF ZcodeAssumption

Acquiring == {"start", "take", "queued", "polling"}

OneUnsettled(r) ==
  /\ acquired[r] \subseteq settled \cup {cur[r]}
  /\ pc[r] \in Acquiring /\ ~ resume[r] => cur[r] = NoTicket
  /\ r \in Executes /\ pc[r] = "done" => acquired[r] \subseteq settled

SettleInv == OffPeak!TypeOK /\ \A r \in OffPeak!Rounds : OneUnsettled(r)

\* The invariant of the settle discipline, from which the theorem follows.
LEMMA SettleInductive == SettleInv /\ [OffPeak!Next]_OffPeak!vars => SettleInv'
<1> SUFFICES ASSUME SettleInv, [OffPeak!Next]_OffPeak!vars PROVE SettleInv'
  OBVIOUS
<1> USE OffPeakConstants DEF SettleInv, OffPeak!TypeOK, OneUnsettled, Acquiring, OffPeak!Places,
       OffPeak!Goto
<1>1. ASSUME NEW r \in OffPeak!Rounds, OffPeak!Begin(r) PROVE SettleInv'
  BY <1>1 DEF OffPeak!Begin
<1>2. ASSUME NEW r \in OffPeak!Rounds, OffPeak!TakeRefused(r) PROVE SettleInv'
  BY <1>2 DEF OffPeak!TakeRefused, OffPeak!AcquireFailed
<1>3. ASSUME NEW r \in OffPeak!Rounds, NEW t \in Tickets, OffPeak!TakeQueued(r, t) PROVE SettleInv'
  BY <1>3 DEF OffPeak!TakeQueued, OffPeak!ServerStates, OffPeak!Live
<1>4. ASSUME NEW r \in OffPeak!Rounds, NEW t \in Tickets, OffPeak!TakeReady(r, t) PROVE SettleInv'
  BY <1>4 DEF OffPeak!TakeReady, OffPeak!Acquired, OffPeak!ServerStates, OffPeak!Live
<1>5. ASSUME NEW r \in OffPeak!Rounds, NEW d \in 1..MaxPoll, OffPeak!PollLater(r, d) PROVE SettleInv'
  BY <1>5 DEF OffPeak!PollLater, OffPeak!SleepEnd
<1>6. ASSUME NEW r \in OffPeak!Rounds, NEW d \in 1..MaxPoll, OffPeak!SendQueueAck(r, d) PROVE SettleInv'
  BY <1>6 DEF OffPeak!SendQueueAck, OffPeak!SleepEnd
<1>7. ASSUME NEW r \in OffPeak!Rounds, OffPeak!PollGiveUp(r) PROVE SettleInv'
  BY <1>7 DEF OffPeak!PollGiveUp, OffPeak!AcquireFailed
<1>8. ASSUME NEW r \in OffPeak!Rounds, OffPeak!PollAgain(r) PROVE SettleInv'
  BY <1>8 DEF OffPeak!PollAgain
<1>9. ASSUME NEW r \in OffPeak!Rounds, OffPeak!PollReady(r) PROVE SettleInv'
  BY <1>9 DEF OffPeak!PollReady, OffPeak!Acquired
<1>10. ASSUME NEW r \in OffPeak!Rounds, OffPeak!PollRetake(r) PROVE SettleInv'
  BY <1>10 DEF OffPeak!PollRetake
<1>11. ASSUME NEW r \in OffPeak!Rounds, OffPeak!BuildBody(r) PROVE SettleInv'
  BY <1>11 DEF OffPeak!BuildBody
<1>12. ASSUME NEW r \in OffPeak!Rounds, OffPeak!BuildBodyFails(r) PROVE SettleInv'
  BY <1>12 DEF OffPeak!BuildBodyFails, OffPeak!EndRound, OffPeak!EndRoundUnsettled, OffPeak!Settle,
     OffPeak!ServerStates
<1>13. ASSUME NEW r \in OffPeak!Rounds, OffPeak!SendEnds(r) PROVE SettleInv'
  BY <1>13 DEF OffPeak!SendEnds, OffPeak!EndRound, OffPeak!Settle, OffPeak!ServerStates
<1>14. ASSUME NEW r \in OffPeak!Rounds, OffPeak!BackoffEnds(r) PROVE SettleInv'
  BY <1>14 DEF OffPeak!BackoffEnds
<1>15. ASSUME NEW r \in OffPeak!Rounds, OffPeak!SendTicketExpired(r) PROVE SettleInv'
  <2>1. CASE OffPeak!OutOfBudget(r)
    BY <1>15, <2>1 DEF OffPeak!SendTicketExpired
  <2>2. CASE ~ OffPeak!OutOfBudget(r)
    <3>1. /\ pc' = [pc EXCEPT ![r] = "take"] /\ resume' = [resume EXCEPT ![r] = TRUE]
          /\ UNCHANGED <<clock, srv, owner, tk, cur, deadline, wake, acquired, settled>>
          /\ pc[r] = "send"
          /\ attempt' = [attempt EXCEPT ![r] = @ + 1]
      BY <1>15, <2>2 DEF OffPeak!SendTicketExpired
    <3>2. resume' \in [OffPeak!Rounds -> BOOLEAN] /\ pc' \in [OffPeak!Rounds -> OffPeak!Places]
      BY <3>1
    <3>3. ASSUME NEW q \in OffPeak!Rounds
          PROVE  /\ pc'[q] \in {"queued", "polling"} => tk'[q] \in Tickets
                 /\ pc'[q] \in {"body", "send", "backoff", "failed"} => cur'[q] \in acquired'[q]
                 /\ resume'[q] => cur'[q] \in acquired'[q]
                 /\ OneUnsettled(q)'
      BY <3>1
    <3> QED  BY <3>1, <3>2, <3>3
  <2> QED  BY <2>1, <2>2
<1>16. ASSUME NEW r \in OffPeak!Rounds, OffPeak!SendFails(r) PROVE SettleInv'
  BY <1>16 DEF OffPeak!SendFails
<1>17. ASSUME NEW r \in OffPeak!Rounds, OffPeak!RenderFailure(r) PROVE SettleInv'
  BY <1>17 DEF OffPeak!RenderFailure, OffPeak!EndRound, OffPeak!Settle, OffPeak!ServerStates
<1>18. ASSUME NEW t \in Tickets, OffPeak!Admit(t) \/ OffPeak!Activate(t) \/ OffPeak!Expire(t) PROVE SettleInv'
  BY <1>18 DEF OffPeak!Admit, OffPeak!Activate, OffPeak!Expire, OffPeak!ServerStates, OffPeak!Live
<1>19. CASE OffPeak!Tick
  BY <1>19 DEF OffPeak!Tick
<1>20. CASE UNCHANGED OffPeak!vars
  BY <1>20 DEF OffPeak!vars
<1> HIDE DEF SettleInv, OffPeak!TypeOK, OneUnsettled, Acquiring, OffPeak!Places, OffPeak!Goto
<1>21. ASSUME NEW r \in OffPeak!Rounds, OffPeak!RoundStep(r) PROVE SettleInv'
  BY <1>2, <1>3, <1>4, <1>5, <1>6, <1>7, <1>8, <1>9, <1>10, <1>11, <1>12,
     <1>13, <1>14, <1>15, <1>16, <1>17, <1>21 DEF OffPeak!RoundStep
<1> QED
  BY <1>1, <1>18, <1>19, <1>20, <1>21 DEF OffPeak!Next

\* A ticket is cut for one round and never revived, so what a re-take is
\* offered is not the dead ticket it replaces; and a settled ticket that the
\* server still holds for live (the settle call was lost) belongs to a round
\* that has returned.
Dead == {"expired", "settled"}

Owned(r) ==
  /\ cur[r] # NoTicket => owner[cur[r]] = r /\ srv[cur[r]] # "unborn"
  /\ pc[r] \in {"queued", "polling"} => owner[tk[r]] = r /\ srv[tk[r]] # "unborn"
  /\ resume[r] /\ pc[r] \in Acquiring => srv[cur[r]] \in Dead
  /\ pc[r] \in {"body", "send", "backoff"} => cur[r] \notin settled

Over(t) ==
  /\ srv[t] # "unborn"
  /\ srv[t] \in Dead \/ (owner[t] \in OffPeak!Rounds /\ pc[owner[t]] = "done")

TicketsSound == (\A r \in OffPeak!Rounds : Owned(r)) /\ (\A t \in settled : Over(t))

SentInv == SettleInv /\ TicketsSound

LEMMA SentStep == SentInv /\ [OffPeak!Next]_OffPeak!vars => TicketsSound'
<1> SUFFICES ASSUME SettleInv, TicketsSound, [OffPeak!Next]_OffPeak!vars PROVE TicketsSound'
  BY DEF SentInv, TicketsSound
<1> USE OffPeakConstants DEF SettleInv, OffPeak!TypeOK, TicketsSound, Owned, Over, Dead,
       OffPeak!Live, Acquiring, OffPeak!Goto
<1>1. ASSUME NEW r \in OffPeak!Rounds, OffPeak!Begin(r) PROVE TicketsSound'
  BY <1>1 DEF OffPeak!Begin
<1>2. ASSUME NEW r \in OffPeak!Rounds, OffPeak!TakeRefused(r) PROVE TicketsSound'
  BY <1>2 DEF OffPeak!TakeRefused, OffPeak!AcquireFailed
<1>3. ASSUME NEW r \in OffPeak!Rounds, NEW t \in Tickets, OffPeak!TakeQueued(r, t) PROVE TicketsSound'
  BY <1>3 DEF OffPeak!TakeQueued, OffPeak!Offers
<1>4. ASSUME NEW r \in OffPeak!Rounds, NEW t \in Tickets, OffPeak!TakeReady(r, t) PROVE TicketsSound'
  BY <1>4 DEF OffPeak!TakeReady, OffPeak!Offers, OffPeak!Acquired
<1>5. ASSUME NEW r \in OffPeak!Rounds, NEW d \in 1..MaxPoll, OffPeak!PollLater(r, d) PROVE TicketsSound'
  BY <1>5 DEF OffPeak!PollLater
<1>6. ASSUME NEW r \in OffPeak!Rounds, NEW d \in 1..MaxPoll, OffPeak!SendQueueAck(r, d) PROVE TicketsSound'
  BY <1>6 DEF OffPeak!SendQueueAck
<1>7. ASSUME NEW r \in OffPeak!Rounds, OffPeak!PollGiveUp(r) PROVE TicketsSound'
  BY <1>7 DEF OffPeak!PollGiveUp, OffPeak!AcquireFailed
<1>8. ASSUME NEW r \in OffPeak!Rounds, OffPeak!PollAgain(r) PROVE TicketsSound'
  BY <1>8 DEF OffPeak!PollAgain
<1>9. ASSUME NEW r \in OffPeak!Rounds, OffPeak!PollReady(r) PROVE TicketsSound'
  BY <1>9 DEF OffPeak!PollReady, OffPeak!Acquired
<1>10. ASSUME NEW r \in OffPeak!Rounds, OffPeak!PollRetake(r) PROVE TicketsSound'
  BY <1>10 DEF OffPeak!PollRetake
<1>11. ASSUME NEW r \in OffPeak!Rounds, OffPeak!BuildBody(r) PROVE TicketsSound'
  BY <1>11 DEF OffPeak!BuildBody
<1>12. ASSUME NEW r \in OffPeak!Rounds, OffPeak!BuildBodyFails(r) PROVE TicketsSound'
  BY <1>12 DEF OffPeak!BuildBodyFails, OffPeak!EndRound, OffPeak!EndRoundUnsettled, OffPeak!Settle
<1>13. ASSUME NEW r \in OffPeak!Rounds, OffPeak!SendEnds(r) PROVE TicketsSound'
  BY <1>13 DEF OffPeak!SendEnds, OffPeak!EndRound, OffPeak!Settle
<1>14. ASSUME NEW r \in OffPeak!Rounds, OffPeak!BackoffEnds(r) PROVE TicketsSound'
  BY <1>14 DEF OffPeak!BackoffEnds
<1>15. ASSUME NEW r \in OffPeak!Rounds, OffPeak!SendTicketExpired(r) PROVE TicketsSound'
  BY <1>15 DEF OffPeak!SendTicketExpired
<1>16. ASSUME NEW r \in OffPeak!Rounds, OffPeak!SendFails(r) PROVE TicketsSound'
  BY <1>16 DEF OffPeak!SendFails
<1>17. ASSUME NEW r \in OffPeak!Rounds, OffPeak!RenderFailure(r) PROVE TicketsSound'
  BY <1>17 DEF OffPeak!RenderFailure, OffPeak!EndRound, OffPeak!Settle
<1>18. ASSUME NEW t \in Tickets, OffPeak!Admit(t) \/ OffPeak!Activate(t) \/ OffPeak!Expire(t) PROVE TicketsSound'
  BY <1>18 DEF OffPeak!Admit, OffPeak!Activate, OffPeak!Expire
<1>19. CASE OffPeak!Tick
  BY <1>19 DEF OffPeak!Tick
<1>20. CASE UNCHANGED OffPeak!vars
  BY <1>20 DEF OffPeak!vars
<1> HIDE DEF SettleInv, OffPeak!TypeOK, TicketsSound, Owned, Over, Dead, OffPeak!Live, Acquiring, OffPeak!Goto
<1>21. ASSUME NEW r \in OffPeak!Rounds, OffPeak!RoundStep(r) PROVE TicketsSound'
  BY <1>2, <1>3, <1>4, <1>5, <1>6, <1>7, <1>8, <1>9, <1>10, <1>11, <1>12,
     <1>13, <1>14, <1>15, <1>16, <1>17, <1>21 DEF OffPeak!RoundStep
<1> QED
  BY <1>1, <1>18, <1>19, <1>20, <1>21 DEF OffPeak!Next

\* The deadline is set once, before the round's first sleep.
LEMMA SleepsStep == OffPeak!TypeOK /\ OffPeak!SleepsWithinBudget /\ [OffPeak!Next]_OffPeak!vars => OffPeak!SleepsWithinBudget'
<1> SUFFICES ASSUME OffPeak!TypeOK, OffPeak!SleepsWithinBudget, [OffPeak!Next]_OffPeak!vars, Budget > 0,
                    NEW q \in OffPeak!Rounds, pc'[q] \in {"polling", "backoff"}
             PROVE  wake'[q] <= deadline'[q]
  BY DEF OffPeak!SleepsWithinBudget
<1>0. /\ clock \in Nat /\ DOMAIN pc = OffPeak!Rounds /\ DOMAIN wake = OffPeak!Rounds /\ DOMAIN deadline = OffPeak!Rounds
      /\ pc \in [OffPeak!Rounds -> OffPeak!Places] /\ deadline[q] \in Nat /\ wake[q] \in Nat
      /\ pc[q] \in {"polling", "backoff"} => wake[q] <= deadline[q]
  BY DEF OffPeak!TypeOK, OffPeak!SleepsWithinBudget
<1>1. ASSUME NEW r \in OffPeak!Rounds, NEW d \in 1..MaxPoll, OffPeak!PollLater(r, d) \/ OffPeak!SendQueueAck(r, d)
      PROVE  wake'[q] <= deadline'[q]
  BY <1>0, <1>1, OffPeakConstants DEF OffPeak!PollLater, OffPeak!SendQueueAck, OffPeak!SleepEnd,
     OffPeak!OutOfBudget, OffPeak!Goto
<1>2. ASSUME NEW r \in OffPeak!Rounds, OffPeak!Begin(r) PROVE wake'[q] <= deadline'[q]
  BY <1>0, <1>2 DEF OffPeak!Begin, OffPeak!Goto
<1>3. ASSUME UNCHANGED <<wake, deadline>>, pc'[q] \in {"polling", "backoff"} => pc'[q] = pc[q]
      PROVE  wake'[q] <= deadline'[q]
  BY <1>0, <1>3
<1>4. ASSUME NEW r \in OffPeak!Rounds, OffPeak!RoundStep(r), NEW d \in 1..MaxPoll, OffPeak!PollLater(r, d) \/ OffPeak!SendQueueAck(r, d)
      PROVE  wake'[q] <= deadline'[q]
  BY <1>1, <1>4
<1>5. ASSUME NEW r \in OffPeak!Rounds, OffPeak!RoundStep(r),
             ~ \E d \in 1..MaxPoll : OffPeak!PollLater(r, d) \/ OffPeak!SendQueueAck(r, d)
      PROVE  wake'[q] <= deadline'[q]
  <2>1. UNCHANGED <<wake, deadline>> /\ \E place \in OffPeak!Places \ {"polling", "backoff"} : OffPeak!Goto(r, place)
    BY <1>5 DEF OffPeak!RoundStep, OffPeak!TakeRefused, OffPeak!AcquireFailed, OffPeak!TakeQueued,
       OffPeak!TakeReady, OffPeak!Acquired, OffPeak!PollGiveUp,
       OffPeak!PollAgain, OffPeak!PollReady, OffPeak!PollRetake, OffPeak!BuildBody, OffPeak!BuildBodyFails, OffPeak!EndRound, OffPeak!EndRoundUnsettled,
       OffPeak!SendEnds, OffPeak!BackoffEnds, OffPeak!SendTicketExpired, OffPeak!SendFails, OffPeak!RenderFailure, OffPeak!Places
  <2> QED  BY <1>0, <1>3, <2>1 DEF OffPeak!Goto
<1>6. CASE (\E t \in Tickets : OffPeak!Admit(t) \/ OffPeak!Activate(t) \/ OffPeak!Expire(t)) \/ OffPeak!Tick \/ UNCHANGED OffPeak!vars
  BY <1>3, <1>6 DEF OffPeak!Admit, OffPeak!Activate, OffPeak!Expire, OffPeak!Tick, OffPeak!vars
<1> QED  BY <1>2, <1>4, <1>5, <1>6 DEF OffPeak!Next

OffPeakInv == SettleInv /\ TicketsSound /\ OffPeak!SleepsWithinBudget

LEMMA OffPeakStarts == OffPeak!Init => OffPeakInv
<1> SUFFICES ASSUME OffPeak!Init PROVE OffPeakInv
  OBVIOUS
<1>1. SettleInv
  BY OffPeakConstants DEF OffPeak!Init, SettleInv, OffPeak!TypeOK, OneUnsettled, Acquiring,
     OffPeak!Places,
     OffPeak!ServerStates
<1>2. TicketsSound
  BY DEF OffPeak!Init, TicketsSound, Owned
<1>3. OffPeak!SleepsWithinBudget
  BY DEF OffPeak!Init, OffPeak!SleepsWithinBudget
<1> QED  BY <1>1, <1>2, <1>3 DEF OffPeakInv

LEMMA OffPeakSteps == OffPeakInv /\ [OffPeak!Next]_OffPeak!vars => OffPeakInv'
<1>1. SettleInv => OffPeak!TypeOK
  BY DEF SettleInv
<1> QED  BY <1>1, SettleInductive, SentStep, SleepsStep DEF OffPeakInv, SentInv

-----------------------------------------------------------------------------
(* The five lanes.                                                           *)

LanesInv == ClaimInv /\ PlaneInv /\ AccountInv /\ LoginInv /\ OffPeakInv

\* A lane that is not taken rests.
LEMMA Rests ==
  /\ PlaneInv /\ UNCHANGED vars => PlaneInv'
  /\ ClaimInv /\ UNCHANGED claimVars => ClaimInv'
  /\ AccountInv /\ UNCHANGED accountVars => AccountInv'
  /\ LoginInv /\ UNCHANGED loginVars => LoginInv'
  /\ OffPeakInv /\ UNCHANGED ticketVars => OffPeakInv'
<1>1. PlaneInv /\ UNCHANGED vars => PlaneInv'
  BY PlaneRests
<1>2. ClaimInv /\ UNCHANGED claimVars => ClaimInv'
  BY ClaimRests DEF claimVars, Claims!vars, Claims!upstream
<1>3. AccountInv /\ UNCHANGED accountVars => AccountInv'
  BY AccountRests DEF accountVars, Account!vars
<1>4. LoginInv /\ UNCHANGED loginVars => LoginInv'
  BY LoginRests DEF loginVars, Login!vars
<1>5. OffPeakInv /\ UNCHANGED ticketVars => OffPeakInv'
  BY OffPeakSteps DEF ticketVars, OffPeak!vars
<1> QED  BY <1>1, <1>2, <1>3, <1>4, <1>5

\* A step of the plugin is one of one lane.
LEMMA LanesStep ==
  ASSUME LanesInv, [LanesNext]_allVars
  PROVE  LanesInv'
<1>0. ZcodeAssumption
  BY ZcodeAssumption
<1>1. ASSUME InClaim /\ Claims!Next PROVE LanesInv'
  BY <1>0, <1>1, ClaimSteps, Rests DEF LanesInv, InClaim
<1>2. ASSUME InPlane /\ Next PROVE LanesInv'
  BY <1>0, <1>2, PlaneSteps, Rests DEF LanesInv, InPlane
<1>3. ASSUME InAccount /\ Account!Next PROVE LanesInv'
  BY <1>0, <1>3, AccountSteps, Rests DEF LanesInv, InAccount
<1>4. ASSUME InLogin /\ Login!Next PROVE LanesInv'
  BY <1>0, <1>4, LoginSteps, Rests DEF LanesInv, InLogin
<1>5. ASSUME InOffPeak /\ OffPeak!Next PROVE LanesInv'
  BY <1>0, <1>5, OffPeakSteps, Rests DEF LanesInv, InOffPeak
<1>6. ASSUME UNCHANGED allVars PROVE LanesInv'
  BY <1>6, Rests DEF LanesInv, allVars
<1> QED  BY <1>1, <1>2, <1>3, <1>4, <1>5, <1>6 DEF LanesNext

\* Every behaviour keeps the invariants of all lanes.
THEOREM LanesSound == LanesSpec => []LanesInv
<1>1. LanesInit => LanesInv
  BY ZcodeAssumption, ClaimStarts, PlaneStarts, AccountStarts, LoginStarts, OffPeakStarts
     DEF LanesInit, LanesInv
<1> QED  BY <1>1, LanesStep, PTL DEF LanesSpec

\* "A recovered request never cools the credential for the intermediate 1113"
\* (main.go:702-704): for any number of calls and faults, a call that ends in an
\* answer leaves no failure on record, and one the upstream refused does.
THEOREM RecoveredForgiven == LanesSpec => []RecoveredNotCooled
<1>1. LanesInv => RecoveredNotCooled
  BY DEF LanesInv, PlaneInv, Unspoiled, RecoveredNotCooled, At
<1> QED  BY <1>1, LanesSound, PTL

\* What a login stores can be used on its plane, whoever polls it and whatever
\* the operator chooses meanwhile (auth_keyres.go:446-456); all lanes keep their
\* types.
THEOREM StoredIsUsable == LanesSpec => []CredentialFits
<1>1. LanesInv => CredentialFits
  <2> SUFFICES ASSUME LanesInv PROVE CredentialFits
    OBVIOUS
  <2>1. TypeOK
    <3>1. PlaneTypes /\ \A c \in Calls : call[c] \in ChatCalls
      BY DEF LanesInv, PlaneInv
    <3>2. \A c \in Calls : call[c].rung \in 0 .. 3
      BY <3>1 DEF ChatCalls
    <3> QED  BY <3>1, <3>2 DEF PlaneTypes, TypeOK
  <2>2. Claims!TypeOK
    BY DEF LanesInv, ClaimInv
  <2>3. Account!TypeOK
    BY DEF LanesInv, AccountInv, AccountTypes, Flights, Flying, Account!TypeOK
  <2>4. LoginInv
    BY DEF LanesInv
  <2>5. Login!TypeOK
    <3>1. /\ chosen \in Login!Providers /\ login \in [Flows -> Logins] /\ poll \in [Polls -> LoginPolls]
          /\ stored.provider \in Login!Providers
      BY <2>4 DEF LoginInv, LoginTypes
    <3>2. \A f \in Flows : login[f].entry \in {"none", "open", "gone"} /\ login[f].grant \in {"pending", "ready", "failed"}
      BY <3>1 DEF Logins
    <3>3. NoFlow \notin Flows
      BY ZcodeAssumption DEF ZcodeAssumption
    <3>4. \A p \in Polls : poll[p].flow = NoFlow <=> poll[p].at = "idle"
      BY <2>4, <3>3 DEF LoginInv, Polled, Pinned
    <3> QED  BY <3>1, <3>2, <3>4 DEF Login!TypeOK, Login!At
  <2>6. OffPeak!TypeOK
    BY DEF LanesInv, OffPeakInv, SettleInv
  <2>7. Login!CredentialFits
    BY <2>4 DEF LoginInv, Usable, Pinned, Login!CredentialFits
  <2> QED  BY <2>1, <2>2, <2>3, <2>5, <2>6, <2>7 DEF CredentialFits, LanesTypeOK
<1> QED  BY <1>1, LanesSound, PTL

\* A tick leaves the account alone for a day only when both lists were read and
\* every plan it set out to claim is the account's (claim_scheduler.go 150-176),
\* for any plans, parameters, campaigns and faults.
THEOREM DaysAreEarned == LanesSpec => DayMeansDone
<1>1. ASSUME LanesInv, [LanesNext]_allVars
      PROVE  [ hold' = "day" /\ hold # "day" =>
                 tick.unread = {} /\ \A p \in tick.targets : plan[p] = "taken" ]_Claims!vars
  <2> SUFFICES ASSUME hold' = "day", hold # "day"
               PROVE  tick.unread = {} /\ \A p \in tick.targets : plan[p] = "taken"
    OBVIOUS
  <2>1. ClaimInv /\ ZcodeAssumption
    BY <1>1, ZcodeAssumption DEF LanesInv
  <2>2. Claims!Next
    <3>1. hold' # hold
      OBVIOUS
    <3> QED  BY <1>1, <3>1 DEF LanesNext, InPlane, InAccount, InLogin, InOffPeak, claimVars, allVars
  <2> QED  BY <2>1, <2>2, DayEarned
<1> QED  BY <1>1, LanesSound, PTL DEF LanesSpec, DayMeansDone, Claims!DayMeansDone

\* What the deferred settle of main.go:622 is for: every non-stream round
\* settles every ticket it was granted, for any rounds, tickets, budget and caps.
THEOREM OffPeakSettles == LanesSpec => []ExecuteSettlesAll
<1>1. LanesInv => ExecuteSettlesAll
  BY DEF LanesInv, OffPeakInv, SettleInv, OneUnsettled, ExecuteSettlesAll,
     OffPeak!ExecuteSettlesAll, OffPeak!Rounds
<1> QED  BY <1>1, LanesSound, PTL

\* The order of settle and swap (main.go:714-716): whatever the server loses or
\* expires, the ticket a round is about to send with is not one it gave up.
THEOREM SentTicketsAlive == LanesSpec => []SettledNeverSent
<1>1. LanesInv => SettledNeverSent
  BY DEF LanesInv, OffPeakInv, TicketsSound, Owned, SettledNeverSent, OffPeak!SettledNeverSent
<1> QED  BY <1>1, LanesSound, PTL

\* "Both bounded by the wait budget" (main.go:663), for every budget and every
\* interval the server quotes.
THEOREM SleepsBounded == LanesSpec => []SleepsWithinBudget
<1>1. LanesInv => SleepsWithinBudget
  BY DEF LanesInv, OffPeakInv, SleepsWithinBudget
<1> QED  BY <1>1, LanesSound, PTL
=============================================================================
