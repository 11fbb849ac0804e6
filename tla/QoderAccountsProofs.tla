-------------------------- MODULE QoderAccountsProofs --------------------------
(***************************************************************************)
(* The qoder accounts, for every set of calls, handlers and regions and    *)
(* every bound: a pass of the daily round reports what it was given and is *)
(* kept from a round only by a verdict on that round; the bridge is not    *)
(* downloaded where it is or was just tried, and of what is downloaded the *)
(* best component is installed.                                            *)
(***************************************************************************)
EXTENDS MCQoderAccounts, Sequences, TLAPS

-----------------------------------------------------------------------------
(* The passes over the daily round.                                          *)

Places == {"idle", "look", "looked", "list", "listed", "claim", "detail", "probe", "hit", "told"}
Rows == {"absent", "open", "locked", "out", "taken", "dup"}
Outcomes == {"none", "nothing", "claimed", "already", "blocked", "ineligible", "error"}
Gifts == {"credits", "code"}

Ups == [round : 1 .. MaxRound, daily : {"open", "out", "taken", "dup"}, shown : Visibility,
        gated : BOOLEAN, coupon : {"absent", "open", "locked", "taken"},
        detail : {"absent", "open", "taken"}, reward : {"credits", "other", "hidden"}]
Memos == [own : Ids, region : Ids]
Passes == [at : Places, kind : {"none", "checkin", "pro"}, daily : Rows, coupon : Rows, detail : Rows,
           todo : SUBSET {"daily", "coupon"}, id : Ids, said : SUBSET Verdicts, res : Outcomes,
           tries : 0 .. MaxRetries]

CampaignTypes ==
  /\ up \in Ups /\ identity \in {"native", "derived", "rotated"}
  /\ window \in BOOLEAN /\ loaded \in BOOLEAN
  /\ memo \in Memos /\ disk \in Memos
  /\ latch \subseteq answered /\ answered \subseteq Ids
  /\ events \in 0 .. MaxEvents

\* Amounts, codes and a probe's claims are told, and nothing else as claimed.
Tells(t) ==
  /\ t.said \cap Gifts # {} => t.res = "claimed"
  /\ t.id # NoId /\ t.said \cap Landed # {} => t.res = "claimed"
  /\ t.res = "claimed" => t.said \cap Landed # {}

\* What a pass may hold, when upstream gave a verdict on these ids: it was answered
\* nothing before its claims, its detail row has no id, and what it says in the
\* end is what it was given or refused.
Honest(t, verdicts) ==
  /\ t.at \notin {"claim", "told"} => t.said = {}
  /\ t.at = "detail" => t.id = NoId
  /\ t.at = "told" /\ t.res = "nothing" /\ t.id # NoId /\ t.said = {} => t.id \in verdicts
  /\ t.at = "told" => Tells(t)

CampaignInv ==
  /\ CampaignTypes
  /\ pass \in [Actors -> Passes]
  /\ \A w \in Actors : Honest(pass[w], answered)

LEMMA IdsAreIds == NoId \in Ids /\ Coupon \in Ids /\ Detail \in Ids /\ Seed \in Ids
BY DEF Ids

\* One pass moves: the other's word stands, verdicts are not forgotten.
LEMMA OnePassMoves ==
  ASSUME CampaignInv, NEW w \in Actors, NEW t \in Passes, Becomes(w, t), Honest(t, answered'),
         answered \subseteq answered'
  PROVE  pass' \in [Actors -> Passes] /\ \A v \in Actors : Honest(pass[v], answered)'
<1>1. pass \in [Actors -> Passes] /\ \A v \in Actors : Honest(pass[v], answered)
  BY DEF CampaignInv
<1>2. pass' \in [Actors -> Passes] /\ pass'[w] = t /\ \A v \in Actors \ {w} : pass'[v] = pass[v]
  BY <1>1 DEF Becomes
<1>3. \A v \in Actors \ {w} : Honest(pass[v], answered')
  BY <1>1 DEF Honest
<1> QED  BY <1>2, <1>3

\* No pass moves.
LEMMA NoPassMoves ==
  ASSUME CampaignInv, UNCHANGED <<answered, pass>>
  PROVE  pass' \in [Actors -> Passes] /\ \A v \in Actors : Honest(pass[v], answered)'
BY DEF CampaignInv

LEMMA IdleIsPass ==
  ASSUME QoderAccountsAssumption
  PROVE  Idle \in Passes /\ \A verdicts : Honest(Idle, verdicts)
<1>1. NoId \in Ids /\ 0 \in 0 .. MaxRetries
  BY IdsAreIds DEF QoderAccountsAssumption
<1>2. Idle \in Passes
  BY <1>1 DEF Idle, Passes, Places, Rows, Outcomes
<1>3. Idle.at = "idle" /\ Idle.said = {}
  BY DEF Idle
<1> QED  BY <1>2, <1>3 DEF Honest

\* What is granted leaves a round of its type.
LEMMA GrantedType ==
  ASSUME up \in Ups, NEW id
  PROVE  Granted(id) \in Ups
BY DEF Granted, Ups

\* An answer is one, and it leaves a round of its type.
LEMMA AnswersType ==
  ASSUME CampaignTypes, QoderAccountsAssumption, NEW id, NEW s, Answers(id, s)
  PROVE  up' \in Ups /\ events' \in 0 .. MaxEvents
<1>1. up \in Ups /\ events \in 0 .. MaxEvents /\ MaxEvents \in Nat
  BY DEF CampaignTypes, QoderAccountsAssumption
<1>2. Granted(id) \in Ups
  BY <1>1, GrantedType
<1> QED  BY <1>1, <1>2 DEF Answers, Fault, NoFault

LEMMA CampaignStarts ==
  ASSUME QoderAccountsAssumption, Init
  PROVE  CampaignInv
<1>1. 1 \in 1 .. MaxRound /\ 1 \in Ids /\ NoId \in Ids /\ 0 \in 0 .. MaxEvents
  BY IdsAreIds DEF QoderAccountsAssumption, Ids
<1>2. up \in Ups
  BY <1>1 DEF Init, Ups
<1>3. NoMemo \in Memos /\ [own |-> 1, region |-> 1] \in Memos
  BY <1>1 DEF NoMemo, Memos
<1>4. CampaignTypes
  BY <1>1, <1>2, <1>3 DEF CampaignTypes, Init
<1>5. pass = [w \in Actors |-> Idle]
  BY DEF Init
<1> QED  BY <1>4, <1>5, IdleIsPass DEF CampaignInv

\* A pass begins.
LEMMA BeginKeeps ==
  ASSUME QoderAccountsAssumption, CampaignInv, NEW w \in Actors, NEW kind \in {"checkin", "pro"},
         Begin(w, kind)
  PROVE  CampaignInv'
<1> DEFINE t == [Idle EXCEPT !.at = "look", !.kind = kind]
<1>1. Becomes(w, t) /\ UNCHANGED <<up, identity, window, memo, disk, loaded, latch, answered>>
  BY DEF Begin, upstream, state
<1>2. t \in Passes
  BY IdleIsPass DEF Passes, Places
<1>3. t.at = "look" /\ t.said = {}
  BY DEF Idle
<1>4. Honest(t, answered')
  BY <1>3 DEF Honest
<1>5. events' \in 0 .. MaxEvents
  BY DEF Begin, Fault, NoFault, CampaignInv, CampaignTypes, QoderAccountsAssumption
<1>6. CampaignTypes'
  BY <1>1, <1>5 DEF CampaignInv, CampaignTypes
<1> HIDE DEF t
<1>7. answered \subseteq answered'
  BY <1>1
<1> QED  BY <1>1, <1>2, <1>4, <1>6, <1>7, OnePassMoves DEF CampaignInv

LEMMA ListedDailyIsRow ==
  ASSUME up \in Ups
  PROVE  ListedDaily \in Rows
<1>1. up.daily \in Rows
  BY DEF Ups, Rows
<1>2. \A d : Daily(d) \in Rows
  BY <1>1 DEF Daily, Rows
<1> QED  BY <1>2 DEF ListedDaily, Rows

\* It reads the list.
LEMMA ReadKeeps ==
  ASSUME QoderAccountsAssumption, CampaignInv, NEW w \in Actors, Read(w)
  PROVE  CampaignInv'
<1> DEFINE p == pass[w]
           row == ListedDaily
           t == [p EXCEPT !.at = IF At(w, "look") THEN "looked" ELSE "listed",
                          !.daily = row, !.coupon = up.coupon, !.detail = up.detail,
                          !.id = up.round]
<1>1. Becomes(w, t) /\ UNCHANGED <<up, window, memo, disk, loaded, latch, answered, events>>
  BY DEF Read, state
<1>2. p \in Passes /\ Honest(p, answered) /\ p.at \in {"look", "list"}
  BY DEF CampaignInv, Read, At
<1>3. row \in Rows /\ up.coupon \in Rows /\ up.detail \in Rows /\ up.round \in Ids
  BY ListedDailyIsRow DEF CampaignInv, CampaignTypes, Ups, Rows, Ids
<1>4. identity' \in {"native", "derived", "rotated"}
  BY DEF Read, Refreshed, CampaignInv, CampaignTypes
<1> HIDE DEF p, row
<1>5. t \in Passes
  BY <1>2, <1>3 DEF Passes, Places
<1>6. t.at \in {"looked", "listed"} /\ t.said = p.said
  BY <1>2 DEF Passes
<1> HIDE DEF t
<1>7. Honest(t, answered')
  BY <1>2, <1>6 DEF Honest
<1>8. CampaignTypes'
  BY <1>1, <1>4 DEF CampaignInv, CampaignTypes
<1>9. answered \subseteq answered'
  BY <1>1
<1> QED  BY <1>1, <1>5, <1>7, <1>8, <1>9, OnePassMoves DEF CampaignInv

LEMMA ReadFailsKeeps ==
  ASSUME QoderAccountsAssumption, CampaignInv, NEW w \in Actors, ReadFails(w)
  PROVE  CampaignInv'
<1> DEFINE p == pass[w]
           t == [p EXCEPT !.at = "told", !.res = "error", !.id = NoId]
<1>1. Becomes(w, t) /\ UNCHANGED <<up, identity, window, memo, disk, loaded, latch, answered>>
  BY DEF ReadFails, Result, upstream, state
<1>2. p \in Passes /\ Honest(p, answered) /\ p.at \in {"look", "list"}
  BY DEF CampaignInv, ReadFails, At
<1>3. p.said = {}
  BY <1>2 DEF Honest
<1> HIDE DEF p
<1>4. t \in Passes
  BY <1>2, IdsAreIds DEF Passes, Places, Outcomes
<1>5. t.at = "told" /\ t.res = "error" /\ t.said = {}
  BY <1>2, <1>3 DEF Passes
<1> HIDE DEF t
<1>6. Honest(t, answered')
  BY <1>5 DEF Honest, Tells
<1>7. events' \in 0 .. MaxEvents
  BY DEF ReadFails, Fault, CampaignInv, CampaignTypes, QoderAccountsAssumption
<1>8. CampaignTypes'
  BY <1>1, <1>7 DEF CampaignInv, CampaignTypes
<1>9. answered \subseteq answered'
  BY <1>1
<1> QED  BY <1>1, <1>4, <1>6, <1>8, <1>9, OnePassMoves DEF CampaignInv

\* What the memo is after a list, and after it is read from the disk.
LEMMA HydratedType ==
  ASSUME disk \in Memos, memo \in Memos
  PROVE  Hydrated \in Memos
BY DEF Hydrated, Over, Memos

LEMMA RememberedType ==
  ASSUME disk \in Memos, memo \in Memos, NEW w, pass[w].id \in Ids
  PROVE  Remembered(w) \subseteq Memos
<1>1. Found(w) \subseteq Ids
  BY IdsAreIds DEF Found
<1>2. {[own |-> id, region |-> id] : id \in Found(w)} \subseteq Memos
  BY <1>1 DEF Memos
<1> QED  BY <1>2, HydratedType DEF Remembered

\* Where the rows lead: to an end with a word of its own, or on with none.
LEMMA AfterType ==
  ASSUME NEW w \in Actors, pass[w] \in Passes
  PROVE  /\ After(w) \in Passes
         /\ After(w).at \in {"told", "list", "detail", "claim"}
         /\ After(w).at = "told" => After(w).res \in {"already", "ineligible"}
         /\ After(w).said = pass[w].said
<1> DEFINE p == pass[w]
<1>1. p \in Passes
  OBVIOUS
<1>2. Claimable(w) \in SUBSET {"daily", "coupon"}
  BY DEF Claimable
<1> DEFINE todo == Claimable(w)
           a == [p EXCEPT !.at = "told", !.res = "already"]
           b == [p EXCEPT !.at = "list"]
           c == [p EXCEPT !.at = "detail"]
           d == [p EXCEPT !.at = "claim", !.todo = todo]
           e == [p EXCEPT !.at = "told", !.res = "ineligible"]
<1>3. After(w) \in {a, b, c, d, e}
  BY DEF After
<1> HIDE DEF p, todo
<1>4. a \in Passes /\ a.at = "told" /\ a.res = "already" /\ a.said = p.said
  BY <1>1 DEF Passes, Places, Outcomes
<1>5. b \in Passes /\ b.at = "list" /\ b.said = p.said
  BY <1>1 DEF Passes, Places
<1>6. c \in Passes /\ c.at = "detail" /\ c.said = p.said
  BY <1>1 DEF Passes, Places
<1>7. d \in Passes /\ d.at = "claim" /\ d.said = p.said
  BY <1>1, <1>2 DEF Passes, Places, todo
<1>8. e \in Passes /\ e.at = "told" /\ e.res = "ineligible" /\ e.said = p.said
  BY <1>1 DEF Passes, Places, Outcomes
<1> HIDE DEF a, b, c, d, e
<1>9. p = pass[w]
  BY DEF p
<1> QED  BY <1>3, <1>4, <1>5, <1>6, <1>7, <1>8, <1>9

\* The list is remembered.
LEMMA RememberKeeps ==
  ASSUME QoderAccountsAssumption, CampaignInv, NEW w \in Actors, Remember(w)
  PROVE  CampaignInv'
<1> DEFINE p == pass[w]
           n == After(w)
           t == [n EXCEPT !.daily = "absent", !.coupon = "absent",
                   !.detail = IF n.at = "detail" THEN p.detail ELSE "absent",
                   !.id = IF n.at = "claim" THEN p.id ELSE NoId]
<1>1. Becomes(w, t) /\ UNCHANGED <<up, identity, window, latch, answered, events>>
  BY DEF Remember, upstream
<1>2. p \in Passes /\ Honest(p, answered) /\ p.at \in {"looked", "listed"}
  BY DEF CampaignInv, Remember, At
<1>3. /\ n \in Passes /\ n.at \in {"told", "list", "detail", "claim"}
      /\ n.at = "told" => n.res \in {"already", "ineligible"}
      /\ n.said = p.said
  BY <1>2, AfterType
<1>4. p.said = {} /\ p.id \in Ids
  BY <1>2 DEF Honest, Passes
<1>5. memo' \in Memos /\ disk' \in Memos /\ loaded' \in BOOLEAN
  <2>1. memo \in Memos /\ disk \in Memos
    BY DEF CampaignInv, CampaignTypes
  <2>2. Remembered(w) \subseteq Memos
    BY <1>4, <2>1, RememberedType
  <2>3. memo' \in Remembered(w)
    BY DEF Remember
  <2>4. memo' \in Memos
    BY <2>2, <2>3
  <2>5. disk' \in {disk, memo'} /\ loaded' = TRUE
    BY DEF Remember
  <2> QED  BY <2>1, <2>4, <2>5
<1> HIDE DEF p, n
<1>6. t \in Passes
  BY <1>2, <1>3, IdsAreIds DEF Passes, Rows
<1>7. t.at = n.at /\ t.said = {} /\ t.res = n.res /\ (n.at # "claim" => t.id = NoId)
  BY <1>3, <1>4 DEF Passes
<1> HIDE DEF t
<1>8. Honest(t, answered')
  BY <1>3, <1>7 DEF Honest, Tells
<1>9. CampaignTypes'
  BY <1>1, <1>5 DEF CampaignInv, CampaignTypes
<1>10. answered \subseteq answered'
  BY <1>1
<1> QED  BY <1>1, <1>6, <1>8, <1>9, <1>10, OnePassMoves DEF CampaignInv

\* What the answers amount to.
LEMMA SumTells ==
  ASSUME NEW said
  PROVE  Sum(said) \in Outcomes /\ (said \cap Gifts # {} <=> Sum(said) = "claimed")
BY DEF Sum, Outcomes, Gifts

LEMMA GiftsLand == Gifts \subseteq Landed /\ Landed \subseteq Verdicts
BY DEF Gifts, Landed, Verdicts

\* A claim.
LEMMA ClaimKeeps ==
  ASSUME QoderAccountsAssumption, CampaignInv, NEW w \in Actors, Claim(w)
  PROVE  CampaignInv'
<1> DEFINE p == pass[w]
           row == IF "daily" \in p.todo THEN "daily" ELSE "coupon"
           id == IF row = "daily" THEN p.id ELSE Coupon
           rest == p.todo \ {row}
<1>1. PICK s \in Verdicts :
        /\ Answers(id, s)
        /\ Becomes(w, IF rest # {} THEN [p EXCEPT !.todo = rest, !.said = {s}]
                      ELSE [p EXCEPT !.todo = {}, !.id = NoId, !.at = "told",
                              !.said = p.said \cup {s}, !.res = Sum(p.said \cup {s})])
  BY DEF Claim
<1>2. UNCHANGED <<identity, window, memo, disk, loaded, latch, answered>>
  BY DEF Claim, state
<1>3. p \in Passes /\ p.at = "claim"
  BY DEF CampaignInv, Claim, At
<1>4. up' \in Ups /\ events' \in 0 .. MaxEvents
  BY <1>1, AnswersType DEF CampaignInv
<1>5. CampaignTypes'
  BY <1>2, <1>4 DEF CampaignInv, CampaignTypes
<1>6. rest \in SUBSET {"daily", "coupon"} /\ p.said \cup {s} \in SUBSET Verdicts /\ {s} \in SUBSET Verdicts
  BY <1>3 DEF Passes
<1>7. answered \subseteq answered'
  BY <1>2
<1> HIDE DEF p, rest
<1> DEFINE said == p.said \cup {s}
           sum == Sum(said)
           u == [p EXCEPT !.todo = rest, !.said = {s}]
           v == [p EXCEPT !.todo = {}, !.id = NoId, !.at = "told", !.said = said, !.res = sum]
<1>8. sum \in Outcomes /\ (said \cap Gifts # {} <=> sum = "claimed")
  BY SumTells
<1>9. ASSUME rest # {} PROVE CampaignInv'
  <2>1. Becomes(w, u)
    BY <1>1, <1>9
  <2>2. u \in Passes
    BY <1>3, <1>6 DEF Passes
  <2>3. u.at = "claim"
    BY <1>3 DEF Passes
  <2> HIDE DEF u
  <2>4. Honest(u, answered')
    BY <2>3 DEF Honest
  <2> QED  BY <1>5, <1>7, <2>1, <2>2, <2>4, OnePassMoves DEF CampaignInv
<1>10. ASSUME rest = {} PROVE CampaignInv'
  <2>1. Becomes(w, v)
    BY <1>1, <1>10
  <2>2. said \in SUBSET Verdicts
    BY <1>6
  <2> HIDE DEF said, sum
  <2>3. v \in Passes
    BY <1>3, <1>8, <2>2, IdsAreIds DEF Passes, Places
  <2>4. v.at = "told" /\ v.id = NoId /\ v.said = said /\ v.res = sum
    BY <1>3 DEF Passes
  <2> HIDE DEF v
  <2>5. Honest(v, answered')
    BY <1>8, <2>4, GiftsLand DEF Honest, Tells
  <2> QED  BY <1>5, <1>7, <2>1, <2>3, <2>5, OnePassMoves DEF CampaignInv
<1> QED  BY <1>9, <1>10

\* A claim of the detail row.
LEMMA ClaimDetailKeeps ==
  ASSUME QoderAccountsAssumption, CampaignInv, NEW w \in Actors, ClaimDetail(w)
  PROVE  CampaignInv'
<1> DEFINE p == pass[w]
           a(s) == [p EXCEPT !.at = "told", !.detail = "absent", !.said = {s}, !.res = "claimed"]
           b == [p EXCEPT !.at = "told", !.detail = "absent", !.res = "nothing"]
           c == [p EXCEPT !.at = "probe", !.detail = "absent"]
<1>1. UNCHANGED <<identity, window, memo, disk, loaded, latch, answered>>
  BY DEF ClaimDetail, state
<1>2. p \in Passes /\ p.at = "detail" /\ p.said = {} /\ p.id = NoId
  BY DEF CampaignInv, ClaimDetail, At, Honest
<1>3. up' \in Ups /\ events' \in 0 .. MaxEvents
  <2>1. (\E s \in Verdicts : Answers(Detail, s)) \/ UNCHANGED <<up, events>>
    BY DEF ClaimDetail
  <2>2. CampaignTypes
    BY DEF CampaignInv
  <2> QED  BY <2>1, <2>2, AnswersType DEF CampaignTypes
<1>4. CampaignTypes'
  BY <1>1, <1>3 DEF CampaignInv, CampaignTypes
<1>5. answered \subseteq answered'
  BY <1>1
<1>6. PICK s \in Verdicts \cup {"none"} : \/ s \in {"credits", "unread"} /\ Becomes(w, a(s))
                                          \/ Becomes(w, b)
                                          \/ Becomes(w, c)
  BY DEF ClaimDetail, Counts
<1> HIDE DEF p
<1>7. b \in Passes /\ b.at = "told" /\ b.said = {} /\ b.id = NoId /\ b.res = "nothing"
  BY <1>2 DEF Passes, Places, Outcomes, Rows
<1>8. c \in Passes /\ c.at = "probe" /\ c.said = {}
  BY <1>2 DEF Passes, Places, Rows
<1>9. Honest(b, answered') /\ Honest(c, answered')
  BY <1>7, <1>8 DEF Honest, Tells
<1>10. ASSUME s \in {"credits", "unread"}, Becomes(w, a(s)) PROVE CampaignInv'
  <2> DEFINE t == a(s)
             said == {s}
  <2>1. said \in SUBSET Verdicts
    BY <1>10, GiftsLand DEF Landed
  <2> HIDE DEF said
  <2>2. [p EXCEPT !.at = "told", !.detail = "absent", !.said = said, !.res = "claimed"] \in Passes
    BY <1>2, <2>1 DEF Passes, Places, Outcomes, Rows
  <2>3. t \in Passes
    BY <2>2 DEF said
  <2>4. t.at = "told" /\ t.res = "claimed" /\ t.said = {s} /\ s \in Landed
    BY <1>2, <1>10 DEF Passes, Landed
  <2>5. Becomes(w, t)
    BY <1>10
  <2> HIDE DEF t
  <2>6. Honest(t, answered')
    BY <2>4 DEF Honest, Tells
  <2> QED  BY <1>4, <1>5, <2>3, <2>5, <2>6, OnePassMoves DEF CampaignInv
<1> HIDE DEF b, c
<1>11. ASSUME Becomes(w, b) PROVE CampaignInv'
  BY <1>4, <1>5, <1>7, <1>9, <1>11, OnePassMoves DEF CampaignInv
<1>12. ASSUME Becomes(w, c) PROVE CampaignInv'
  BY <1>4, <1>5, <1>8, <1>9, <1>12, OnePassMoves DEF CampaignInv
<1> QED  BY <1>6, <1>10, <1>11, <1>12

\* The probe: a pass that probes nothing has no id, or one in the latch.
LEMMA ProbeKeeps ==
  ASSUME QoderAccountsAssumption, CampaignInv, NEW w \in Actors, Probe(w)
  PROVE  CampaignInv'
<1> DEFINE p == pass[w]
           m == Hydrated
           id == ProbeId(m)
           a == [p EXCEPT !.at = "told", !.res = "nothing", !.id = id]
           b == [p EXCEPT !.at = "hit", !.id = id]
<1>1. UNCHANGED <<up, identity, window, disk, latch, answered, events>>
  BY DEF Probe, upstream
<1>2. p \in Passes /\ p.at = "probe" /\ p.said = {}
  BY DEF CampaignInv, Probe, At, Honest
<1>3. m \in Memos /\ memo' = m /\ loaded' = TRUE
  BY HydratedType DEF Probe, CampaignInv, CampaignTypes
<1>4. CampaignTypes'
  BY <1>1, <1>3 DEF CampaignInv, CampaignTypes
<1>5. Becomes(w, IF id = NoId \/ Cooled(id) THEN a ELSE b)
  BY DEF Probe
<1>6. answered \subseteq answered' /\ latch \subseteq answered
  BY <1>1 DEF CampaignInv, CampaignTypes
<1> HIDE DEF m
<1>7. id \in Ids
  BY <1>3, IdsAreIds DEF ProbeId, Memos
<1> HIDE DEF p, id
<1>8. a \in Passes /\ a.at = "told" /\ a.said = {} /\ a.id = id /\ a.res = "nothing"
  BY <1>2, <1>7 DEF Passes, Places, Outcomes
<1>9. b \in Passes /\ b.at = "hit" /\ b.said = {}
  BY <1>2, <1>7 DEF Passes, Places
<1> HIDE DEF a, b
<1>10. ASSUME id = NoId \/ Cooled(id) PROVE CampaignInv'
  <2>1. Becomes(w, a)
    BY <1>5, <1>10
  <2>2. id # NoId => id \in answered'
    BY <1>6, <1>10 DEF Cooled, Key
  <2>3. Honest(a, answered')
    BY <1>8, <2>2 DEF Honest, Tells
  <2> QED  BY <1>4, <1>6, <1>8, <2>1, <2>3, OnePassMoves DEF CampaignInv
<1>11. ASSUME ~ (id = NoId \/ Cooled(id)) PROVE CampaignInv'
  <2>1. Becomes(w, b)
    BY <1>5, <1>11
  <2>2. Honest(b, answered')
    BY <1>9 DEF Honest
  <2> QED  BY <1>4, <1>6, <1>9, <2>1, <2>2, OnePassMoves DEF CampaignInv
<1> QED  BY <1>10, <1>11

\* The probe is answered: a verdict arms the latch, an error does not.
LEMMA HitKeeps ==
  ASSUME QoderAccountsAssumption, CampaignInv, NEW w \in Actors, Hit(w)
  PROVE  CampaignInv'
<1> DEFINE p == pass[w]
           id == p.id
           word(s) == CASE s \in Landed -> "claimed" [] ~ Conclusive(s) -> "nothing" [] OTHER -> s
<1>1. PICK s \in Verdicts :
        /\ Answers(id, s)
        /\ Latched(id, s)
        /\ answered' = IF Conclusive(s) THEN answered \cup {id} ELSE answered
        /\ Becomes(w, [p EXCEPT !.at = "told", !.said = {s}, !.res = word(s)])
  BY DEF Hit
<1> DEFINE res == word(s)
           t == [p EXCEPT !.at = "told", !.said = {s}, !.res = res]
<1>2. UNCHANGED <<identity, window, memo, disk, loaded>>
  BY DEF Hit, state
<1>3. p \in Passes
  BY DEF CampaignInv
<1>4. up' \in Ups /\ events' \in 0 .. MaxEvents
  BY <1>1, AnswersType DEF CampaignInv
<1>5. id \in Ids
  BY <1>3 DEF Passes
<1>6. latch' \subseteq answered' /\ answered' \subseteq Ids /\ answered \subseteq answered'
  BY <1>1, <1>5 DEF Latched, Key, CampaignInv, CampaignTypes
<1>7. CampaignTypes'
  BY <1>2, <1>4, <1>6 DEF CampaignInv, CampaignTypes
<1>8. res \in Outcomes /\ (s \in Landed <=> res = "claimed")
  BY DEF Verdicts, Landed, Conclusive, Outcomes
<1>9. Becomes(w, t)
  BY <1>1
<1> HIDE DEF p, res
<1>10. t \in Passes
  BY <1>3, <1>8 DEF Passes, Places
<1>11. t.at = "told" /\ t.said = {s} /\ t.res = res
  BY <1>3 DEF Passes
<1> HIDE DEF t
<1>12. Honest(t, answered')
  BY <1>8, <1>11, GiftsLand DEF Honest, Tells
<1> QED  BY <1>6, <1>7, <1>9, <1>10, <1>12, OnePassMoves DEF CampaignInv

\* A pass ends, or the tick tries again.
LEMMA EndKeeps ==
  ASSUME QoderAccountsAssumption, CampaignInv, NEW w \in Actors, End(w)
  PROVE  CampaignInv'
<1> DEFINE n == pass[w].tries + 1
           t == [Idle EXCEPT !.at = "list", !.kind = "checkin", !.tries = n]
<1>1. UNCHANGED <<up, identity, window, memo, disk, loaded, latch, answered, events>>
  BY DEF End, upstream, state
<1>2. CampaignTypes' /\ answered \subseteq answered'
  BY <1>1 DEF CampaignInv, CampaignTypes
<1>3. pass[w].tries \in 0 .. MaxRetries
  BY DEF CampaignInv, Passes
<1>4. \/ Becomes(w, t) /\ pass[w].tries < MaxRetries
      \/ Becomes(w, Idle)
  BY DEF End
<1>5. ASSUME Becomes(w, t), pass[w].tries < MaxRetries PROVE CampaignInv'
  <2>1. n \in 0 .. MaxRetries
    BY <1>3, <1>5 DEF QoderAccountsAssumption
  <2> HIDE DEF n
  <2>2. t \in Passes
    BY <2>1, IdleIsPass DEF Passes, Places
  <2>3. t.at = "list" /\ t.said = {}
    BY DEF Idle
  <2> HIDE DEF t
  <2>4. Honest(t, answered')
    BY <2>3 DEF Honest
  <2> QED  BY <1>2, <1>5, <2>2, <2>4, OnePassMoves DEF CampaignInv
<1>6. ASSUME Becomes(w, Idle) PROVE CampaignInv'
  BY <1>2, <1>6, IdleIsPass, OnePassMoves DEF CampaignInv
<1> QED  BY <1>4, <1>5, <1>6

\* What happens outside: no pass moves, but when the host restarts.
LEMMA OutsideKeeps ==
  ASSUME QoderAccountsAssumption, CampaignInv, Outside
  PROVE  CampaignInv'
<1>1. /\ up \in Ups /\ memo \in Memos /\ disk \in Memos /\ events \in 0 .. MaxEvents
      /\ latch \subseteq answered /\ answered \subseteq Ids
      /\ identity \in {"native", "derived", "rotated"} /\ window \in BOOLEAN /\ loaded \in BOOLEAN
  BY DEF CampaignInv, CampaignTypes
<1>2. MaxEvents \in Nat /\ MaxRound \in Nat \ {0} /\ NoId \in Ids
  BY IdsAreIds DEF QoderAccountsAssumption
<1>3. Fault => events' \in 0 .. MaxEvents
  BY <1>1, <1>2 DEF Fault
<1>4. ASSUME NewRound PROVE CampaignInv'
  <2>1. PICK s \in Visibility :
          up' = [up EXCEPT !.round = @ + 1, !.daily = "open", !.shown = s, !.coupon = "absent"]
    BY <1>4 DEF NewRound
  <2> DEFINE n == up.round + 1
  <2>2. n \in 1 .. MaxRound
    BY <1>1, <1>2, <1>4 DEF NewRound, Ups
  <2>3. up' = [up EXCEPT !.round = n, !.daily = "open", !.shown = s, !.coupon = "absent"]
    BY <2>1
  <2> HIDE DEF n
  <2>4. up' \in Ups
    BY <1>1, <2>2, <2>3 DEF Ups
  <2>5. window' = TRUE /\ UNCHANGED <<identity, memo, disk, loaded, latch, answered, pass, events>>
    BY <1>4 DEF NewRound, state
  <2>6. CampaignTypes'
    BY <1>1, <2>4, <2>5 DEF CampaignTypes
  <2> QED  BY <2>5, <2>6, NoPassMoves DEF CampaignInv
<1>5. ASSUME WindowCloses PROVE CampaignInv'
  <2>1. window' = FALSE /\ UNCHANGED <<up, identity, memo, disk, loaded, latch, answered, pass, events>>
    BY <1>5 DEF WindowCloses, state
  <2>2. CampaignTypes'
    BY <1>1, <2>1 DEF CampaignTypes
  <2> QED  BY <2>1, <2>2, NoPassMoves DEF CampaignInv
<1>6. ASSUME SiblingClaims \/ Stock PROVE CampaignInv'
  <2>1. up' \in Ups
    BY <1>1, <1>6 DEF SiblingClaims, Stock, Ups
  <2>2. UNCHANGED <<identity, window, memo, disk, loaded, latch, answered, pass>> /\ events' \in 0 .. MaxEvents
    BY <1>3, <1>6 DEF SiblingClaims, Stock, state
  <2>3. CampaignTypes'
    BY <1>1, <2>1, <2>2 DEF CampaignTypes
  <2> QED  BY <2>2, <2>3, NoPassMoves DEF CampaignInv
<1>7. ASSUME SiblingSees PROVE CampaignInv'
  <2> DEFINE m == Hydrated
             round == up.round
  <2>1. m \in Memos /\ round \in Ids
    BY <1>1, HydratedType DEF Ups, Ids
  <2>2. memo' = [m EXCEPT !.region = round] /\ loaded' = TRUE
    BY <1>7 DEF SiblingSees
  <2> HIDE DEF m, round
  <2>3. memo' \in Memos
    BY <2>1, <2>2 DEF Memos
  <2>4. /\ UNCHANGED <<up, identity, window, latch, answered, pass>> /\ events' \in 0 .. MaxEvents
        /\ disk' \in {disk, memo'}
    BY <1>3, <1>7 DEF SiblingSees, upstream
  <2>5. CampaignTypes'
    BY <1>1, <2>2, <2>3, <2>4 DEF CampaignTypes
  <2> QED  BY <2>4, <2>5, NoPassMoves DEF CampaignInv
<1>8. ASSUME Forgets PROVE CampaignInv'
  <2>1. memo' \in Memos
    BY <1>1, <1>2, <1>8 DEF Forgets, Memos
  <2>2. Kept(disk.own) \in Ids /\ Kept(disk.region) \in Ids
    BY <1>1, <1>2 DEF Kept, Memos
  <2>3. disk' = [own |-> Kept(disk.own), region |-> Kept(disk.region)]
    BY <1>8 DEF Forgets
  <2>4. disk' \in Memos
    BY <2>2, <2>3 DEF Memos
  <2>5. UNCHANGED <<up, identity, window, loaded, latch, answered, pass, events>>
    BY <1>8 DEF Forgets, upstream
  <2>6. CampaignTypes'
    BY <1>1, <2>1, <2>4, <2>5 DEF CampaignTypes
  <2> QED  BY <2>5, <2>6, NoPassMoves DEF CampaignInv
<1>9. ASSUME LatchExpires PROVE CampaignInv'
  <2>1. latch' \subseteq latch /\ UNCHANGED <<up, identity, window, memo, disk, loaded, answered, pass, events>>
    BY <1>9 DEF LatchExpires, upstream, state
  <2>2. CampaignTypes'
    BY <1>1, <2>1 DEF CampaignTypes
  <2> QED  BY <2>1, <2>2, NoPassMoves DEF CampaignInv
<1>10. ASSUME Provisioned \/ Rotates PROVE CampaignInv'
  <2>1. /\ identity' \in {"native", "rotated"} /\ events' \in 0 .. MaxEvents
        /\ UNCHANGED <<up, window, memo, disk, loaded, latch, answered, pass>>
    BY <1>3, <1>10 DEF Provisioned, Rotates, state
  <2>2. CampaignTypes'
    BY <1>1, <2>1 DEF CampaignTypes
  <2> QED  BY <2>1, <2>2, NoPassMoves DEF CampaignInv
<1>11. ASSUME Restart PROVE CampaignInv'
  <2>1. /\ memo' = NoMemo /\ loaded' = FALSE /\ latch' = {} /\ pass' = [w \in Actors |-> Idle]
        /\ events' \in 0 .. MaxEvents /\ UNCHANGED <<up, identity, window, disk, answered>>
    BY <1>3, <1>11 DEF Restart, upstream
  <2>2. memo' \in Memos
    BY <1>2, <2>1 DEF NoMemo, Memos
  <2>3. CampaignTypes'
    BY <1>1, <2>1, <2>2 DEF CampaignTypes
  <2> QED  BY <2>1, <2>3, IdleIsPass DEF CampaignInv
<1> QED  BY <1>4, <1>5, <1>6, <1>7, <1>8, <1>9, <1>10, <1>11 DEF Outside

LEMMA CampaignSteps ==
  ASSUME QoderAccountsAssumption, CampaignInv, Next
  PROVE  CampaignInv'
<1>1. ASSUME NEW w \in Actors, Steps(w) PROVE CampaignInv'
  BY <1>1, ReadKeeps, ReadFailsKeeps, RememberKeeps, ClaimKeeps, ClaimDetailKeeps, ProbeKeeps,
     HitKeeps, EndKeeps DEF Steps
<1>2. ASSUME NEW w \in Actors, NEW k \in {"checkin", "pro"}, Begin(w, k) PROVE CampaignInv'
  BY <1>2, BeginKeeps
<1> QED  BY <1>1, <1>2, OutsideKeeps DEF Next

LEMMA CampaignRests ==
  ASSUME CampaignInv, UNCHANGED vars
  PROVE  CampaignInv'
BY DEF CampaignInv, CampaignTypes, vars

\* The round's promises follow.
LEMMA CampaignKept ==
  ASSUME QoderAccountsAssumption, CampaignInv
  PROVE  TypeOK /\ LatchIsVerdict /\ GrantsTold
<1>1. CampaignTypes /\ \A w \in Actors : pass[w] \in Passes /\ Honest(pass[w], answered)
  BY DEF CampaignInv
<1>2. TypeOK
  BY <1>1 DEF CampaignTypes, TypeOK, Ups, Memos, Passes, Places
<1>3. LatchIsVerdict
  BY <1>1 DEF LatchIsVerdict, Honest, At
<1>4. GrantsTold
  BY <1>1 DEF GrantsTold, Honest, Tells, At, Gifts
<1> QED  BY <1>2, <1>3, <1>4

-----------------------------------------------------------------------------
(* The billing calls and the bridge.                                         *)

Stages == {"idle", "ask", "look", "wait", "locked", "download", "install", "run", "rerun", "cookies",
           "handshake", "send"}
CallRecords == [at : Stages, region : Regions \cup {"none"}, force : BOOLEAN,
                source : {"none", "native", "derived"}, bundle : Device!Bundles]

DeviceTypes ==
  /\ installed \in [Regions -> BOOLEAN] /\ bridgeDisk \in [Regions -> Device!Sizes]
  /\ path \in [Regions -> BOOLEAN] /\ tried \in [Regions -> {"never", "recent", "past"}]
  /\ runLock \in Calls \cup {Nobody} /\ native \in [Regions -> BOOLEAN]
  /\ jar \in {"unasked", "asked", "cookies"} /\ faults \in 0 .. MaxEvents

\* What call c may hold under this holder of the lock, with these bridges on disk
\* and these last attempts: a call that provisions holds the lock, and one that
\* downloads has found no bridge it accepts and no attempt of the last six hours.
Alone(c, t, holder, there, last) ==
  /\ t.at # "idle" => t.region \in Regions
  /\ t.at \in {"locked", "download", "install"} => holder = c
  /\ t.at = "download" => ~Device!Accepted(there[t.region]) /\ last[t.region] # "recent"

DeviceInv ==
  /\ DeviceTypes
  /\ call \in [Calls -> CallRecords]
  /\ \A c \in Calls : Alone(c, call[c], runLock, bridgeDisk, tried)

\* One call moves: it takes or gives back the lock only itself, and only its
\* holder writes the disk or notes an attempt.
LEMMA OneCallMoves ==
  ASSUME QoderAccountsAssumption, DeviceInv, NEW c \in Calls, NEW t \in CallRecords,
         Device!Becomes(c, t), Alone(c, t, runLock', bridgeDisk', tried'),
         runLock' = runLock \/ runLock \in {c, Nobody},
         UNCHANGED <<bridgeDisk, tried>> \/ runLock = c
  PROVE  /\ call' \in [Calls -> CallRecords]
         /\ \A d \in Calls : Alone(d, call[d], runLock, bridgeDisk, tried)'
<1>1. call \in [Calls -> CallRecords] /\ \A d \in Calls : Alone(d, call[d], runLock, bridgeDisk, tried)
  BY DEF DeviceInv
<1>2. call' \in [Calls -> CallRecords] /\ call'[c] = t /\ \A d \in Calls \ {c} : call'[d] = call[d]
  BY <1>1 DEF Device!Becomes
<1>3. ASSUME NEW d \in Calls \ {c} PROVE Alone(d, call[d], runLock', bridgeDisk', tried')
  <2>1. Alone(d, call[d], runLock, bridgeDisk, tried) /\ d # Nobody
    BY <1>1 DEF QoderAccountsAssumption
  <2>2. CASE runLock = d
    BY <2>1, <2>2 DEF Alone
  <2>3. CASE runLock # d
    BY <2>1, <2>3 DEF Alone
  <2> QED  BY <2>2, <2>3
<1> QED  BY <1>2, <1>3

\* What the scan keeps of a component and the best before it.
Pick(x, best) == IF Device!Better(x, best) THEN x ELSE best

\* A bundle of the model has at most two components, and the scan of it is this.
LEMMA BundleSizes ==
  ASSUME NEW b \in Device!Bundles
  PROVE  b \in Seq(Device!Sizes) /\ Len(b) \in 0 .. 2 /\ DOMAIN b = 1 .. Len(b)
<1>1. PICK n \in 0 .. 2 : b \in [1 .. n -> Device!Sizes]
  BY DEF Device!Bundles
<1>2. b \in Seq(Device!Sizes) /\ Len(b) = n
  BY <1>1
<1> QED  BY <1>1, <1>2

LEMMA ScanOfBundle ==
  ASSUME NEW b \in Device!Bundles
  PROVE  Device!Select(b) = CASE Len(b) = 0 -> 0
                              [] Len(b) = 1 -> Pick(b[1], 0)
                              [] Len(b) = 2 -> Pick(b[2], Pick(b[1], 0))
<1> DEFINE n == Len(b)
           Scan(f) == [i \in 0 .. n |-> IF i = 0 THEN 0
                                        ELSE IF Device!Better(b[i], f[i - 1]) THEN b[i] ELSE f[i - 1]]
           best == CHOOSE f : f = Scan(f)
           one == Pick(b[1], 0)
           two == Pick(b[2], one)
           g == [i \in 0 .. n |-> IF i = 0 THEN 0 ELSE IF i = 1 THEN one ELSE two]
<1>1. n \in 0 .. 2
  BY BundleSizes
<1>2. Device!Select(b) = best[n]
  BY DEF Device!Select
<1>3. g = Scan(g)
  <2>1. ASSUME NEW i \in 0 .. n PROVE g[i] = Scan(g)[i]
    <3>1. CASE i = 0
      BY <3>1
    <3>2. CASE i = 1
      <4>1. g[0] = 0 /\ g[1] = one
        BY <1>1, <3>2
      <4> HIDE DEF g
      <4> QED  BY <3>2, <4>1 DEF Pick
    <3>3. CASE i = 2
      <4>1. g[1] = one /\ g[2] = two
        BY <1>1, <3>3
      <4> HIDE DEF g
      <4> QED  BY <3>3, <4>1 DEF Pick
    <3> QED  BY <1>1, <2>1, <3>1, <3>2, <3>3
  <2> QED  BY <2>1
<1>4. best = Scan(best)
  <2> HIDE DEF Scan, g
  <2> QED  BY <1>3
<1> HIDE DEF best
<1>5. best[0] = 0
  BY <1>1, <1>4
<1>6. n >= 1 => best[1] = one
  BY <1>1, <1>4, <1>5 DEF Pick
<1>7. n = 2 => best[2] = two
  <2> SUFFICES ASSUME n = 2 PROVE best[2] = two
    OBVIOUS
  <2>1. best[1] = one
    BY <1>6
  <2> HIDE DEF one
  <2> QED  BY <1>4, <2>1 DEF Pick
<1> HIDE DEF n, two, one
<1>8. n = Len(b) /\ one = Pick(b[1], 0) /\ two = Pick(b[2], one)
  BY DEF n, one, two
<1>9. CASE n = 0
  BY <1>2, <1>5, <1>8, <1>9
<1>10. CASE n = 1
  BY <1>2, <1>6, <1>8, <1>10
<1>11. CASE n = 2
  BY <1>2, <1>7, <1>8, <1>11
<1>12. n = 0 \/ n = 1 \/ n = 2
  BY <1>1
<1> QED  BY <1>9, <1>10, <1>11, <1>12

\* What is chosen is a size.
LEMMA SelectTyped ==
  ASSUME NEW b \in Device!Bundles
  PROVE  Device!Select(b) \in Device!Sizes
<1>1. 0 \in Device!Sizes
  BY DEF Device!Sizes
<1>2. Len(b) \in 0 .. 2 /\ \A i \in 1 .. Len(b) : b[i] \in Device!Sizes
  BY BundleSizes
<1>3. \A x \in Device!Sizes : \A y \in Device!Sizes : Pick(x, y) \in Device!Sizes
  BY DEF Pick
<1>4. CASE Len(b) = 0
  BY <1>1, <1>4, ScanOfBundle
<1>5. CASE Len(b) = 1
  BY <1>1, <1>2, <1>3, <1>5, ScanOfBundle
<1>6. CASE Len(b) = 2
  BY <1>1, <1>2, <1>3, <1>6, ScanOfBundle
<1> QED  BY <1>2, <1>4, <1>5, <1>6

LEMMA EmptyBundle == <<>> \in Device!Bundles
<1>1. <<>> \in [1 .. 0 -> Device!Sizes]
  OBVIOUS
<1>2. 0 \in 0 .. 2
  OBVIOUS
<1> QED  BY <1>1, <1>2 DEF Device!Bundles

LEMMA IdleCall == Device!Idle \in CallRecords /\ Device!Idle.at = "idle"
<1>1. Device!Idle.at = "idle"
  BY DEF Device!Idle
<1>2. Device!Idle \in CallRecords
  BY EmptyBundle DEF Device!Idle, CallRecords, Stages
<1> QED  BY <1>1, <1>2

LEMMA DeviceStarts ==
  ASSUME QoderAccountsAssumption, Device!Init
  PROVE  DeviceInv
<1>1. DeviceTypes
  BY DEF Device!Init, DeviceTypes, Device!Sizes, QoderAccountsAssumption
<1>2. call = [c \in Calls |-> Device!Idle]
  BY DEF Device!Init
<1>3. ASSUME NEW c \in Calls PROVE Alone(c, call[c], runLock, bridgeDisk, tried)
  BY <1>2, IdleCall DEF Alone
<1> QED  BY <1>1, <1>2, <1>3, IdleCall DEF DeviceInv

\* A fault is counted up to its bound.
LEMMA FaultCounted ==
  ASSUME QoderAccountsAssumption, DeviceInv, Device!Fault \/ Device!NoFault
  PROVE  faults' \in 0 .. MaxEvents
BY DEF QoderAccountsAssumption, DeviceInv, DeviceTypes, Device!Fault, Device!NoFault

\* Calls that do not provision: they change no bridge, and where they go needs
\* no lock.
LEMMA OutsideTheLock ==
  ASSUME QoderAccountsAssumption, DeviceInv, NEW c \in Calls, NEW t \in CallRecords,
         Device!Becomes(c, t), t.at # "idle" => t.region \in Regions,
         t.at \notin {"locked", "download", "install"},
         UNCHANGED Device!bridge, native' \in [Regions -> BOOLEAN],
         jar' \in {"unasked", "asked", "cookies"}, faults' \in 0 .. MaxEvents
  PROVE  DeviceInv'
<1>1. UNCHANGED <<installed, bridgeDisk, path, tried, runLock>>
  BY DEF Device!bridge
<1>2. DeviceTypes'
  BY <1>1 DEF DeviceInv, DeviceTypes
<1>3. Alone(c, t, runLock', bridgeDisk', tried')
  BY DEF Alone
<1> QED  BY <1>1, <1>2, <1>3, OneCallMoves DEF DeviceInv

\* A call begins.
LEMMA CallBegins ==
  ASSUME QoderAccountsAssumption, DeviceInv, NEW c \in Calls, NEW r \in Regions, NEW force \in BOOLEAN,
         Device!Begin(c, r, force)
  PROVE  DeviceInv'
<1> DEFINE t == [Device!Idle EXCEPT !.at = "ask", !.region = r, !.force = force]
<1>1. Device!Becomes(c, t) /\ UNCHANGED Device!bridge /\ UNCHANGED <<native, jar, faults>>
  BY DEF Device!Begin
<1>2. t \in CallRecords
  BY IdleCall DEF CallRecords, Stages
<1>3. t.at = "ask" /\ t.region = r
  BY IdleCall DEF CallRecords
<1> HIDE DEF t
<1>4. native' \in [Regions -> BOOLEAN] /\ jar' \in {"unasked", "asked", "cookies"} /\ faults' \in 0 .. MaxEvents
  BY <1>1 DEF DeviceInv, DeviceTypes
<1> QED  BY <1>1, <1>2, <1>3, <1>4, OutsideTheLock

\* It asks for the identity, presents one, runs the bridge, or fetches its cookies
\* and is sent.
LEMMA CallWithoutLock ==
  ASSUME QoderAccountsAssumption, DeviceInv, NEW c \in Calls,
         Device!Ask(c) \/ Device!Run(c) \/ Device!Bootstrap(c) \/ Device!Handshake(c) \/ Device!Send(c)
  PROVE  DeviceInv'
<1> DEFINE p == call[c]
           a(place) == [p EXCEPT !.at = place]
           b(source) == [p EXCEPT !.at = "cookies", !.source = source]
           free == {"run", "look", "send", "handshake"}
<1>1. p \in CallRecords /\ Alone(c, p, runLock, bridgeDisk, tried)
  BY DEF DeviceInv
<1>2. p.at \in {"ask", "run", "rerun", "cookies", "handshake", "send"}
  BY DEF Device!Ask, Device!Run, Device!Bootstrap, Device!Handshake, Device!Send, Device!At
<1>3. p.region \in Regions
  BY <1>1, <1>2 DEF Alone
<1>4. \/ \E place \in free : Device!Becomes(c, a(place))
      \/ \E source \in {"native", "derived"} : Device!Becomes(c, b(source))
      \/ Device!Becomes(c, Device!Idle)
  BY DEF Device!Ask, Device!Run, Device!Bootstrap, Device!Handshake, Device!Send, Device!Goes, Device!Presents
<1>5. UNCHANGED Device!bridge
  BY DEF Device!Ask, Device!Run, Device!Bootstrap, Device!Handshake, Device!Send
<1>6. /\ native' \in [Regions -> BOOLEAN] /\ jar' \in {"unasked", "asked", "cookies"}
  <2>1. native \in [Regions -> BOOLEAN] /\ jar \in {"unasked", "asked", "cookies"}
    BY DEF DeviceInv, DeviceTypes
  <2> QED  BY <2>1 DEF Device!Ask, Device!Run, Device!Bootstrap, Device!Handshake, Device!Send
<1>7. faults' \in 0 .. MaxEvents
  BY FaultCounted DEF Device!Ask, Device!Run, Device!Bootstrap, Device!Handshake, Device!Send, Device!NoFault
<1> HIDE DEF p
<1>8. ASSUME NEW place \in free, Device!Becomes(c, a(place)) PROVE DeviceInv'
  <2> DEFINE t == a(place)
  <2>1. t \in CallRecords /\ t.at = place /\ t.region = p.region
    BY <1>1 DEF CallRecords, Stages
  <2>2. Device!Becomes(c, t)
    BY <1>8
  <2> HIDE DEF t
  <2> QED  BY <1>3, <1>5, <1>6, <1>7, <2>1, <2>2, OutsideTheLock
<1>9. ASSUME NEW source \in {"native", "derived"}, Device!Becomes(c, b(source)) PROVE DeviceInv'
  <2> DEFINE t == b(source)
  <2>1. t \in CallRecords /\ t.at = "cookies" /\ t.region = p.region
    BY <1>1 DEF CallRecords, Stages
  <2>2. Device!Becomes(c, t)
    BY <1>9
  <2> HIDE DEF t
  <2> QED  BY <1>3, <1>5, <1>6, <1>7, <2>1, <2>2, OutsideTheLock
<1>10. ASSUME Device!Becomes(c, Device!Idle) PROVE DeviceInv'
  BY <1>5, <1>6, <1>7, <1>10, IdleCall, OutsideTheLock
<1> QED  BY <1>4, <1>8, <1>9, <1>10

\* It looks for the downloaded bridge, or goes to wait for the lock and takes it.
LEMMA LookKeeps ==
  ASSUME QoderAccountsAssumption, DeviceInv, NEW c \in Calls, Device!Look(c) \/ Device!Locks(c)
  PROVE  DeviceInv'
<1> DEFINE p == call[c]
           t(place) == [p EXCEPT !.at = place]
<1>1. p \in CallRecords /\ p.at \in {"look", "wait"} /\ p.region \in Regions
  BY DEF DeviceInv, Device!Look, Device!Locks, Device!At, Alone
<1>2. UNCHANGED <<installed, bridgeDisk, tried, native, jar, faults>>
  BY DEF Device!Look, Device!Locks
<1>3. \/ Device!Becomes(c, t("rerun")) /\ path' = [path EXCEPT ![p.region] = TRUE] /\ UNCHANGED runLock
      \/ Device!Becomes(c, t("wait")) /\ UNCHANGED <<path, runLock>>
      \/ Device!Becomes(c, t("locked")) /\ runLock = Nobody /\ runLock' = c /\ UNCHANGED path
  BY DEF Device!Look, Device!Locks, Device!Goes, Device!R
<1>4. path' \in [Regions -> BOOLEAN]
  BY <1>1, <1>3 DEF DeviceInv, DeviceTypes
<1>5. runLock' \in Calls \cup {Nobody}
  BY <1>3 DEF DeviceInv, DeviceTypes
<1>6. DeviceTypes'
  BY <1>2, <1>4, <1>5 DEF DeviceInv, DeviceTypes
<1>7. \A place \in {"rerun", "wait", "locked"} :
        t(place) \in CallRecords /\ t(place).at = place /\ t(place).region = p.region
  BY <1>1 DEF CallRecords, Stages
<1> HIDE DEF p
<1>8. ASSUME NEW place \in {"rerun", "wait", "locked"}, Device!Becomes(c, t(place)),
             \/ place \in {"rerun", "wait"} /\ UNCHANGED runLock
             \/ place = "locked" /\ runLock = Nobody /\ runLock' = c
      PROVE DeviceInv'
  <2> DEFINE u == t(place)
  <2>1. u \in CallRecords /\ u.at = place /\ u.region = p.region /\ Device!Becomes(c, u)
    BY <1>7, <1>8
  <2> HIDE DEF u
  <2>2. Alone(c, u, runLock', bridgeDisk', tried')
    BY <1>1, <1>8, <2>1 DEF Alone
  <2> QED  BY <1>2, <1>6, <1>8, <2>1, <2>2, OneCallMoves DEF DeviceInv
<1> QED  BY <1>3, <1>8

\* Under the lock it gives up, uses what is there, or goes on to download.
LEMMA RecheckKeeps ==
  ASSUME QoderAccountsAssumption, DeviceInv, NEW c \in Calls, Device!Recheck(c)
  PROVE  DeviceInv'
<1> DEFINE p == call[c]
           a == [p EXCEPT !.at = "rerun"]
           b == [p EXCEPT !.at = "cookies", !.source = "derived"]
           d == [p EXCEPT !.at = "download"]
<1>1. p \in CallRecords /\ p.at = "locked" /\ p.region \in Regions /\ runLock = c
  BY DEF DeviceInv, Device!Recheck, Device!At, Alone
<1>2. UNCHANGED <<installed, bridgeDisk, tried, native, jar, faults>>
  BY DEF Device!Recheck
<1>4. \/ Device!Becomes(c, a) /\ path' = [path EXCEPT ![p.region] = TRUE] /\ runLock' = Nobody
      \/ Device!Becomes(c, b) /\ UNCHANGED path /\ runLock' = Nobody
      \/ /\ Device!Becomes(c, d) /\ UNCHANGED path /\ UNCHANGED runLock
         /\ ~Device!Accepted(bridgeDisk[p.region]) /\ tried[p.region] # "recent"
  BY <1>1 DEF Device!Recheck, Device!Goes, Device!Presents, Device!R
<1>5. path' \in [Regions -> BOOLEAN] /\ runLock' \in Calls \cup {Nobody}
  BY <1>1, <1>4 DEF DeviceInv, DeviceTypes
<1>6. DeviceTypes'
  BY <1>2, <1>5 DEF DeviceInv, DeviceTypes
<1> HIDE DEF p
<1>7. /\ a \in CallRecords /\ a.at = "rerun" /\ a.region = p.region
      /\ b \in CallRecords /\ b.at = "cookies" /\ b.region = p.region
      /\ d \in CallRecords /\ d.at = "download" /\ d.region = p.region
  BY <1>1 DEF CallRecords, Stages
<1> HIDE DEF a, b, d
<1>8. Alone(c, a, runLock', bridgeDisk', tried') /\ Alone(c, b, runLock', bridgeDisk', tried')
  BY <1>1, <1>7 DEF Alone
<1>9. ASSUME Device!Becomes(c, a) PROVE DeviceInv'
  BY <1>1, <1>2, <1>6, <1>7, <1>8, <1>9, OneCallMoves DEF DeviceInv
<1>10. ASSUME Device!Becomes(c, b) PROVE DeviceInv'
  BY <1>1, <1>2, <1>6, <1>7, <1>8, <1>10, OneCallMoves DEF DeviceInv
<1>11. ASSUME Device!Becomes(c, d), UNCHANGED runLock, ~Device!Accepted(bridgeDisk[p.region]),
              tried[p.region] # "recent"
       PROVE DeviceInv'
  <2>1. Alone(c, d, runLock', bridgeDisk', tried')
    BY <1>1, <1>2, <1>7, <1>11 DEF Alone
  <2> QED  BY <1>1, <1>2, <1>6, <1>7, <1>11, <2>1, OneCallMoves DEF DeviceInv
<1> QED  BY <1>4, <1>9, <1>10, <1>11

\* The bundle is downloaded.
LEMMA DownloadKeeps ==
  ASSUME QoderAccountsAssumption, DeviceInv, NEW c \in Calls, Device!Download(c)
  PROVE  DeviceInv'
<1> DEFINE p == call[c]
<1>1. p \in CallRecords /\ p.at = "download" /\ p.region \in Regions /\ runLock = c
  BY DEF DeviceInv, Device!Download, Device!At, Alone
<1>2. UNCHANGED <<installed, bridgeDisk, path, tried, runLock, native, jar>>
  BY DEF Device!Download, Device!bridge
<1>3. faults' \in 0 .. MaxEvents
  BY FaultCounted DEF Device!Download
<1>4. DeviceTypes'
  BY <1>2, <1>3 DEF DeviceInv, DeviceTypes
<1>5. PICK b \in Device!Bundles : Device!Becomes(c, [p EXCEPT !.at = "install", !.bundle = b])
  BY DEF Device!Download
<1> DEFINE t == [p EXCEPT !.at = "install", !.bundle = b]
<1> HIDE DEF p
<1>6. t \in CallRecords /\ t.at = "install" /\ t.region = p.region /\ Device!Becomes(c, t)
  BY <1>1, <1>5 DEF CallRecords, Stages
<1> HIDE DEF t
<1>7. Alone(c, t, runLock', bridgeDisk', tried')
  BY <1>1, <1>2, <1>6 DEF Alone
<1> QED  BY <1>2, <1>4, <1>6, <1>7, OneCallMoves DEF DeviceInv

\* The attempt ends, with a bridge on disk or without.
LEMMA EndsKeeps ==
  ASSUME QoderAccountsAssumption, DeviceInv, NEW c \in Calls, Device!Install(c) \/ Device!DownloadFails(c)
  PROVE  DeviceInv'
<1> DEFINE p == call[c]
           t(ok) == [p EXCEPT !.bundle = <<>>, !.at = IF ok THEN "rerun" ELSE "cookies",
                              !.source = IF ok THEN "none" ELSE "derived"]
<1>1. p \in CallRecords /\ p.region \in Regions /\ runLock = c
  BY DEF DeviceInv, Device!Install, Device!DownloadFails, Device!At, Alone
<1>2. PICK ok \in BOOLEAN : Device!Ends(c, ok)
  BY DEF Device!Install, Device!DownloadFails
<1>3. UNCHANGED <<installed, native, jar>> /\ faults' \in 0 .. MaxEvents
  BY FaultCounted DEF Device!Install, Device!DownloadFails, Device!NoFault
<1>4. bridgeDisk' \in [Regions -> Device!Sizes]
  <2> DEFINE chosen == Device!Select(call[c].bundle)
  <2>1. chosen \in Device!Sizes
    BY <1>1, SelectTyped DEF CallRecords
  <2>2. bridgeDisk' = bridgeDisk \/ bridgeDisk' = [bridgeDisk EXCEPT ![p.region] = chosen]
    BY DEF Device!Install, Device!DownloadFails, Device!R
  <2> HIDE DEF chosen, p
  <2> QED  BY <2>1, <2>2 DEF DeviceInv, DeviceTypes
<1>5. runLock' = Nobody /\ tried' \in [Regions -> {"never", "recent", "past"}] /\ path' \in [Regions -> BOOLEAN]
  BY <1>1, <1>2 DEF Device!Ends, Device!R, DeviceInv, DeviceTypes
<1>6. DeviceTypes'
  BY <1>3, <1>4, <1>5 DEF DeviceInv, DeviceTypes
<1> DEFINE u == t(ok)
<1>7. Device!Becomes(c, u)
  BY <1>2 DEF Device!Ends
<1> HIDE DEF p
<1>8. u \in CallRecords /\ u.at \in {"rerun", "cookies"} /\ u.region = p.region
  BY <1>1, EmptyBundle DEF CallRecords, Stages
<1> HIDE DEF u
<1>9. Alone(c, u, runLock', bridgeDisk', tried')
  BY <1>1, <1>8 DEF Alone
<1> QED  BY <1>1, <1>5, <1>6, <1>7, <1>8, <1>9, OneCallMoves DEF DeviceInv

\* Time passes for a region, or the host restarts.
LEMMA RegionAges ==
  ASSUME QoderAccountsAssumption, DeviceInv, NEW r \in Regions,
         Device!CooldownPasses(r) \/ Device!IdentityAges(r)
  PROVE  DeviceInv'
<1>1. UNCHANGED <<installed, bridgeDisk, path, runLock, jar, call, faults>>
  BY DEF Device!CooldownPasses, Device!IdentityAges, Device!bridge
<1>2. tried' \in [Regions -> {"never", "recent", "past"}] /\ native' \in [Regions -> BOOLEAN]
  BY DEF Device!CooldownPasses, Device!IdentityAges, Device!bridge, DeviceInv, DeviceTypes
<1>3. DeviceTypes'
  BY <1>1, <1>2 DEF DeviceInv, DeviceTypes
<1>4. tried' = tried \/ tried' = [tried EXCEPT ![r] = "past"]
  BY DEF Device!CooldownPasses, Device!IdentityAges, Device!bridge
<1>5. ASSUME NEW s \in Regions, tried[s] # "recent" PROVE tried'[s] # "recent"
  BY <1>4, <1>5 DEF DeviceInv, DeviceTypes
<1>6. ASSUME NEW c \in Calls PROVE Alone(c, call[c], runLock, bridgeDisk, tried')
  BY <1>5 DEF Alone, DeviceInv
<1> QED  BY <1>1, <1>3, <1>6 DEF DeviceInv

LEMMA RestartKeeps ==
  ASSUME QoderAccountsAssumption, DeviceInv, Device!Restart
  PROVE  DeviceInv'
<1>1. /\ path' = [r \in Regions |-> FALSE] /\ tried' = [r \in Regions |-> "never"]
      /\ runLock' = Nobody /\ native' = [r \in Regions |-> FALSE] /\ jar' = "unasked"
      /\ call' = [c \in Calls |-> Device!Idle] /\ UNCHANGED <<installed, bridgeDisk>>
  BY DEF Device!Restart
<1>2. faults' \in 0 .. MaxEvents
  BY FaultCounted DEF Device!Restart
<1>3. DeviceTypes'
  BY <1>1, <1>2 DEF DeviceInv, DeviceTypes
<1>4. ASSUME NEW c \in Calls PROVE Alone(c, call'[c], runLock', bridgeDisk', tried')
  BY <1>1, IdleCall DEF Alone
<1> QED  BY <1>1, <1>3, <1>4, IdleCall DEF DeviceInv

LEMMA DeviceSteps ==
  ASSUME QoderAccountsAssumption, DeviceInv, Device!Next
  PROVE  DeviceInv'
<1>1. ASSUME NEW c \in Calls, Device!Works(c) PROVE DeviceInv'
  BY <1>1, CallWithoutLock, LookKeeps, RecheckKeeps, DownloadKeeps, EndsKeeps DEF Device!Works
<1>2. ASSUME NEW c \in Calls, NEW r \in Regions, NEW f \in BOOLEAN, Device!Begin(c, r, f) PROVE DeviceInv'
  BY <1>2, CallBegins
<1>3. ASSUME NEW r \in Regions, Device!CooldownPasses(r) \/ Device!IdentityAges(r) PROVE DeviceInv'
  BY <1>3, RegionAges
<1> QED  BY <1>1, <1>2, <1>3, RestartKeeps DEF Device!Next

LEMMA DeviceRests ==
  ASSUME DeviceInv, UNCHANGED deviceVars
  PROVE  DeviceInv'
BY DEF DeviceInv, DeviceTypes, deviceVars

\* The scan keeps the best there is.
LEMMA ScanFindsBest ==
  ASSUME NEW b \in Device!Bundles
  PROVE  LET fit == {b[i] : i \in DOMAIN b} \ {0}
             class == IF \E x \in fit : Device!InRange(x) THEN {x \in fit : Device!InRange(x)} ELSE fit
         IN IF fit = {} THEN Device!Select(b) = 0
            ELSE Device!Select(b) \in class /\ \A x \in class : Device!Select(b) <= x
<1> DEFINE fit == {b[i] : i \in DOMAIN b} \ {0}
           class == IF \E x \in fit : Device!InRange(x) THEN {x \in fit : Device!InRange(x)} ELSE fit
           won == Device!Select(b)
<1>1. Len(b) \in 0 .. 2 /\ DOMAIN b = 1 .. Len(b) /\ \A i \in 1 .. Len(b) : b[i] \in 0 .. 4
  BY BundleSizes DEF Device!Sizes
<1>2. CASE Len(b) = 0
  <2>1. fit = {} /\ won = 0
    BY <1>1, <1>2, ScanOfBundle
  <2> QED  BY <2>1
<1>3. CASE Len(b) = 1
  <2> DEFINE x == b[1]
  <2>1. x \in 0 .. 4 /\ fit = {x} \ {0} /\ won = Pick(x, 0)
    BY <1>1, <1>3, ScanOfBundle
  <2> HIDE DEF x, fit, won
  <2>2. won = x
    BY <2>1 DEF Pick, Device!Better
  <2>3. class = fit
    BY <2>1
  <2>4. IF fit = {} THEN won = 0 ELSE won \in class /\ \A y \in class : won <= y
    BY <2>1, <2>2, <2>3
  <2> QED  BY <2>4 DEF fit, won
<1>4. CASE Len(b) = 2
  <2> DEFINE x == b[1]
             y == b[2]
  <2>1. x \in 0 .. 4 /\ y \in 0 .. 4 /\ fit = {x, y} \ {0} /\ won = Pick(y, Pick(x, 0))
    BY <1>1, <1>4, ScanOfBundle
  <2> HIDE DEF x, y, fit, won
  <2>2. won = IF Device!Better(y, x) THEN y ELSE x
    BY <2>1 DEF Pick, Device!Better
  <2>3. IF fit = {} THEN won = 0 ELSE won \in class /\ \A z \in class : won <= z
    BY <2>1, <2>2 DEF Device!Better, Device!InRange, Device!umidBlobSizeMin
  <2> QED  BY <2>3 DEF fit, won
<1>5. Len(b) = 0 \/ Len(b) = 1 \/ Len(b) = 2
  BY <1>1
<1> QED  BY <1>2, <1>3, <1>4, <1>5

-----------------------------------------------------------------------------
(* The account's credits and its flag keep their types.                      *)

Posts == {"idle", "status", "claim", "remember", "refresh", "store", "reconcile", "fetch", "fetching",
          "wait", "note", "decide", "disable", "reenable"}
Works == {"none", "tick", "hand", "life", "look", "force"}
TaskRecords == [kind : Works, at : Posts, credits : Account!Credits, disabled : BOOLEAN,
                prev : Account!Credits]
Entries == [there : BOOLEAN, credits : Account!Credits, graced : BOOLEAN]
AccountInv == Account!TypeOK /\ task \in [Account!Goroutines -> TaskRecords]

LEMMA OneTaskMoves ==
  ASSUME AccountInv, NEW g, NEW t \in TaskRecords, Account!Becomes(g, t)
  PROVE  task' \in [Account!Goroutines -> TaskRecords]
BY DEF AccountInv, Account!Becomes

LEMMA IdleTask == Account!Idle \in TaskRecords
BY DEF Account!Idle, TaskRecords, Works, Posts, Account!Credits

LEMMA TaskEnds ==
  ASSUME AccountInv, NEW g, Account!Ends(g)
  PROVE  task' \in [Account!Goroutines -> TaskRecords]
BY IdleTask, OneTaskMoves DEF Account!Ends

LEMMA TaskStarts ==
  ASSUME AccountInv, NEW g, NEW kind \in Works, NEW place \in Posts, Account!Starts(g, kind, place)
  PROVE  task' \in [Account!Goroutines -> TaskRecords]
<1> DEFINE t == [Account!Idle EXCEPT !.kind = kind, !.at = place]
<1>1. t \in TaskRecords
  BY IdleTask DEF TaskRecords
<1>2. Account!Becomes(g, t)
  BY DEF Account!Starts
<1> HIDE DEF t
<1> QED  BY <1>1, <1>2, OneTaskMoves

LEMMA TaskGoes ==
  ASSUME AccountInv, NEW g \in Account!Goroutines, NEW place \in Posts, Account!Goes(g, place)
  PROVE  task' \in [Account!Goroutines -> TaskRecords]
<1> DEFINE p == task[g]
           t == [p EXCEPT !.at = place]
<1>1. p \in TaskRecords
  BY DEF AccountInv
<1>2. Account!Becomes(g, t)
  BY DEF Account!Goes
<1> HIDE DEF p
<1>3. t \in TaskRecords
  BY <1>1 DEF TaskRecords
<1> HIDE DEF t
<1> QED  BY <1>2, <1>3, OneTaskMoves

LEMMA Reconciled ==
  ASSUME AccountInv, NEW g, Account!Reconciles(g)
  PROVE  task' \in [Account!Goroutines -> TaskRecords]
BY TaskStarts DEF Account!Reconciles, Works, Posts

\* The types of what a step may assign.
LEMMA AccountFaults ==
  ASSUME QoderAccountsAssumption, AccountInv, Account!Fault \/ Account!NoFault
  PROVE  outside' \in 0 .. MaxEvents
BY DEF QoderAccountsAssumption, AccountInv, Account!TypeOK, Account!Fault, Account!NoFault

LEMMA ReadCreditsType ==
  ASSUME AccountInv
  PROVE  Account!ReadCredits \in Account!Credits
BY DEF AccountInv, Account!TypeOK, Account!ReadCredits, Account!Credits

LEMMA NoEntryType == Account!NoEntry \in Entries
BY DEF Account!NoEntry, Entries, Account!Credits

\* An entry of its own with these credits.
LEMMA NewEntryType ==
  ASSUME NEW c \in Account!Credits
  PROVE  [Account!NoEntry EXCEPT !.there = TRUE, !.credits = c] \in Entries
BY NoEntryType DEF Entries

LEMMA CacheType ==
  ASSUME AccountInv
  PROVE  /\ cache \in Entries /\ cache.credits \in Account!Credits
         /\ \A c \in Account!Credits : [cache EXCEPT !.credits = c] \in Entries
         /\ [cache EXCEPT !.there = TRUE, !.graced = TRUE] \in Entries
         /\ [cache EXCEPT !.graced = FALSE] \in Entries
<1>1. cache \in Entries
  BY DEF AccountInv, Account!TypeOK, Entries
<1> QED  BY <1>1 DEF Entries

LEMMA AccountStarts ==
  ASSUME QoderAccountsAssumption, Account!Init
  PROVE  AccountInv
<1>1. Account!NoEntry \in Entries
  BY NoEntryType
<1>2. Account!NoMemo \in [there : BOOLEAN, disabled : BOOLEAN, credits : Account!Credits]
  BY DEF Account!NoMemo, Account!Credits
<1>3. account \in [credits : {"empty", "some"}, lag : BOOLEAN, checked : BOOLEAN, dead : BOOLEAN]
  BY DEF Account!Init
<1>4. 0 \in 0 .. MaxEvents
  BY DEF QoderAccountsAssumption
<1>5. Account!TypeOK
  BY <1>1, <1>2, <1>3, <1>4 DEF Account!Init, Account!TypeOK, Entries
<1> QED  BY <1>5, IdleTask DEF AccountInv, Account!Init

\* The round's check-in.
LEMMA CheckinKeeps ==
  ASSUME QoderAccountsAssumption, AccountInv, NEW g \in Account!Goroutines, Account!Checkin(g)
  PROVE  AccountInv'
<1>1. /\ region \in {"cn", "intl"} /\ grace \in BOOLEAN /\ doc \in BOOLEAN
      /\ account \in [credits : {"empty", "some"}, lag : BOOLEAN, checked : BOOLEAN, dead : BOOLEAN]
      /\ written \in [there : BOOLEAN, disabled : BOOLEAN, credits : Account!Credits]
      /\ flight \in Account!Goroutines \cup {Nobody} /\ lock \in Account!Goroutines \cup {Nobody}
  BY DEF AccountInv, Account!TypeOK
<1>2. UNCHANGED <<region, doc, written, flight>>
  BY DEF Account!Checkin, Account!StatusRead, Account!StatusFails, Account!Claim, Account!Remember,
         Account!Refresh, Account!Store, Account!shared
<1>3. lock' \in Account!Goroutines \cup {Nobody}
  BY <1>1 DEF Account!Checkin, Account!StatusRead, Account!StatusFails, Account!Claim, Account!Remember,
         Account!Refresh, Account!Store, Account!Unlocks
<1>4. outside' \in 0 .. MaxEvents
  BY AccountFaults DEF Account!Checkin, Account!StatusRead, Account!StatusFails, Account!Claim,
         Account!Remember, Account!Refresh, Account!Store, Account!NoFault
<1>5. account' \in [credits : {"empty", "some"}, lag : BOOLEAN, checked : BOOLEAN, dead : BOOLEAN]
  <2>1. \A late \in BOOLEAN : [Account!Granted EXCEPT !.lag = late]
          \in [credits : {"empty", "some"}, lag : BOOLEAN, checked : BOOLEAN, dead : BOOLEAN]
    BY <1>1 DEF Account!Granted
  <2>2. UNCHANGED account \/ \E late \in BOOLEAN : account' = [Account!Granted EXCEPT !.lag = late]
    BY DEF Account!Checkin, Account!StatusRead, Account!StatusFails, Account!Claim, Account!Remember,
           Account!Refresh, Account!Store
  <2> QED  BY <1>1, <2>1, <2>2
<1>6. grace' \in BOOLEAN
  BY <1>1 DEF Account!Checkin, Account!StatusRead, Account!StatusFails, Account!Claim, Account!Remember,
         Account!Refresh, Account!Store, Account!shared
<1>7. cache' \in Entries
  BY CacheType, NewEntryType, ReadCreditsType
     DEF Account!Checkin, Account!StatusRead, Account!StatusFails, Account!Claim, Account!Remember,
         Account!Refresh, Account!Store, Account!shared, Account!Patched
<1>8. \/ \E place \in Posts : Account!Goes(g, place)
      \/ Account!Ends(g) \/ Account!Reconciles(g)
  BY DEF Account!Checkin, Account!StatusRead, Account!StatusFails, Account!Claim, Account!Remember,
         Account!Refresh, Account!Store, Posts
<1>9. task' \in [Account!Goroutines -> TaskRecords]
  BY <1>8, TaskGoes, TaskEnds, Reconciled
<1>10. Account!TypeOK'
  BY <1>1, <1>2, <1>3, <1>4, <1>5, <1>6, <1>7 DEF Account!TypeOK, Entries
<1> QED  BY <1>9, <1>10 DEF AccountInv

\* The account's details: one fetches, those who wait get what it got.
LEMMA DetailsKeeps ==
  ASSUME QoderAccountsAssumption, AccountInv, NEW g \in Account!Goroutines, Account!Details(g)
  PROVE  AccountInv'
<1>1. /\ region \in {"cn", "intl"} /\ grace \in BOOLEAN /\ doc \in BOOLEAN
      /\ account \in [credits : {"empty", "some"}, lag : BOOLEAN, checked : BOOLEAN, dead : BOOLEAN]
      /\ written \in [there : BOOLEAN, disabled : BOOLEAN, credits : Account!Credits]
      /\ flight \in Account!Goroutines \cup {Nobody} /\ lock \in Account!Goroutines \cup {Nobody}
      /\ task \in [Account!Goroutines -> TaskRecords]
  BY DEF AccountInv, Account!TypeOK
<1>2. UNCHANGED <<region, doc, written, grace, lock, account>>
  BY DEF Account!Details, Account!Reconcile, Account!Fetch, Account!Fetched, Account!shared
<1>3. flight' \in Account!Goroutines \cup {Nobody}
  BY <1>1 DEF Account!Details, Account!Reconcile, Account!Fetch, Account!Fetched
<1>4. outside' \in 0 .. MaxEvents
  BY AccountFaults DEF Account!Details, Account!Reconcile, Account!Fetch, Account!Fetched, Account!NoFault
<1> DEFINE p == task[g]
           credits == cache.credits
           a == [p EXCEPT !.disabled = doc, !.at = "fetch"]
           b == [p EXCEPT !.at = "note", !.credits = credits]
           c == [p EXCEPT !.prev = credits, !.at = "fetching"]
<1>5. p \in TaskRecords /\ credits \in Account!Credits
  BY <1>1, CacheType
<1>6. ASSUME Account!Reconcile(g) \/ Account!Fetch(g)
      PROVE  cache' \in Entries /\ task' \in [Account!Goroutines -> TaskRecords]
  <2>1. UNCHANGED cache
    BY <1>6 DEF Account!Reconcile, Account!Fetch, Account!shared
  <2>2. \/ Account!Becomes(g, a) \/ Account!Becomes(g, b) \/ Account!Becomes(g, c)
        \/ Account!Goes(g, "wait")
    BY <1>6 DEF Account!Reconcile, Account!Fetch
  <2> HIDE DEF p, credits
  <2>3. a \in TaskRecords /\ b \in TaskRecords /\ c \in TaskRecords
    BY <1>1, <1>5 DEF TaskRecords, Posts
  <2>4. "wait" \in Posts
    BY DEF Posts
  <2> HIDE DEF a, b, c
  <2> QED  BY <2>1, <2>2, <2>3, <2>4, OneTaskMoves, TaskGoes, CacheType
<1>7. ASSUME Account!Fetched(g)
      PROVE  cache' \in Entries /\ task' \in [Account!Goroutines -> TaskRecords]
  <2>1. PICK ok \in BOOLEAN :
          /\ cache' = Account!Stored(g, ok)
          /\ task' = [h \in Account!Goroutines |->
               IF h = g \/ Account!At(h, "wait")
               THEN [task[h] EXCEPT !.at = IF task[h].kind = "life" THEN "decide" ELSE "note",
                                    !.credits = Account!Stored(g, ok).credits, !.prev = "unknown"]
               ELSE task[h]]
    BY <1>7 DEF Account!Fetched
  <2> DEFINE stored == Account!Stored(g, ok)
             got == stored.credits
  <2>2. stored \in Entries
    <3> DEFINE kept == IF ok THEN Account!ReadCredits ELSE IF account.dead THEN "unknown" ELSE task[g].prev
    <3>1. kept \in Account!Credits
      BY <1>5, ReadCreditsType DEF TaskRecords, Account!Credits
    <3>2. stored = [Account!NoEntry EXCEPT !.there = TRUE, !.credits = kept]
      BY DEF Account!Stored
    <3> HIDE DEF kept
    <3> QED  BY <3>1, <3>2, NewEntryType
  <2>3. got \in Account!Credits
    BY <2>2 DEF Entries
  <2>4. task' = [h \in Account!Goroutines |->
               IF h = g \/ Account!At(h, "wait")
               THEN [task[h] EXCEPT !.at = IF task[h].kind = "life" THEN "decide" ELSE "note",
                                    !.credits = got, !.prev = "unknown"]
               ELSE task[h]]
    BY <2>1
  <2> HIDE DEF got
  <2>5. ASSUME NEW t \in TaskRecords
        PROVE  [t EXCEPT !.at = IF t.kind = "life" THEN "decide" ELSE "note",
                         !.credits = got, !.prev = "unknown"] \in TaskRecords
    BY <2>3 DEF TaskRecords, Posts, Account!Credits
  <2>6. task' \in [Account!Goroutines -> TaskRecords]
    BY <1>1, <2>4, <2>5
  <2> QED  BY <2>1, <2>2, <2>6
<1>8. cache' \in Entries /\ task' \in [Account!Goroutines -> TaskRecords]
  BY <1>6, <1>7 DEF Account!Details
<1>9. Account!TypeOK'
  BY <1>1, <1>2, <1>3, <1>4, <1>8 DEF Account!TypeOK, Entries
<1> QED  BY <1>8, <1>9 DEF AccountInv

\* The lifecycle decides, sets the flag or syncs the note.
LEMMA LifecycleKeeps ==
  ASSUME QoderAccountsAssumption, AccountInv, NEW g \in Account!Goroutines,
         Account!Decide(g) \/ Account!SetsFlag(g) \/ Account!SyncsNote(g)
  PROVE  AccountInv'
<1>1. /\ region \in {"cn", "intl"} /\ grace \in BOOLEAN /\ doc \in BOOLEAN
      /\ account \in [credits : {"empty", "some"}, lag : BOOLEAN, checked : BOOLEAN, dead : BOOLEAN]
      /\ written \in [there : BOOLEAN, disabled : BOOLEAN, credits : Account!Credits]
      /\ flight \in Account!Goroutines \cup {Nobody} /\ lock \in Account!Goroutines \cup {Nobody}
      /\ cache \in Entries
      /\ task[g].credits \in Account!Credits
  BY DEF AccountInv, Account!TypeOK, TaskRecords, Entries
<1>2. UNCHANGED <<region, account, grace, flight, lock>>
  BY DEF Account!Decide, Account!SetsFlag, Account!SyncsNote, Account!shared
<1>3. outside' \in 0 .. MaxEvents
  BY AccountFaults DEF Account!Decide, Account!SetsFlag, Account!SyncsNote, Account!Saves, Account!NoFault
<1>4. ASSUME NEW d \in BOOLEAN, Account!Saves(g, d)
      PROVE  /\ doc' \in BOOLEAN
             /\ written' \in [there : BOOLEAN, disabled : BOOLEAN, credits : Account!Credits]
  <2>1. \/ UNCHANGED <<doc, written>>
        \/ doc' = d /\ written' = [there |-> TRUE, disabled |-> d, credits |-> task[g].credits]
    BY <1>4 DEF Account!Saves
  <2>2. [there |-> TRUE, disabled |-> d, credits |-> task[g].credits]
          \in [there : BOOLEAN, disabled : BOOLEAN, credits : Account!Credits]
    BY <1>1
  <2>3. CASE UNCHANGED <<doc, written>>
    BY <1>1, <2>3
  <2>4. CASE doc' = d /\ written' = [there |-> TRUE, disabled |-> d, credits |-> task[g].credits]
    BY <2>2, <2>4
  <2> QED  BY <2>1, <2>3, <2>4
<1>5. /\ doc' \in BOOLEAN
      /\ written' \in [there : BOOLEAN, disabled : BOOLEAN, credits : Account!Credits]
  <2>1. Account!At(g, "disable") \in BOOLEAN
    BY DEF Account!At
  <2> QED  BY <1>1, <1>4, <2>1 DEF Account!Decide, Account!SetsFlag, Account!SyncsNote, Account!shared
<1>6. cache' \in Entries
  BY <1>1, NoEntryType DEF Account!Decide, Account!SetsFlag, Account!SyncsNote, Account!shared
<1>7. \/ \E place \in Posts : Account!Goes(g, place)
      \/ Account!Ends(g) \/ Account!Reconciles(g)
  BY DEF Account!Decide, Account!SetsFlag, Account!SyncsNote, Posts
<1>8. task' \in [Account!Goroutines -> TaskRecords]
  BY <1>7, TaskGoes, TaskEnds, Reconciled
<1>9. Account!TypeOK'
  BY <1>1, <1>2, <1>3, <1>5, <1>6 DEF Account!TypeOK, Entries
<1> QED  BY <1>8, <1>9 DEF AccountInv

\* A handler begins.
LEMMA HandlersBegin ==
  ASSUME QoderAccountsAssumption, AccountInv,
         Account!Tick \/ \E g \in Handlers : Account!Begins(g)
  PROVE  AccountInv'
<1>1. PICK g \in Account!Goroutines : (g = Scheduler /\ Account!Tick) \/ Account!Begins(g)
  BY DEF Account!Goroutines
<1>2. /\ region \in {"cn", "intl"} /\ grace \in BOOLEAN /\ doc \in BOOLEAN
      /\ account \in [credits : {"empty", "some"}, lag : BOOLEAN, checked : BOOLEAN, dead : BOOLEAN]
      /\ written \in [there : BOOLEAN, disabled : BOOLEAN, credits : Account!Credits]
      /\ flight \in Account!Goroutines \cup {Nobody} /\ lock \in Account!Goroutines \cup {Nobody}
      /\ cache \in Entries
  BY DEF AccountInv, Account!TypeOK, Entries
<1>3. UNCHANGED <<region, account, doc, written, grace, flight>>
  BY <1>1 DEF Account!Tick, Account!Begins, Account!HandBegins, Account!ErrorBegins, Account!Looks,
              Account!Queries, Account!shared
<1>4. lock' \in Account!Goroutines \cup {Nobody}
  BY <1>1, <1>2 DEF Account!Tick, Account!Begins, Account!HandBegins, Account!ErrorBegins, Account!Looks,
              Account!Queries
<1>5. outside' \in 0 .. MaxEvents
  BY <1>1, AccountFaults DEF Account!Tick, Account!Begins, Account!HandBegins, Account!ErrorBegins,
              Account!Looks, Account!Queries, Account!NoFault
<1>6. cache' \in Entries
  BY <1>1, <1>2, NewEntryType, ReadCreditsType
     DEF Account!Tick, Account!Begins, Account!HandBegins, Account!ErrorBegins, Account!Looks,
         Account!Queries, Account!shared
<1> DEFINE seen == Account!ReadCredits
           t == [Account!Idle EXCEPT !.kind = "look", !.at = "note", !.credits = seen]
<1>7. \/ \E kind \in Works, place \in Posts : Account!Starts(g, kind, place)
      \/ Account!Reconciles(g)
      \/ Account!Becomes(g, t)
  BY <1>1 DEF Account!Tick, Account!Begins, Account!HandBegins, Account!ErrorBegins, Account!Looks,
              Account!Queries, Works, Posts
<1>8. seen \in Account!Credits
  BY ReadCreditsType
<1> HIDE DEF seen
<1>9. t \in TaskRecords
  BY <1>8, IdleTask DEF TaskRecords, Works, Posts
<1> HIDE DEF t
<1>10. task' \in [Account!Goroutines -> TaskRecords]
  BY <1>7, <1>9, TaskStarts, Reconciled, OneTaskMoves
<1>11. Account!TypeOK'
  BY <1>2, <1>3, <1>4, <1>5, <1>6 DEF Account!TypeOK, Entries
<1> QED  BY <1>10, <1>11 DEF AccountInv

\* What happens outside moves no handler.
LEMMA AccountOutside ==
  ASSUME QoderAccountsAssumption, AccountInv,
         \/ Account!Imports \/ Account!Spends \/ Account!Revoked \/ Account!NewDay
         \/ Account!Edits \/ Account!Prunes \/ Account!Passes
  PROVE  AccountInv'
<1> DEFINE Upstreams == [credits : {"empty", "some"}, lag : BOOLEAN, checked : BOOLEAN, dead : BOOLEAN]
           Writings == [there : BOOLEAN, disabled : BOOLEAN, credits : Account!Credits]
<1>1. /\ region \in {"cn", "intl"} /\ grace \in BOOLEAN /\ doc \in BOOLEAN
      /\ account \in Upstreams /\ written \in Writings
      /\ flight \in Account!Goroutines \cup {Nobody} /\ lock \in Account!Goroutines \cup {Nobody}
      /\ cache \in Entries /\ outside \in 0 .. MaxEvents
  BY DEF AccountInv, Account!TypeOK, Entries
<1>2. UNCHANGED <<region, flight, lock, task>>
  BY DEF Account!Imports, Account!Spends, Account!Revoked, Account!NewDay, Account!Edits, Account!Prunes,
         Account!Passes, Account!Shown, Account!MemoExpires, Account!GracePasses
<1>3. grace' \in BOOLEAN /\ doc' \in BOOLEAN
  BY <1>1 DEF Account!Imports, Account!Spends, Account!Revoked, Account!NewDay, Account!Edits,
         Account!Prunes, Account!Passes, Account!Shown, Account!MemoExpires, Account!GracePasses,
         Account!shared
<1>4. account' \in Upstreams
  BY <1>1 DEF Account!Imports, Account!Spends, Account!Revoked, Account!NewDay, Account!Edits,
         Account!Prunes, Account!Passes, Account!Shown, Account!MemoExpires, Account!GracePasses
<1>5. written' \in Writings
  <2>1. Account!NoMemo \in Writings
    BY DEF Account!NoMemo, Account!Credits
  <2> QED  BY <1>1, <2>1 DEF Account!Imports, Account!Spends, Account!Revoked, Account!NewDay,
         Account!Edits, Account!Prunes, Account!Passes, Account!Shown, Account!MemoExpires,
         Account!GracePasses, Account!shared
<1>6. cache' \in Entries
  <2>1. "unknown" \in Account!Credits
    BY DEF Account!Credits
  <2>2. \/ cache' = cache \/ cache' = Account!NoEntry
        \/ cache' = [cache EXCEPT !.credits = "unknown"] \/ cache' = [cache EXCEPT !.graced = FALSE]
    BY DEF Account!Imports, Account!Spends, Account!Revoked, Account!NewDay, Account!Edits,
           Account!Prunes, Account!Passes, Account!Shown, Account!MemoExpires, Account!GracePasses,
           Account!shared, Account!Patched
  <2> QED  BY <1>1, <2>1, <2>2, NoEntryType, CacheType
<1>7. outside' \in 0 .. MaxEvents
  BY <1>1, AccountFaults DEF Account!Imports, Account!Spends, Account!Revoked, Account!NewDay,
         Account!Edits, Account!Prunes, Account!Passes, Account!Shown, Account!MemoExpires,
         Account!GracePasses
<1>8. Account!TypeOK'
  BY <1>1, <1>2, <1>3, <1>4, <1>5, <1>6, <1>7 DEF Account!TypeOK, Entries
<1> QED  BY <1>2, <1>8 DEF AccountInv

LEMMA AccountSteps ==
  ASSUME QoderAccountsAssumption, AccountInv, Account!Next
  PROVE  AccountInv'
<1>1. ASSUME NEW g \in Account!Goroutines, Account!Works(g) PROVE AccountInv'
  BY <1>1, CheckinKeeps, DetailsKeeps, LifecycleKeeps DEF Account!Works
<1> QED  BY <1>1, HandlersBegin, AccountOutside DEF Account!Next

LEMMA AccountRests ==
  ASSUME AccountInv, UNCHANGED accountVars
  PROVE  AccountInv'
BY DEF AccountInv, Account!TypeOK, accountVars

-----------------------------------------------------------------------------
(* The three lanes.                                                          *)

LanesInv == CampaignInv /\ DeviceInv /\ AccountInv

\* Every behaviour keeps the three invariants: a lane that is not taken rests.
THEOREM LanesSound == LanesSpec => []LanesInv
<1>1. QoderAccountsAssumption
  BY QoderAccountsAssumption
<1>2. LanesInit => LanesInv
  BY <1>1, CampaignStarts, DeviceStarts, AccountStarts DEF LanesInit, LanesInv
<1>3. LanesInv /\ [LanesNext]_allVars => LanesInv'
  <2> SUFFICES ASSUME LanesInv, [LanesNext]_allVars PROVE LanesInv'
    OBVIOUS
  <2>1. ASSUME Next /\ InCampaign PROVE LanesInv'
    BY <1>1, <2>1, CampaignSteps, DeviceRests, AccountRests DEF LanesInv, InCampaign
  <2>2. ASSUME Device!Next /\ InDevice PROVE LanesInv'
    BY <1>1, <2>2, DeviceSteps, CampaignRests, AccountRests DEF LanesInv, InDevice
  <2>3. ASSUME Account!Next /\ InAccount PROVE LanesInv'
    BY <1>1, <2>3, AccountSteps, CampaignRests, DeviceRests DEF LanesInv, InAccount
  <2>4. ASSUME UNCHANGED allVars PROVE LanesInv'
    BY <2>4, CampaignRests, DeviceRests, AccountRests DEF LanesInv, allVars
  <2> QED  BY <2>1, <2>2, <2>3, <2>4 DEF LanesNext
<1> QED  BY <1>2, <1>3, PTL DEF LanesSpec

\* "A conclusive verdict on round R must not silence the probe for a new round"
\* (campaign.go:411): whatever rounds open, siblings take or restarts forget, a
\* pass that was kept from its probe knows of no round, or of one this account
\* was given a verdict on.
THEOREM ProbesNotSilenced == LanesSpec => []LatchIsVerdict
<1>1. LanesInv => LatchIsVerdict
  BY QoderAccountsAssumption, CampaignKept DEF LanesInv
<1> QED  BY <1>1, LanesSound, PTL

\* A pass that was given an amount of credits or a code by any of its rows reports
\* a claim (campaign.go, performCampaignCheckin), whatever the others were answered;
\* a probe does for whatever landed; and none reports a claim when nothing landed.
THEOREM GrantsReported == LanesSpec => []GrantsTold
<1>1. LanesInv => GrantsTold
  BY QoderAccountsAssumption, CampaignKept DEF LanesInv
<1> QED  BY <1>1, LanesSound, PTL

\* However many calls wait for the bridge, none downloads one it would accept from
\* disk or one tried within six hours, and of a downloaded bundle, with up to two
\* components here, the one of the best size is installed, even if that is one the
\* disk check turns down (umid_provision.go, provisionedRuntimeInfo,
\* selectUmidBlob); all lanes keep their types.
THEOREM OneDownload == LanesSpec => []NoStampede
<1>1. LanesInv => NoStampede
  <2> SUFFICES ASSUME LanesInv PROVE NoStampede
    OBVIOUS
  <2>1. DeviceTypes /\ \A c \in Calls : call[c] \in CallRecords /\ Alone(c, call[c], runLock, bridgeDisk, tried)
    BY DEF LanesInv, DeviceInv
  <2>2. TypeOK /\ Account!TypeOK
    BY QoderAccountsAssumption, CampaignKept DEF LanesInv, AccountInv
  <2>3. Device!TypeOK
    BY <2>1 DEF Device!TypeOK, DeviceTypes, CallRecords
  <2>4. Device!NoStampede
    BY <2>1 DEF Device!NoStampede, Device!At, Device!R, Alone
  <2>5. Device!RightComponent
    <3>1. \A c \in Calls : call[c].bundle \in Device!Bundles
      BY <2>1 DEF CallRecords
    <3> QED  BY <3>1, ScanFindsBest DEF Device!RightComponent
  <2> QED  BY <2>2, <2>3, <2>4, <2>5 DEF NoStampede, LanesTypeOK
<1> QED  BY <1>1, LanesSound, PTL
=============================================================================
