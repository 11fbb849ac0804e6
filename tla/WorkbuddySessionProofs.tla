------------------------ MODULE WorkbuddySessionProofs ------------------------
(***************************************************************************)
(* The renewal plane is exclusive (OneRenewal), and as long as only the    *)
(* plane touches the credential the store keeps up with the session and a  *)
(* dead verdict is true (PairKept, DeadOnlyIfGone), for any goroutines.    *)
(***************************************************************************)
EXTENDS WorkbuddySession, TLAPS

Scalars ==
  /\ live \in Nat /\ issued \in Nat /\ doc \in Docs
  /\ inflight \in Procs \cup {NoProc} /\ window \in BOOLEAN /\ refused \in BOOLEAN
  /\ alone \in BOOLEAN

Types == Scalars /\ proc \in [Procs -> Proc]

\* Where only a goroutine of the plane can be.
PlaneOnly == {"sent", "asking", "joined", "woken", "renewed", "refusing", "failing",
              "deciding", "noting"} \cup Outcomes
Roled(r) == r.at \in PlaneOnly => r.role \in {"call", "fetch"}
Owns(r) == r.role \in {"call", "fetch"} /\ r.at \in Owning

Excl ==
  /\ Types
  /\ \A p \in Procs : Roled(proc[p])
  /\ \A p \in Procs : Owns(proc[p]) <=> inflight = p
  /\ \A p \in Procs : At(p, "joined") => inflight # NoProc

\* What one goroutine's step does to the table of goroutines.
Only(p, new) ==
  /\ proc' \in [Procs -> Proc] /\ proc'[p] = new
  /\ \A q \in Procs : q # p => proc'[q] = proc[q]

LEMMA BecomesOnly ==
  ASSUME Types, NEW p \in Procs, NEW new \in Proc, Becomes(p, new)
  PROVE  Only(p, new)
  BY DEF Types, Becomes, Only

LEMMA MovedFits ==
  ASSUME Types, NEW p \in Procs, NEW place \in Places, NEW pair \in Pairs, NEW next \in Docs
  PROVE  LET m == Moved(p, place, pair, next) IN
         /\ m \in Proc /\ m.at = place /\ m.held = pair /\ m.next = next
         /\ m.role = proc[p].role /\ m.snap = proc[p].snap
<1>1. proc[p] \in Proc
  BY DEF Types
<1> QED  BY <1>1 DEF Moved, Proc

LEMMA EmptyFits == NoPair \in Pairs /\ NoDoc \in Docs /\ AtRest \in Proc
  BY DEF NoPair, NoDoc, AtRest, Pairs, Docs, Flags, Proc, Roles, Places

LEMMA EndedFits ==
  ASSUME Types, NEW p \in Procs, NEW outcome \in Outcomes
  PROVE  LET e == Ended(p, outcome) IN
         e \in Proc /\ e.at = outcome /\ e.role \in {"call", "fetch"}
<1>1. outcome \in Places
  BY DEF Places, Outcomes
<1>2. CASE proc[p].role = "fetch"
  BY <1>1, <1>2, MovedFits, EmptyFits DEF Ended
<1>3. CASE proc[p].role # "fetch"
  BY <1>1, <1>3, EmptyFits DEF Ended, AtRest, Proc, Roles
<1> QED  BY <1>2, <1>3

LEMMA ConcludedFits ==
  ASSUME Types, NEW p \in Procs, NEW place \in Owning
  PROVE  LET c == Concluded(p, place) IN
         /\ c \in Proc
         /\ InPlane(p) => c.at = place /\ c.role = proc[p].role
         /\ ~InPlane(p) => c = AtRest
<1>1. place \in Places
  BY DEF Places, Healing
<1> QED  BY <1>1, MovedFits, EmptyFits DEF Concluded

\* A step of one goroutine that neither acquires nor releases.
LEMMA SameOwner ==
  ASSUME Excl, NEW p \in Procs, NEW new \in Proc, Becomes(p, new), Scalars',
         inflight' = inflight, Roled(new), Owns(new) <=> Owns(proc[p]),
         new.at = "joined" => inflight # NoProc
  PROVE  Excl' /\ Only(p, new)
<1>1. Only(p, new)
  BY BecomesOnly DEF Excl
<1> QED  BY <1>1 DEF Excl, Types, Only, At

LEMMA MovesOnSame ==
  ASSUME Excl, NEW p \in Procs, MovesOn(p), Scalars', inflight' = inflight, ~Owns(proc[p])
  PROVE  Excl' /\ \E new \in Proc : Only(p, new) /\ new.at \in {"idle", "deciding"} /\ Roled(new)
<1>1. CASE Becomes(p, AtRest)
  <2>1. Roled(AtRest) /\ ~Owns(AtRest) /\ AtRest.at = "idle"
    BY DEF Roled, Owns, AtRest, PlaneOnly, Owning, Outcomes
  <2> QED  BY <1>1, <2>1, EmptyFits, SameOwner
<1>2. CASE proc[p].role = "fetch" /\ Goes(p, "deciding")
  <2> DEFINE m == Moved(p, "deciding", NoPair, NoDoc)
  <2>1. m \in Proc /\ m.at = "deciding" /\ m.role = "fetch"
    BY <1>2, MovedFits, EmptyFits DEF Excl, Places
  <2>2. Roled(m) /\ ~Owns(m)
    BY <2>1 DEF Roled, Owns, Owning
  <2> QED  BY <1>2, <2>1, <2>2, SameOwner DEF Goes
<1> QED  BY <1>1, <1>2 DEF MovesOn

-----------------------------------------------------------------------------
\* While only the plane touches the credential: a caller that is about to
\* acquire holds the stored pair, or stands inside the window of the renewal
\* that replaced it and will be throttled; an owner renews the stored pair and
\* saves the accepted one; whoever is about to say or to write that the session
\* is dead is right.
ProcFits(p) ==
  /\ At(p, "asking") => proc[p].held = doc.pair \/ window
  /\ At(p, "renewing") => proc[p].held = doc.pair
  /\ At(p, "saving") => live = 0 \/ proc[p].held.refresh = live
  /\ At(p, "writing") => live = 0 \/ proc[p].next.pair.refresh = live
  /\ At(p, "marking") => proc[p].next.pair = doc.pair
  /\ proc[p].at \in {"flagging", "marking", "refusing", "condemned"} => live = 0
  /\ proc[p].at \in {"writing", "noting"} /\ proc[p].next.disabled = "dead" => live = 0

\* Nobody of the plane has a newer pair in hand than the store.
Saved == \A p \in Procs : proc[p].at \notin {"saving", "writing"}

StoreFits == live = 0 \/ doc.pair.refresh = live \/ ~Saved

Fits ==
  /\ \A p \in Procs : ~At(p, "idle") => InPlane(p)
  /\ inflight # NoProc => window
  /\ refused \/ doc.disabled = "dead" => live = 0
  /\ StoreFits
  /\ \A p \in Procs : ProcFits(p)

IInv == Excl /\ (alone => Fits)

\* A goroutine's step that leaves the store, the session and the renewals.
LEMMA QuietFits ==
  ASSUME Excl, Fits, NEW p \in Procs, NEW new \in Proc, Only(p, new), Excl',
         doc'.pair = doc.pair, doc'.disabled = "dead" => live' = 0, live' = live,
         inflight' = inflight, window' = window, refused' = refused,
         new.at = "idle" \/ new.role \in {"call", "fetch"},
         proc[p].at \notin {"saving", "writing"},
         ProcFits(p)'
  PROVE  Fits'
<1>1. \A q \in Procs : q # p => ProcFits(q)'
  BY DEF Fits, ProcFits, Only, At
<1>2. \A q \in Procs : ~At(q, "idle")' => InPlane(q)'
  BY DEF Fits, Only, At, InPlane
<1>3. StoreFits'
  BY DEF Fits, StoreFits, Saved, Only
<1> QED  BY <1>1, <1>2, <1>3 DEF Fits

\* At these places there is nothing to show.
LEMMA FreeFits ==
  ASSUME NEW p \in Procs,
         proc'[p].at \in {"idle", "sent", "joined", "woken", "deciding", "renewed", "failing",
                          "resent", "unhealed"}
  PROVE  ProcFits(p)'
  BY DEF ProcFits, At

\* The heals' ends, and the places where nothing is in hand.
LEMMA EndsKeeps ==
  ASSUME IInv, NEW p \in Procs, NEW outcome \in Outcomes, Ends(p, outcome),
         proc[p].at \in {"sent", "asking", "woken"},
         outcome = "condemned" => refused,
         UNCHANGED <<upstream, doc, plane, alone>>
  PROVE  IInv'
<1> DEFINE e == Ended(p, outcome)
<1>1. e \in Proc /\ e.at = outcome /\ e.role \in {"call", "fetch"}
  BY EndedFits DEF IInv, Excl
<1>2. Scalars' /\ inflight' = inflight
  BY DEF IInv, Excl, Types, Scalars, upstream, plane
<1>3. Roled(e) /\ ~Owns(e) /\ ~Owns(proc[p]) /\ e.at # "joined"
  BY <1>1 DEF Roled, Owns, Owning, Outcomes
<1>4. Excl' /\ Only(p, e)
  BY <1>1, <1>2, <1>3, SameOwner DEF IInv, Ends
<1>5. ASSUME alone PROVE Fits'
  <2>1. ProcFits(p)'
    BY <1>1, <1>4, <1>5 DEF IInv, Fits, Only, ProcFits, At, Outcomes, upstream
  <2> QED  BY <1>1, <1>4, <1>5, <2>1, QuietFits DEF IInv, Fits, upstream, plane
<1> QED  BY <1>4, <1>5 DEF IInv

LEMMA VerdictFits == Verdict \in Outcomes /\ (Verdict = "condemned" => refused)
  BY DEF Verdict, Outcomes

LEMMA MovesOnKeeps ==
  ASSUME IInv, NEW p \in Procs, MovesOn(p), proc[p].at \in {"sent"} \cup Outcomes,
         UNCHANGED <<upstream, doc, plane, alone>>
  PROVE  IInv'
<1>1. Scalars' /\ inflight' = inflight /\ ~Owns(proc[p])
  BY DEF IInv, Excl, Types, Scalars, upstream, plane, Owns, Owning, Outcomes
<1>2. Excl' /\ \E new \in Proc : Only(p, new) /\ new.at \in {"idle", "deciding"} /\ Roled(new)
  BY <1>1, MovesOnSame DEF IInv
<1>3. PICK new \in Proc : Only(p, new) /\ new.at \in {"idle", "deciding"} /\ Roled(new)
  BY <1>2
<1>4. ASSUME alone PROVE Fits'
  <2>1. ProcFits(p)'
    BY <1>3, FreeFits DEF Only
  <2>2. new.at = "idle" \/ new.role \in {"call", "fetch"}
    BY <1>3 DEF Roled, PlaneOnly
  <2> QED  BY <1>2, <1>3, <1>4, <2>1, <2>2, QuietFits
           DEF IInv, Fits, upstream, plane, Outcomes
<1> QED  BY <1>2, <1>4 DEF IInv

\* A step to a place of the plane, with a pair or a document in hand.
LEMMA MovedKeeps ==
  ASSUME IInv, NEW p \in Procs,
         NEW place \in Places, NEW pair \in Pairs, NEW next \in Docs,
         Becomes(p, Moved(p, place, pair, next)),
         Scalars', inflight' = inflight, window' = window, refused' = refused,
         live' = live, doc' = doc, alone' = alone,
         place \in PlaneOnly => InPlane(p),
         InPlane(p) => (place \in Owning <=> proc[p].at \in Owning),
         place = "joined" => inflight # NoProc,
         proc[p].at \notin {"idle", "saving", "writing"},
         alone /\ Only(p, Moved(p, place, pair, next)) => ProcFits(p)'
  PROVE  IInv'
<1> DEFINE m == Moved(p, place, pair, next)
<1>1. m \in Proc /\ m.at = place /\ m.held = pair /\ m.next = next /\ m.role = proc[p].role
  BY MovedFits DEF IInv, Excl
<1>2. Roled(m) /\ (Owns(m) <=> Owns(proc[p])) /\ (m.at = "joined" => inflight # NoProc)
  BY <1>1 DEF Roled, Owns, InPlane
<1>3. Excl' /\ Only(p, m)
  BY <1>1, <1>2, SameOwner DEF IInv
<1>4. ASSUME alone PROVE Fits'
  <2>1. m.role \in {"call", "fetch"}
    BY <1>1, <1>4 DEF IInv, Fits, At, InPlane
  <2>2. ProcFits(p)'
    BY <1>3, <1>4
  <2> QED  BY <1>1, <1>3, <1>4, <2>1, <2>2, QuietFits DEF IInv, Fits
<1> QED  BY <1>3, <1>4 DEF IInv

\* A refresh that ends, from a place where nothing new was in hand.
LEMMA ConcludesKeeps ==
  ASSUME IInv, NEW p \in Procs, NEW place \in {"refusing", "failing"}, Concludes(p, place),
         proc[p].at \in {"renewing", "flagging", "marking"},
         place = "refusing" /\ alone => live = 0,
         Scalars', inflight' = inflight, window' = window, refused' = refused,
         live' = live, doc'.pair = doc.pair, alone /\ doc'.disabled = "dead" => live = 0,
         alone' = alone
  PROVE  IInv'
<1> DEFINE c == Concluded(p, place)
<1>1. place \in Owning
  BY DEF Owning
<1>2. /\ c \in Proc
      /\ InPlane(p) => c.at = place /\ c.role = proc[p].role
      /\ ~InPlane(p) => c = AtRest
  BY <1>1, ConcludedFits DEF IInv, Excl
<1>3. AtRest.at = "idle" /\ AtRest.role = "call"
  BY DEF AtRest
<1>4. Roled(c) /\ (Owns(c) <=> Owns(proc[p])) /\ c.at # "joined"
  BY <1>2, <1>3 DEF Roled, Owns, InPlane, PlaneOnly, Owning, Outcomes
<1>5. Excl' /\ Only(p, c)
  BY <1>2, <1>4, SameOwner DEF IInv, Concludes
<1>6. ASSUME alone PROVE Fits'
  <2>1. InPlane(p)
    BY <1>6 DEF IInv, Fits, At
  <2>2. ProcFits(p)'
    BY <1>2, <1>5, <1>6, <2>1 DEF Only, ProcFits, At
  <2> QED  BY <1>2, <1>5, <1>6, <2>1, <2>2, QuietFits DEF IInv, Fits, InPlane
<1> QED  BY <1>5, <1>6 DEF IInv

-----------------------------------------------------------------------------
LEMMA BeginKeeps ==
  ASSUME IInv, NEW p \in Procs, NEW role \in Roles, Begin(p, role)
  PROVE  IInv'
<1> DEFINE new == [role |-> role, at |-> IF role \in {"call", "fetch"} THEN "sent" ELSE "renewing",
                   snap |-> IF role \in {"call", "fetch"} THEN doc.pair ELSE NoPair,
                   was |-> role = "fetch" /\ doc.disabled # "no",
                   held |-> IF role \in {"call", "fetch"} THEN NoPair ELSE doc.pair,
                   next |-> NoDoc]
<1>1. doc.pair \in Pairs
  BY DEF IInv, Excl, Types, Scalars, Docs
<1>2. new \in Proc
  BY <1>1, EmptyFits DEF Proc, Places, Healing, Owning
<1>3. /\ new.role = role
      /\ role \in {"call", "fetch"} => new.at = "sent"
      /\ role \notin {"call", "fetch"} => new.at = "renewing"
  OBVIOUS
<1>4. Scalars' /\ inflight' = inflight /\ Becomes(p, new)
  BY DEF Begin, IInv, Excl, Types, Scalars, upstream, plane
<1>5. Roled(new) /\ ~Owns(new) /\ ~Owns(proc[p]) /\ new.at # "joined"
  BY <1>3 DEF Begin, At, Roled, Owns, Owning, PlaneOnly, Outcomes
<1>6. Excl' /\ Only(p, new)
  BY <1>2, <1>4, <1>5, SameOwner DEF IInv
<1>7. ASSUME alone' PROVE Fits'
  <2>1. alone /\ role \in {"call", "fetch"} /\ doc' = doc /\ live' = live
        /\ window' = window /\ refused' = refused
    BY <1>7 DEF Begin, upstream, plane
  <2>2. ProcFits(p)'
    BY <1>3, <1>6, <2>1, FreeFits DEF Only
  <2>3. proc[p].at \notin {"saving", "writing"}
    BY DEF Begin, At
  <2> QED  BY <1>2, <1>3, <1>4, <1>6, <2>1, <2>2, <2>3, QuietFits DEF IInv, Fits
<1> QED  BY <1>6, <1>7 DEF IInv

\* The 401, the join, the throttle and the wake.
LEMMA HealKeeps ==
  ASSUME IInv, NEW p \in Procs,
         Answered(p) \/ Bounced(p) \/ Join(p) \/ Throttled(p) \/ Woken(p) \/ CallEnds(p)
  PROVE  IInv'
<1>1. Scalars' /\ inflight' = inflight /\ window' = window /\ refused' = refused
      /\ live' = live /\ doc' = doc /\ alone' = alone
      /\ UNCHANGED <<upstream, doc, plane, alone>>
  BY DEF Answered, Bounced, Join, Throttled, Woken, CallEnds, upstream, plane,
         IInv, Excl, Types, Scalars
<1>2. CASE Answered(p) \/ CallEnds(p)
  BY <1>1, <1>2, MovesOnKeeps DEF Answered, CallEnds, At
<1>3. CASE Bounced(p)
  <2>1. CASE Ends(p, "resent") \/ Ends(p, "unhealed")
    BY <1>1, <1>3, <2>1, EndsKeeps DEF Bounced, At, Outcomes
  <2>2. CASE Holds(p, "asking", doc.pair)
    <3> DEFINE m == Moved(p, "asking", doc.pair, NoDoc)
    <3>1. doc.pair \in Pairs /\ "asking" \in Places /\ proc[p].at = "sent" /\ InPlane(p)
      BY <1>3 DEF IInv, Excl, Types, Scalars, Docs, Places, Healing, Bounced, At, Roled,
                  PlaneOnly, InPlane
    <3>2. m.at = "asking" /\ m.held = doc.pair
      BY <3>1, MovedFits, EmptyFits DEF IInv, Excl
    <3>3. Only(p, m) => ProcFits(p)'
      BY <1>1, <3>2 DEF Only, ProcFits, At
    <3>4. "asking" \notin Owning /\ "sent" \notin Owning
      BY DEF Owning
    <3> QED  BY <1>1, <2>2, <3>1, <3>3, <3>4, EmptyFits, MovedKeeps DEF Holds
  <2> QED  BY <1>3, <2>1, <2>2 DEF Bounced
<1>4. CASE Join(p)
  <2> DEFINE m == Moved(p, "joined", NoPair, NoDoc)
  <2>1. "joined" \in Places /\ proc[p].at = "asking" /\ InPlane(p) /\ inflight # NoProc
    BY <1>4 DEF IInv, Excl, Places, Healing, Join, At, Roled, PlaneOnly, InPlane
  <2>2. m.at = "joined"
    BY <2>1, MovedFits, EmptyFits DEF IInv, Excl
  <2>3. Only(p, m) => ProcFits(p)'
    BY <2>2, FreeFits DEF Only
  <2>4. "asking" \notin Owning /\ "joined" \notin Owning
    BY DEF Owning
  <2> QED  BY <1>1, <1>4, <2>1, <2>3, <2>4, EmptyFits, MovedKeeps DEF Join, Goes
<1>5. CASE Throttled(p)
  BY <1>1, <1>5, VerdictFits, EndsKeeps DEF Throttled, At
<1>6. CASE Woken(p)
  <2>1. CASE Ends(p, "resent")
    BY <1>1, <1>6, <2>1, EndsKeeps DEF Woken, At, Outcomes
  <2>2. CASE Ends(p, Verdict)
    BY <1>1, <1>6, <2>2, VerdictFits, EndsKeeps DEF Woken, At
  <2> QED  BY <1>6, <2>1, <2>2 DEF Woken
<1> QED  BY <1>2, <1>3, <1>4, <1>5, <1>6

\* The owner holds the stored pair: nobody can be inside the window it opens.
LEMMA AcquireKeeps ==
  ASSUME IInv, NEW p \in Procs, Acquire(p)
  PROVE  IInv'
<1> DEFINE m == Moved(p, "renewing", proc[p].held, NoDoc)
<1>1. "renewing" \in Places /\ proc[p].held \in Pairs /\ At(p, "asking") /\ InPlane(p)
  BY DEF IInv, Excl, Types, Proc, Places, Healing, Owning, Acquire, At, Roled, PlaneOnly, InPlane
<1>2. m \in Proc /\ m.at = "renewing" /\ m.held = proc[p].held /\ m.role = proc[p].role
  BY <1>1, MovedFits, EmptyFits DEF IInv, Excl
<1>3. Only(p, m)
  BY <1>2, BecomesOnly DEF IInv, Excl, Acquire, Holds
<1>4. Scalars' /\ inflight' = p /\ inflight = NoProc /\ ~window /\ window'
      /\ live' = live /\ doc' = doc /\ refused' = refused /\ alone' = alone
  BY DEF Acquire, IInv, Excl, Types, Scalars, upstream
<1>5. Excl'
  <2>1. \A q \in Procs : Roled(proc[q])'
    BY <1>1, <1>2, <1>3 DEF IInv, Excl, Only, Roled, InPlane
  <2>2. \A q \in Procs : Owns(proc[q])' <=> inflight' = q
    BY <1>1, <1>2, <1>3, <1>4, WorkbuddySessionAssumption
    DEF IInv, Excl, Only, Owns, Owning, InPlane
  <2>3. \A q \in Procs : At(q, "joined")' => inflight' # NoProc
    BY <1>4, WorkbuddySessionAssumption
  <2> QED  BY <1>3, <1>4, <2>1, <2>2, <2>3 DEF Excl, Types, Only
<1>6. ASSUME alone PROVE Fits'
  <2>1. \A q \in Procs : ProcFits(q)'
    <3>1. ProcFits(p)'
      BY <1>1, <1>2, <1>3, <1>4, <1>6 DEF IInv, Fits, ProcFits, Only, At
    <3>2. \A q \in Procs : q # p => ProcFits(q)'
      BY <1>3, <1>4, <1>6 DEF IInv, Fits, ProcFits, Only, At
    <3> QED  BY <3>1, <3>2
  <2>2. \A q \in Procs : ~At(q, "idle")' => InPlane(q)'
    BY <1>1, <1>2, <1>3, <1>6 DEF IInv, Fits, Only, At, InPlane
  <2>3. StoreFits'
    BY <1>1, <1>2, <1>3, <1>4, <1>6 DEF IInv, Fits, StoreFits, Saved, Only, At
  <2> QED  BY <1>4, <1>6, <2>1, <2>2, <2>3 DEF IInv, Fits
<1> QED  BY <1>4, <1>5, <1>6 DEF IInv

\* What holds of an owner, and of no other goroutine while the plane is alone.
LEMMA OwnerOnly ==
  ASSUME IInv, alone, NEW p \in Procs, proc[p].at \in Owning
  PROVE  /\ InPlane(p) /\ inflight = p /\ window
         /\ \A q \in Procs : q # p => proc[q].at \notin Owning
<1>1. \A q \in Procs : proc[q].at \in Owning => InPlane(q)
  BY DEF IInv, Fits, At, Owning
<1>2. \A q \in Procs : proc[q].at \in Owning => inflight = q
  BY <1>1 DEF IInv, Excl, Owns, InPlane
<1> QED  BY <1>1, <1>2, WorkbuddySessionAssumption DEF IInv, Fits

LEMMA RenewKeeps ==
  ASSUME IInv, NEW p \in Procs, Renew(p)
  PROVE  IInv'
<1>1. /\ At(p, "renewing") /\ live # 0 /\ proc[p].held.refresh = live
      /\ live' # 0 /\ live' \in Nat /\ issued' \in Nat /\ issued + 1 \in Nat
      /\ doc' = doc /\ inflight' = inflight /\ window' = window /\ refused' = refused
  BY DEF Renew, IInv, Excl, Types, Scalars, plane
<1>2. Scalars'
  <2>1. alone \in BOOLEAN
    BY DEF IInv, Excl, Types, Scalars
  <2>2. alone' \in BOOLEAN
    BY <2>1 DEF Renew
  <2> QED  BY <1>1, <2>2 DEF IInv, Excl, Types, Scalars
<1>3. CASE Holds(p, "saving", Folded(proc[p].held, issued + 1, live')) /\ UNCHANGED alone
  <2> DEFINE pair == Folded(proc[p].held, issued + 1, live')
             m == Moved(p, "saving", pair, NoDoc)
  <2>1. pair \in Pairs /\ pair.refresh = live' /\ "saving" \in Places
    BY <1>1 DEF Folded, Pairs, Places, Healing, Owning
  <2>2. m \in Proc /\ m.at = "saving" /\ m.held = pair /\ m.role = proc[p].role
    BY <2>1, MovedFits, EmptyFits DEF IInv, Excl
  <2>3. Roled(m) /\ (Owns(m) <=> Owns(proc[p])) /\ m.at # "joined"
    BY <1>1, <2>2 DEF Roled, Owns, Owning, PlaneOnly, Outcomes, At
  <2>4. Excl' /\ Only(p, m)
    BY <1>1, <1>2, <1>3, <2>2, <2>3, SameOwner DEF IInv, Holds
  <2>5. ASSUME alone PROVE Fits'
    <3>1. InPlane(p) /\ window /\ \A q \in Procs : q # p => proc[q].at \notin Owning
      BY <1>1, <2>5, OwnerOnly DEF At, Owning
    <3>2. \A q \in Procs : ProcFits(q)'
      <4>1. ProcFits(p)'
        BY <2>1, <2>2, <2>4 DEF ProcFits, Only, At
      <4>2. ASSUME NEW q \in Procs, q # p PROVE ProcFits(q)'
        BY <1>1, <2>4, <2>5, <3>1, <4>2 DEF IInv, Fits, ProcFits, Only, At, Owning
      <4> QED  BY <4>1, <4>2
    <3>3. \A q \in Procs : ~At(q, "idle")' => InPlane(q)'
      BY <2>2, <2>4, <2>5, <3>1 DEF IInv, Fits, Only, At, InPlane
    <3>4. StoreFits'
      BY <2>2, <2>4 DEF StoreFits, Saved, Only
    <3>5. ~refused /\ doc.disabled # "dead"
      BY <1>1, <2>5 DEF IInv, Fits
    <3> QED  BY <1>1, <2>5, <3>1, <3>2, <3>3, <3>4, <3>5 DEF Fits
  <2> QED  BY <1>3, <2>4, <2>5 DEF IInv
<1>4. CASE Concludes(p, "failing") /\ alone' = FALSE
  <2> DEFINE c == Concluded(p, "failing")
  <2>1. /\ c \in Proc
        /\ InPlane(p) => c.at = "failing" /\ c.role = proc[p].role
        /\ ~InPlane(p) => c = AtRest
    BY ConcludedFits DEF IInv, Excl, Owning
  <2>2. Roled(c) /\ (Owns(c) <=> Owns(proc[p])) /\ c.at # "joined"
    BY <1>1, <2>1 DEF Roled, Owns, InPlane, PlaneOnly, Owning, Outcomes, AtRest, At
  <2>3. Excl'
    BY <1>1, <1>2, <1>4, <2>1, <2>2, SameOwner DEF IInv, Concludes
  <2> QED  BY <1>4, <2>3 DEF IInv
<1> QED  BY <1>3, <1>4 DEF Renew

\* Refused while the plane is alone, the session is gone: the owner holds the
\* stored pair, and nobody else has a newer one in hand.
LEMMA RefuseKeeps ==
  ASSUME IInv, NEW p \in Procs, Refuse(p)
  PROVE  IInv'
<1>1. /\ At(p, "renewing") /\ proc[p].held.refresh # live
      /\ Scalars' /\ inflight' = inflight /\ window' = window /\ refused' = refused
      /\ live' = live /\ doc' = doc /\ alone' = alone
  BY DEF Refuse, IInv, Excl, Types, Scalars, upstream, plane
<1>2. alone => live = 0
  <2> SUFFICES ASSUME alone PROVE live = 0
    OBVIOUS
  <2>1. Saved
    BY <1>1, OwnerOnly DEF At, Owning, Saved
  <2> QED  BY <1>1, <2>1 DEF IInv, Fits, ProcFits, StoreFits
<1>3. alone /\ doc.disabled = "dead" => live = 0
  BY <1>2
<1>4. CASE Concludes(p, "failing")
  BY <1>1, <1>3, <1>4, ConcludesKeeps DEF At
<1>5. CASE Goes(p, "flagging")
  <2> DEFINE m == Moved(p, "flagging", NoPair, NoDoc)
  <2>1. "flagging" \in Places /\ "flagging" \in Owning /\ "renewing" \in Owning
        /\ "flagging" \notin PlaneOnly
    BY DEF Places, Healing, Owning, PlaneOnly, Outcomes
  <2>2. m.at = "flagging"
    BY <2>1, MovedFits, EmptyFits DEF IInv, Excl
  <2>3. alone /\ Only(p, m) => ProcFits(p)'
    BY <1>1, <1>2, <2>2 DEF Only, ProcFits, At
  <2> QED  BY <1>1, <1>5, <2>1, <2>3, EmptyFits, MovedKeeps DEF Goes, At
<1> QED  BY <1>4, <1>5 DEF Refuse

LEMMA RefreshFailsKeeps ==
  ASSUME IInv, NEW p \in Procs, RefreshFails(p)
  PROVE  IInv'
<1>1. /\ At(p, "renewing") /\ Concludes(p, "failing")
      /\ Scalars' /\ inflight' = inflight /\ window' = window /\ refused' = refused
      /\ live' = live /\ doc' = doc /\ alone' = alone
  BY DEF RefreshFails, IInv, Excl, Types, Scalars, upstream, plane
<1>2. alone /\ doc.disabled = "dead" => live = 0
  BY DEF IInv, Fits
<1> QED  BY <1>1, <1>2, ConcludesKeeps DEF At

LEMMA FlagReadsKeeps ==
  ASSUME IInv, NEW p \in Procs, FlagReads(p)
  PROVE  IInv'
<1>1. /\ At(p, "flagging")
      /\ Scalars' /\ inflight' = inflight /\ window' = window /\ refused' = refused
      /\ live' = live /\ doc' = doc /\ alone' = alone
  BY DEF FlagReads, IInv, Excl, Types, Scalars, upstream, plane
<1>2. alone => live = 0
  BY <1>1 DEF IInv, Fits, ProcFits, At
<1>3. CASE Concludes(p, "refusing")
  BY <1>1, <1>2, <1>3, ConcludesKeeps DEF At
<1>4. CASE Builds(p, "marking", [doc EXCEPT !.disabled = "dead"])
  <2> DEFINE next == [doc EXCEPT !.disabled = "dead"]
             m == Moved(p, "marking", NoPair, next)
  <2>1. next \in Docs /\ next.pair = doc.pair
    BY DEF IInv, Excl, Types, Scalars, Docs, Flags
  <2>2. "marking" \in Places /\ "flagging" \in Owning /\ "marking" \in Owning
        /\ "marking" \notin PlaneOnly
    BY DEF Places, Healing, Owning, PlaneOnly, Outcomes
  <2>3. m.at = "marking" /\ m.next = next
    BY <2>1, <2>2, MovedFits, EmptyFits DEF IInv, Excl
  <2>4. alone /\ Only(p, m) => ProcFits(p)'
    BY <1>1, <1>2, <2>1, <2>3 DEF Only, ProcFits, At
  <2> QED  BY <1>1, <1>4, <2>1, <2>2, <2>4, EmptyFits, MovedKeeps DEF Builds, At
<1> QED  BY <1>3, <1>4 DEF FlagReads

LEMMA FlagEndsKeeps ==
  ASSUME IInv, NEW p \in Procs, FlagWrites(p) \/ FlagFails(p)
  PROVE  IInv'
<1>1. /\ proc[p].at \in {"flagging", "marking"} /\ Concludes(p, "refusing")
      /\ inflight' = inflight /\ window' = window /\ refused' = refused
      /\ live' = live /\ issued' = issued /\ alone' = alone
  BY DEF FlagWrites, FlagFails, Saves, At, upstream, plane
<1>2. alone => live = 0
  BY <1>1 DEF IInv, Fits, ProcFits
<1>3. CASE FlagWrites(p)
  <2>1. At(p, "marking") /\ doc' = proc[p].next /\ proc[p].next \in Docs
    BY <1>3 DEF FlagWrites, Saves, IInv, Excl, Types, Proc
  <2>2. Scalars'
    BY <1>1, <2>1 DEF IInv, Excl, Types, Scalars
  <2>3. CASE alone
    <3>1. doc'.pair = doc.pair
      BY <2>1, <2>3 DEF IInv, Fits, ProcFits
    <3> QED  BY <1>1, <1>2, <2>2, <2>3, <3>1, ConcludesKeeps
  <2>4. CASE ~alone
    <3> DEFINE c == Concluded(p, "refusing")
    <3>1. /\ c \in Proc
          /\ InPlane(p) => c.at = "refusing" /\ c.role = proc[p].role
          /\ ~InPlane(p) => c = AtRest
      BY ConcludedFits DEF IInv, Excl, Owning
    <3>2. Roled(c) /\ (Owns(c) <=> Owns(proc[p])) /\ c.at # "joined"
      BY <1>1, <3>1 DEF Roled, Owns, InPlane, PlaneOnly, Owning, Outcomes, AtRest
    <3>3. Excl'
      BY <1>1, <2>2, <3>1, <3>2, SameOwner DEF IInv, Concludes
    <3> QED  BY <1>1, <2>4, <3>3 DEF IInv
  <2> QED  BY <2>3, <2>4
<1>4. CASE FlagFails(p)
  <2>1. doc' = doc /\ Scalars'
    BY <1>1, <1>4 DEF FlagFails, IInv, Excl, Types, Scalars
  <2> QED  BY <1>1, <1>2, <2>1, ConcludesKeeps
<1> QED  BY <1>3, <1>4

LEMMA SaveReadsKeeps ==
  ASSUME IInv, NEW p \in Procs, SaveReads(p)
  PROVE  IInv'
<1> DEFINE next == [doc EXCEPT !.pair = proc[p].held]
           m == Moved(p, "writing", NoPair, next)
<1>1. /\ At(p, "saving") /\ Becomes(p, m)
      /\ Scalars' /\ inflight' = inflight /\ window' = window /\ refused' = refused
      /\ live' = live /\ doc' = doc /\ alone' = alone
  BY DEF SaveReads, Builds, IInv, Excl, Types, Scalars, upstream, plane
<1>2. proc[p].held \in Pairs /\ doc \in Docs
  BY DEF IInv, Excl, Types, Scalars, Proc
<1>3. next \in Docs /\ next.pair = proc[p].held /\ next.disabled = doc.disabled
  BY <1>2 DEF Docs
<1>4. "writing" \in Places
  BY DEF Places, Healing, Owning
<1>5. m \in Proc /\ m.at = "writing" /\ m.next = next /\ m.role = proc[p].role
  BY <1>3, <1>4, MovedFits, EmptyFits DEF IInv, Excl
<1>6. Roled(m) /\ (Owns(m) <=> Owns(proc[p])) /\ m.at # "joined"
  BY <1>1, <1>5 DEF Roled, Owns, Owning, PlaneOnly, Outcomes, At
<1>7. Excl' /\ Only(p, m)
  BY <1>1, <1>5, <1>6, SameOwner DEF IInv
<1>8. ASSUME alone PROVE Fits'
  <2>1. \A q \in Procs : ProcFits(q)'
    <3>1. ProcFits(p)'
      BY <1>1, <1>3, <1>5, <1>7, <1>8 DEF IInv, Fits, ProcFits, Only, At
    <3>2. \A q \in Procs : q # p => ProcFits(q)'
      BY <1>1, <1>7, <1>8 DEF IInv, Fits, ProcFits, Only, At
    <3> QED  BY <3>1, <3>2
  <2>2. \A q \in Procs : ~At(q, "idle")' => InPlane(q)'
    BY <1>1, <1>5, <1>7, <1>8 DEF IInv, Fits, Only, At, InPlane
  <2>3. StoreFits'
    BY <1>5, <1>7 DEF StoreFits, Saved, Only
  <2> QED  BY <1>1, <1>8, <2>1, <2>2, <2>3 DEF IInv, Fits
<1> QED  BY <1>1, <1>7, <1>8 DEF IInv

\* The owner's save brings the store up to the session; whoever still holds the
\* replaced pair stands inside the window.
LEMMA SaveWritesKeeps ==
  ASSUME IInv, NEW p \in Procs, SaveWrites(p)
  PROVE  IInv'
<1> DEFINE c == Concluded(p, "renewed")
<1>1. /\ At(p, "writing") /\ Becomes(p, c) /\ doc' = proc[p].next
      /\ inflight' = inflight /\ window' = window /\ refused' = refused
      /\ live' = live /\ issued' = issued /\ alone' = alone
  BY DEF SaveWrites, Saves, Concludes, upstream, plane
<1>2. Scalars' /\ proc[p].next \in Docs
  BY <1>1 DEF IInv, Excl, Types, Scalars, Proc
<1>3. /\ c \in Proc
      /\ InPlane(p) => c.at = "renewed" /\ c.role = proc[p].role
      /\ ~InPlane(p) => c = AtRest
  BY ConcludedFits DEF IInv, Excl, Owning
<1>4. Roled(c) /\ (Owns(c) <=> Owns(proc[p])) /\ c.at # "joined"
  BY <1>1, <1>3 DEF Roled, Owns, InPlane, PlaneOnly, Owning, Outcomes, AtRest, At
<1>5. Excl' /\ Only(p, c)
  BY <1>1, <1>2, <1>3, <1>4, SameOwner DEF IInv
<1>6. ASSUME alone PROVE Fits'
  <2>1. InPlane(p) /\ window /\ \A q \in Procs : q # p => proc[q].at \notin Owning
    BY <1>1, <1>6, OwnerOnly DEF At, Owning
  <2>2. (live = 0 \/ doc'.pair.refresh = live) /\ (doc'.disabled = "dead" => live = 0)
    BY <1>1, <1>6 DEF IInv, Fits, ProcFits, At
  <2>3. \A q \in Procs : ProcFits(q)'
    <3>1. ProcFits(p)'
      BY <1>3, <1>5, <2>1, FreeFits DEF Only
    <3>2. ASSUME NEW q \in Procs, q # p PROVE ProcFits(q)'
      BY <1>1, <1>5, <1>6, <2>1, <3>2 DEF IInv, Fits, ProcFits, Only, At, Owning
    <3> QED  BY <3>1, <3>2
  <2>4. \A q \in Procs : ~At(q, "idle")' => InPlane(q)'
    BY <1>3, <1>5, <1>6, <2>1 DEF IInv, Fits, Only, At, InPlane
  <2>5. StoreFits'
    BY <1>1, <2>2 DEF StoreFits
  <2> QED  BY <1>1, <1>6, <2>2, <2>3, <2>4, <2>5 DEF IInv, Fits
<1> QED  BY <1>1, <1>5, <1>6 DEF IInv

\* The host's own save, and a save that fails: not the plane alone.
LEMMA OtherSavesKeep ==
  ASSUME IInv, NEW p \in Procs, HostSaves(p) \/ SaveFails(p)
  PROVE  IInv'
<1>1. PICK place \in {"renewed", "failing"} : Concludes(p, place)
  BY DEF HostSaves, SaveFails
<1> DEFINE c == Concluded(p, place)
<1>2. /\ proc[p].at \in {"saving", "writing"} /\ inflight' = inflight
      /\ window' = window /\ refused' = refused /\ live' = live /\ issued' = issued
  BY DEF HostSaves, SaveFails, At, upstream, plane
<1>3. ~alone'
  <2>1. CASE SaveFails(p)
    BY <2>1 DEF SaveFails
  <2>2. CASE HostSaves(p)
    <3>1. ~InPlane(p) /\ ~At(p, "idle") /\ alone' = alone
      BY <2>2 DEF HostSaves, InPlane, At
    <3> QED  BY <3>1 DEF IInv, Fits
  <2> QED  BY <2>1, <2>2
<1>4. doc' \in Docs
  <2>1. CASE SaveFails(p)
    BY <2>1 DEF SaveFails, IInv, Excl, Types, Scalars
  <2>2. CASE HostSaves(p)
    <3>1. proc[p].held \in Pairs /\ doc.disabled \in Flags /\ "no" \in Flags
      BY DEF IInv, Excl, Types, Scalars, Proc, Docs, Flags
    <3> QED  BY <2>2, <3>1 DEF HostSaves, Docs
  <2> QED  BY <2>1, <2>2
<1>5. Scalars'
  <2>1. alone' \in BOOLEAN
    BY DEF HostSaves, SaveFails, IInv, Excl, Types, Scalars
  <2> QED  BY <1>2, <1>4, <2>1 DEF IInv, Excl, Types, Scalars
<1>6. /\ c \in Proc
      /\ InPlane(p) => c.at = place /\ c.role = proc[p].role
      /\ ~InPlane(p) => c = AtRest
  BY ConcludedFits DEF IInv, Excl, Owning
<1>7. Roled(c) /\ (Owns(c) <=> Owns(proc[p])) /\ c.at # "joined"
  BY <1>2, <1>6 DEF Roled, Owns, InPlane, PlaneOnly, Owning, Outcomes, AtRest
<1>8. Excl'
  BY <1>1, <1>2, <1>5, <1>6, <1>7, SameOwner DEF IInv, Concludes
<1> QED  BY <1>3, <1>8 DEF IInv

\* A release wakes every joiner and leaves nobody waiting.
LEMMA ReleaseKeeps ==
  ASSUME IInv, NEW p \in Procs, Release(p)
  PROVE  IInv'
<1> DEFINE e == Ended(p, Outcome(p))
<1>1. /\ proc[p].at \in {"renewed", "refusing", "failing"}
      /\ inflight' = NoProc /\ proc' = Woke(p, Outcome(p))
      /\ live' = live /\ doc' = doc /\ window' = window /\ alone' = alone
      /\ issued' = issued
  BY DEF Release, upstream
<1>2. Outcome(p) \in Outcomes /\ (Outcome(p) = "condemned" => At(p, "refusing"))
  BY DEF Outcome, Outcomes, At
<1>3. e \in Proc /\ e.at = Outcome(p) /\ e.role \in {"call", "fetch"}
  BY <1>2, EndedFits DEF IInv, Excl
<1>4. /\ proc' \in [Procs -> Proc] /\ proc'[p] = e
      /\ \A q \in Procs : q # p /\ At(q, "joined") =>
           proc'[q].at = "woken" /\ proc'[q].role = proc[q].role
      /\ \A q \in Procs : q # p /\ ~At(q, "joined") => proc'[q] = proc[q]
  <2>1. \A q \in Procs : LET m == Moved(q, "woken", NoPair, NoDoc) IN
          m \in Proc /\ m.at = "woken" /\ m.role = proc[q].role
    <3>1. "woken" \in Places
      BY DEF Places, Healing
    <3> QED  BY <3>1, MovedFits, EmptyFits DEF IInv, Excl
  <2> QED  BY <1>1, <1>3, <2>1 DEF Woke, IInv, Excl, Types
<1>5. refused' \in BOOLEAN /\ (refused' => refused \/ At(p, "refusing"))
  BY <1>1 DEF Release, At, IInv, Excl, Types, Scalars
<1>6. Scalars'
  BY <1>1, <1>5 DEF IInv, Excl, Types, Scalars
<1>7. \A q \in Procs : proc'[q].at # "joined"
  BY <1>2, <1>3, <1>4 DEF At, Outcomes
<1>8. Owns(proc[p]) /\ inflight = p
  BY <1>1 DEF IInv, Excl, Owns, Owning, Roled, PlaneOnly
<1>9. Excl'
  <2>1. \A q \in Procs : Roled(proc[q])'
    BY <1>3, <1>4 DEF IInv, Excl, Roled, PlaneOnly, At
  <2>2. \A q \in Procs : ~Owns(proc[q])'
    <3>1. ~Owns(proc'[p])
      BY <1>2, <1>3, <1>4 DEF Owns, Owning, Outcomes
    <3>2. ASSUME NEW q \in Procs, q # p PROVE ~Owns(proc'[q])
      <4>1. CASE At(q, "joined")
        BY <1>4, <3>2, <4>1 DEF Owns, Owning
      <4>2. CASE ~At(q, "joined")
        BY <1>4, <1>8, <3>2, <4>2 DEF IInv, Excl
      <4> QED  BY <4>1, <4>2
    <3> QED  BY <3>1, <3>2
  <2> QED  BY <1>1, <1>4, <1>6, <1>7, <2>1, <2>2, WorkbuddySessionAssumption DEF Excl, Types, At
<1>10. ASSUME alone PROVE Fits'
  <2>1. \A q \in Procs : ProcFits(q)'
    <3>1. ProcFits(p)'
      <4>1. Outcome(p) = "condemned" => live = 0
        BY <1>2, <1>10 DEF IInv, Fits, ProcFits, At
      <4> QED  BY <1>1, <1>2, <1>3, <1>4, <4>1 DEF ProcFits, At, Outcomes
    <3>2. ASSUME NEW q \in Procs, q # p PROVE ProcFits(q)'
      <4>1. CASE At(q, "joined")
        BY <1>4, <3>2, <4>1, FreeFits
      <4>2. CASE ~At(q, "joined")
        BY <1>1, <1>4, <1>10, <3>2, <4>2 DEF IInv, Fits, ProcFits, At
      <4> QED  BY <4>1, <4>2
    <3> QED  BY <3>1, <3>2
  <2>2. \A q \in Procs : ~At(q, "idle")' => InPlane(q)'
    <3>1. InPlane(p)'
      BY <1>3, <1>4 DEF InPlane
    <3>2. ASSUME NEW q \in Procs, q # p, ~At(q, "idle")' PROVE InPlane(q)'
      <4>1. CASE At(q, "joined")
        BY <1>4, <1>10, <3>2, <4>1 DEF IInv, Fits, At, InPlane
      <4>2. CASE ~At(q, "joined")
        BY <1>4, <1>10, <3>2, <4>2 DEF IInv, Fits, At, InPlane
      <4> QED  BY <4>1, <4>2
    <3> QED  BY <3>1, <3>2
  <2>3. StoreFits'
    <3>1. Saved
      BY <1>1, <1>10, OwnerOnly DEF Saved, Owning
    <3> QED  BY <1>1, <1>10, <3>1 DEF IInv, Fits, StoreFits
  <2>4. (refused \/ doc.disabled = "dead" => live = 0)'
    BY <1>1, <1>5, <1>10 DEF IInv, Fits, ProcFits, At
  <2> QED  BY <1>1, <2>1, <2>2, <2>3, <2>4 DEF Fits
<1> QED  BY <1>1, <1>9, <1>10 DEF IInv

\* A lifecycle writer that stays alone saves the pair the store has.
LEMMA RewritesKeeps ==
  ASSUME IInv, NEW p \in Procs, NEW next \in Docs, Rewrites(p, next),
         proc[p].at \in {"deciding", "noting"},
         alone /\ next.disabled = "dead" => live = 0
  PROVE  IInv'
<1>1. /\ Becomes(p, AtRest) /\ doc' = next /\ alone' = (alone /\ next.pair = doc.pair)
      /\ inflight' = inflight /\ window' = window /\ refused' = refused
      /\ live' = live /\ issued' = issued
  BY DEF Rewrites, upstream, plane
<1>2. alone' \in BOOLEAN
  BY <1>1 DEF IInv, Excl, Types, Scalars
<1>3. Scalars'
  BY <1>1, <1>2 DEF IInv, Excl, Types, Scalars
<1>4. AtRest.at = "idle" /\ Roled(AtRest) /\ ~Owns(AtRest) /\ ~Owns(proc[p])
  BY DEF AtRest, Roled, Owns, Owning, PlaneOnly, Outcomes
<1>5. Excl' /\ Only(p, AtRest)
  BY <1>1, <1>3, <1>4, EmptyFits, SameOwner DEF IInv
<1>6. ASSUME alone' PROVE Fits'
  <2>1. alone /\ next.pair = doc.pair
    BY <1>1, <1>6
  <2>2. ProcFits(p)'
    BY <1>4, <1>5, FreeFits DEF Only
  <2> QED  BY <1>1, <1>4, <1>5, <2>1, <2>2, EmptyFits, QuietFits DEF IInv, Fits
<1> QED  BY <1>5, <1>6 DEF IInv

LEMMA LifecycleKeeps ==
  ASSUME IInv, NEW p \in Procs,
         Reenables(p) \/ Disables(p) \/ NoteReads(p) \/ NoteWrites(p) \/ NoteUnchanged(p)
  PROVE  IInv'
<1>1. /\ proc[p].snap \in Pairs /\ proc[p].next \in Docs /\ doc.disabled \in Flags
      /\ "no" \in Flags /\ "credits" \in Flags
  BY DEF IInv, Excl, Types, Scalars, Proc, Docs, Flags
<1>2. \A d \in Flags : Built(p, d) \in Docs /\ Built(p, d).disabled = d
  BY <1>1 DEF Built, Docs
<1>3. CASE Reenables(p)
  BY <1>1, <1>2, <1>3, RewritesKeeps DEF Reenables, At
<1>4. CASE Disables(p)
  BY <1>1, <1>2, <1>4, RewritesKeeps DEF Disables, At
<1>5. CASE NoteReads(p)
  <2>0. PICK flag \in {doc.disabled # "no", proc[p].was} :
               Builds(p, "noting", Built(p, Noted(flag)))
    BY <1>5 DEF NoteReads
  <2>1a. Noted(flag) \in Flags /\ Noted(flag) # "dead"
    BY <1>1 DEF Noted
  <2> DEFINE m == Moved(p, "noting", NoPair, Built(p, Noted(flag)))
  <2>1. "noting" \in Places /\ "noting" \notin Owning /\ "deciding" \notin Owning
    BY DEF Places, Healing, Owning, Outcomes
  <2>2. /\ At(p, "deciding") /\ Becomes(p, m)
        /\ Scalars' /\ inflight' = inflight /\ window' = window /\ refused' = refused
        /\ live' = live /\ doc' = doc /\ alone' = alone
    BY <1>5, <2>0 DEF NoteReads, Builds, IInv, Excl, Types, Scalars, upstream, plane
  <2>3. m.at = "noting" /\ m.next.disabled = Noted(flag)
    BY <1>1, <1>2, <2>1a, <2>1, MovedFits, EmptyFits DEF IInv, Excl
  <2>4. alone /\ Only(p, m) => ProcFits(p)'
    BY <2>2, <2>3, <2>1a DEF Only, ProcFits, At, IInv, Fits
  <2>5. InPlane(p)
    BY <2>2 DEF IInv, Excl, Roled, PlaneOnly, At, InPlane
  <2> QED  BY <1>1, <1>2, <2>1a, <2>1, <2>2, <2>4, <2>5, EmptyFits, MovedKeeps DEF At
<1>6. CASE NoteWrites(p)
  <2>1. alone /\ proc[p].next.disabled = "dead" => live = 0
    BY <1>6 DEF NoteWrites, IInv, Fits, ProcFits, At
  <2> QED  BY <1>1, <1>6, <2>1, RewritesKeeps DEF NoteWrites, At
<1>7. CASE NoteUnchanged(p)
  <2>1. /\ Becomes(p, AtRest) /\ proc[p].at \in {"deciding", "noting"}
        /\ Scalars' /\ inflight' = inflight /\ window' = window /\ refused' = refused
        /\ live' = live /\ doc' = doc /\ alone' = alone
    BY <1>7 DEF NoteUnchanged, IInv, Excl, Types, Scalars, upstream, plane
  <2>2. AtRest.at = "idle" /\ Roled(AtRest) /\ ~Owns(AtRest) /\ ~Owns(proc[p])
    BY <2>1 DEF AtRest, Roled, Owns, Owning, PlaneOnly, Outcomes
  <2>3. Excl' /\ Only(p, AtRest)
    BY <2>1, <2>2, EmptyFits, SameOwner DEF IInv
  <2>4. ASSUME alone PROVE Fits'
    <3>1. ProcFits(p)'
      BY <2>2, <2>3, FreeFits DEF Only
    <3> QED  BY <2>1, <2>2, <2>3, <2>4, <3>1, EmptyFits, QuietFits DEF IInv, Fits
  <2> QED  BY <2>1, <2>3, <2>4 DEF IInv
<1> QED  BY <1>3, <1>4, <1>5, <1>6, <1>7

\* What the environment does: a window ends, the session dies, the user signs
\* in again.
LEMMA EnvironmentKeeps ==
  ASSUME IInv, WindowEnds \/ SessionDies \/ Login
  PROVE  IInv'
<1>1. proc' = proc /\ inflight' = inflight /\ refused' = refused
  BY DEF WindowEnds, SessionDies, Login, plane
<1>2. Scalars'
  <2>1. alone' \in BOOLEAN
    BY DEF WindowEnds, SessionDies, Login, IInv, Excl, Types, Scalars
  <2>2. live' \in Nat /\ issued' \in Nat
    BY DEF WindowEnds, SessionDies, Login, IInv, Excl, Types, Scalars, upstream
  <2>3. doc' \in Docs
    BY DEF WindowEnds, SessionDies, Login, IInv, Excl, Types, Scalars, Docs, Pairs, Flags
  <2>4. window' \in BOOLEAN
    BY DEF WindowEnds, SessionDies, Login, IInv, Excl, Types, Scalars, plane
  <2> QED  BY <1>1, <2>1, <2>2, <2>3, <2>4 DEF IInv, Excl, Types, Scalars
<1>3. Excl'
  BY <1>1, <1>2 DEF IInv, Excl, Types, At
<1>4. ASSUME alone', WindowEnds PROVE Fits'
  <2>1. alone /\ Settled /\ live' = live /\ doc' = doc
    BY <1>4 DEF WindowEnds, upstream
  <2>2. inflight = NoProc
    <3>1. \A q \in Procs : inflight # q
      BY <2>1 DEF Settled, IInv, Excl, Owns
    <3> QED  BY <3>1 DEF IInv, Excl, Types, Scalars
  <2>3. \A q \in Procs : ProcFits(q)'
    BY <1>1, <2>1 DEF IInv, Fits, ProcFits, At, Settled
  <2> QED  BY <1>1, <2>1, <2>2, <2>3 DEF IInv, Fits, StoreFits, Saved, At, InPlane
<1>5. ASSUME alone', SessionDies PROVE Fits'
  <2>1. alone /\ live' = 0 /\ doc' = doc /\ window' = window
    BY <1>5 DEF SessionDies, plane
  <2>2. \A q \in Procs : ProcFits(q)'
    BY <1>1, <2>1 DEF IInv, Fits, ProcFits, At
  <2> QED  BY <1>1, <2>1, <2>2 DEF IInv, Fits, StoreFits, At, InPlane
<1>6. ASSUME alone', Login PROVE Fits'
  <2>1. ~refused /\ \A q \in Procs : At(q, "idle")
    BY <1>6 DEF Login
  <2>2. doc'.pair.refresh = live' /\ doc'.disabled # "dead"
    BY <1>6 DEF Login
  <2>3. inflight = NoProc
    <3>1. \A q \in Procs : inflight # q
      BY <2>1 DEF IInv, Excl, Owns, Owning, At
    <3> QED  BY <3>1 DEF IInv, Excl, Types, Scalars
  <2>4. \A q \in Procs : ProcFits(q)'
    BY <1>1, <2>1, FreeFits DEF At
  <2> QED  BY <1>1, <2>1, <2>2, <2>3, <2>4 DEF Fits, StoreFits, At
<1> QED  BY <1>3, <1>4, <1>5, <1>6 DEF IInv

-----------------------------------------------------------------------------
LEMMA InitIInv == Init => IInv
<1> SUFFICES ASSUME Init PROVE IInv
  OBVIOUS
<1>1. \A p \in Procs : proc[p] = AtRest
  BY DEF Init
<1>2. AtRest.at = "idle" /\ Roled(AtRest) /\ ~Owns(AtRest)
  BY DEF AtRest, Roled, Owns, Owning, PlaneOnly, Outcomes
<1>3. Types
  <2>1. proc \in [Procs -> Proc]
    BY EmptyFits DEF Init
  <2>2. doc \in Docs
    BY DEF Init, Docs, Pairs, Flags
  <2> QED  BY <2>1, <2>2 DEF Init, Types, Scalars
<1>4. Excl
  BY <1>1, <1>2, <1>3, WorkbuddySessionAssumption DEF Init, Excl, At
<1>5. Fits
  BY <1>1, <1>2 DEF Init, Fits, StoreFits, ProcFits, At
<1> QED  BY <1>4, <1>5 DEF IInv

LEMMA NextIInv == ASSUME IInv, [Next]_vars PROVE IInv'
<1>1. ASSUME NEW p \in Procs, Step(p) PROVE IInv'
  BY <1>1, HealKeeps, AcquireKeeps, RenewKeeps, RefuseKeeps, RefreshFailsKeeps, SaveReadsKeeps,
     SaveWritesKeeps, OtherSavesKeep, FlagReadsKeeps, FlagEndsKeeps, ReleaseKeeps, LifecycleKeeps
  DEF Step
<1>2. ASSUME NEW p \in Procs, NEW role \in Roles, Begin(p, role) PROVE IInv'
  BY <1>2, BeginKeeps
<1>3. CASE WindowEnds \/ SessionDies \/ Login
  BY <1>3, EnvironmentKeeps
<1>4. CASE UNCHANGED vars
  BY <1>4 DEF vars, upstream, plane, IInv, Excl, Types, Scalars, Fits, StoreFits, Saved, ProcFits,
              At, InPlane
<1> QED  BY <1>1, <1>2, <1>3, <1>4 DEF Next

LEMMA SpecIInv == Spec => []IInv
  BY InitIInv, NextIInv, PTL DEF Spec

\* For any goroutines, renewals of one credential exclude one another and
\* nobody waits for a renewal that no longer runs (billing401Acquire,
\* billing401Release).
THEOREM RenewalsExclusive == Spec => []OneRenewal
<1>1. IInv => OneRenewal
  BY DEF IInv, Excl, OneRenewal, Owns, InPlane
<1> QED  BY <1>1, SpecIInv, PTL

\* For any goroutines, the store keeps up with a session only the plane
\* touches (billing401RenewOnce, persistAuthTokens).
THEOREM PairsKept == Spec => []PairKept
<1>1. IInv => PairKept
  BY DEF IInv, Fits, StoreFits, Saved, ProcFits, PairKept, At
<1> QED  BY <1>1, SpecIInv, PTL

\* For any goroutines, a flag and a verdict mean that the session is gone, as
\* long as only the plane touches it (markSessionDead, billing401RefusalOf).
THEOREM VerdictsTrue == Spec => []DeadOnlyIfGone
<1>1. IInv => DeadOnlyIfGone
  BY DEF IInv, Fits, ProcFits, DeadOnlyIfGone, At
<1> QED  BY <1>1, SpecIInv, PTL
===============================================================================
