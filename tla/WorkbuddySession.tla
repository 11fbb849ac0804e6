--------------------------- MODULE WorkbuddySession ---------------------------
(***************************************************************************)
(* The sign-in session of one workbuddy credential: the token pair stored  *)
(* in the host's auth document, and everyone who renews, flags or rewrites *)
(* it.  A call that is bounced with 401 renews the pair once               *)
(* (plugins/workbuddy/billing_401_renew.go, chat_401_heal.go); those that  *)
(* come while a renewal runs join it, those that come within the window    *)
(* after its start are throttled.  The keepalive (keepalive.go) and the    *)
(* host's own refresh (oauth.go) renew without that plane, and the         *)
(* lifecycle (lifecycle.go) rewrites the document after its credits fetch. *)
(*                                                                         *)
(* A pair is two generations; the upstream accepts one refresh generation, *)
(* live, and 0 once the session is gone.  Documents are read and saved     *)
(* through the host, so a read-modify-write is two steps.                  *)
(***************************************************************************)
EXTENDS Naturals

CONSTANTS Procs,     \* goroutines that may hold this credential at once
          RolesOf,   \* RolesOf[p]: what goroutine p may be running
          NoProc,
          MaxPairs   \* bound of the pairs ever issued, for TLC only

\* A chat or billing call, a call of the lifecycle's credits fetch, the
\* keepalive, the host's refresh.
Roles == {"call", "fetch", "keepalive", "host"}

ASSUME WorkbuddySessionAssumption ==
  NoProc \notin Procs /\ RolesOf \in [Procs -> SUBSET Roles] /\ MaxPairs \in Nat \ {0}

VARIABLES live,      \* upstream: the refresh generation it accepts
          issued,    \* upstream: pairs issued so far
          doc,       \* the auth document in the host's store
          inflight,  \* billing401InFlight: who owns the running renewal
          window,    \* billing401LastRenew lies inside billing401RenewWindow
          refused,   \* billing401Refused is set
          proc,      \* proc[p]: where p is and what it holds
          alone      \* history: since the last login, nothing but the plane
                     \* touched the pair, nothing was lost, and every renewal
                     \* ended inside its window

upstream == <<live, issued>>
plane == <<inflight, window, refused>>
vars == <<upstream, doc, plane, proc, alone>>

Owning == {"renewing", "saving", "writing", "flagging", "marking",
           "renewed", "refusing", "failing"}  \* from acquire to release
Healing == {"asking", "joined", "woken"} \cup Owning

\* How a heal ends: resent with a new token, told that the session is dead,
\* left with the raw 401.
Outcomes == {"resent", "condemned", "unhealed"}
Places == {"idle", "sent", "deciding", "noting"} \cup Healing \cup Outcomes

Pairs == [access : Nat, refresh : Nat]
Flags == {"no", "dead", "credits"}
Docs == [pair : Pairs, disabled : Flags]  \* enabled, or disabled with a note of the
                                          \* dead session or of the credits

NoPair == [access |-> 0, refresh |-> 0]
NoDoc == [pair |-> NoPair, disabled |-> "no"]

\* The snapshot p started from and its flag, the pair it renews or has
\* renewed, the document it is about to save.
Proc == [role : Roles, at : Places, snap : Pairs, was : BOOLEAN, held : Pairs, next : Docs]

AtRest == [role |-> "call", at |-> "idle", snap |-> NoPair, was |-> FALSE,
           held |-> NoPair, next |-> NoDoc]

At(p, place) == proc[p].at = place
InPlane(p) == proc[p].role \in {"call", "fetch"}

\* p at another place, with what it has in hand there.
Moved(p, place, pair, next) ==
  [proc[p] EXCEPT !.at = place, !.held = pair, !.next = next]

Becomes(p, new) == proc' = [proc EXCEPT ![p] = new]
Goes(p, place) == Becomes(p, Moved(p, place, NoPair, NoDoc))
Holds(p, place, pair) == Becomes(p, Moved(p, place, pair, NoDoc))
Builds(p, place, next) == Becomes(p, Moved(p, place, NoPair, next))

\* Where p's heal ends, only the credits fetch still needs its snapshot.
Ended(p, outcome) ==
  IF proc[p].role = "fetch" THEN Moved(p, outcome, NoPair, NoDoc)
                            ELSE [AtRest EXCEPT !.at = outcome]
Ends(p, outcome) == Becomes(p, Ended(p, outcome))

\* Where p's refresh ends.  Beside the plane there is nothing to release.
Concluded(p, place) == IF InPlane(p) THEN Moved(p, place, NoPair, NoDoc) ELSE AtRest
Concludes(p, place) == Becomes(p, Concluded(p, place))

Saves(p, place) == doc' = proc[p].next /\ Concludes(p, place)

\* Nobody stands where an overtaken window could still hurt.
Settled == \A p \in Procs : proc[p].at \notin {"asking"} \cup Owning

\* The token is the one p was bounced with, or one saved since.
Unchanged(p) == doc.pair.access = proc[p].snap.access

\* With nothing new in the store: the recorded verdict, or the raw 401.
Verdict == IF refused THEN "condemned" ELSE "unhealed"

\* What the caller folds of the answer: a kept refresh token stays.
FoldedAccess(held, access, refresh) == [held EXCEPT !.access = access]
Folded(held, access, refresh) == [access |-> access, refresh |-> refresh]

-----------------------------------------------------------------------------
Init ==
  /\ live = 1 /\ issued = 1
  /\ doc = [pair |-> [access |-> 1, refresh |-> 1], disabled |-> "no"]
  /\ inflight = NoProc /\ window = FALSE /\ refused = FALSE
  /\ proc = [p \in Procs |-> AtRest]
  /\ alone = TRUE

\* Everyone starts from a snapshot of the document.  The keepalive and the
\* host go straight to the refresh.
Begin(p, role) ==
  /\ At(p, "idle") /\ role \in RolesOf[p]
  /\ Becomes(p,
       [role |-> role, at |-> IF role \in {"call", "fetch"} THEN "sent" ELSE "renewing",
        snap |-> IF role \in {"call", "fetch"} THEN doc.pair ELSE NoPair,
        was |-> role = "fetch" /\ doc.disabled # "no",
        held |-> IF role \in {"call", "fetch"} THEN NoPair ELSE doc.pair,
        next |-> NoDoc])
  /\ alone' = (alone /\ role \in {"call", "fetch"})
  /\ UNCHANGED <<upstream, doc, plane>>

\* The call is over; the credits fetch goes on with what it got, or with the
\* cached credits of an earlier fetch.
MovesOn(p) ==
  \/ Becomes(p, AtRest)
  \/ proc[p].role = "fetch" /\ Goes(p, "deciding")

Answered(p) ==
  /\ At(p, "sent")
  /\ MovesOn(p)
  /\ UNCHANGED <<upstream, doc, plane, alone>>

\* A bounced call takes a token saved since its snapshot first.
Bounced(p) ==
  /\ At(p, "sent")
  /\ \/ ~Unchanged(p) /\ Ends(p, "resent")
     \/ Unchanged(p) /\ Holds(p, "asking", doc.pair)
     \/ Ends(p, "unhealed")  \* the host could not be read
  /\ UNCHANGED <<upstream, doc, plane, alone>>

Join(p) ==
  /\ At(p, "asking") /\ inflight # NoProc
  /\ Goes(p, "joined")
  /\ UNCHANGED <<upstream, doc, plane, alone>>

Throttled(p) ==
  /\ At(p, "asking") /\ inflight = NoProc /\ window
  /\ Ends(p, Verdict)
  /\ UNCHANGED <<upstream, doc, plane, alone>>

AcquireUnthrottled(p) ==
  /\ At(p, "asking") /\ inflight = NoProc
  /\ inflight' = p /\ window' = TRUE
  /\ Holds(p, "renewing", proc[p].held)
  /\ UNCHANGED <<upstream, doc, refused, alone>>

Acquire(p) ==
  /\ At(p, "asking") /\ inflight = NoProc /\ ~window
  /\ inflight' = p /\ window' = TRUE
  /\ Holds(p, "renewing", proc[p].held)
  /\ UNCHANGED <<upstream, doc, refused, alone>>

\* A joiner takes what the renewal left in the store; one that cannot read
\* the store has nothing new either.
Woken(p) ==
  /\ At(p, "woken")
  /\ \/ ~Unchanged(p) /\ Ends(p, "resent")
     \/ Ends(p, Verdict)
  /\ UNCHANGED <<upstream, doc, plane, alone>>

\* The upstream takes the refresh token it accepts, and may rotate it.
Renew(p) ==
  /\ At(p, "renewing") /\ live # 0
  /\ proc[p].held.refresh = live /\ issued < MaxPairs
  /\ issued' = issued + 1
  /\ live' \in {live, issued + 1}
  /\ \/ Holds(p, "saving", Folded(proc[p].held, issued + 1, live')) /\ UNCHANGED alone
     \/ Concludes(p, "failing") /\ alone' = FALSE  \* the answer is lost
  /\ UNCHANGED <<doc, plane>>

\* 401 with 12153: the refresh token is spent, or the session is gone.  Only
\* the host's own refresh leaves it at that.
Refuse(p) ==
  /\ At(p, "renewing") /\ proc[p].held.refresh # live
  /\ IF proc[p].role = "host" THEN Concludes(p, "failing") ELSE Goes(p, "flagging")
  /\ UNCHANGED <<upstream, doc, plane, alone>>

\* Any other answer, and a request that never arrived.
RefreshFails(p) ==
  /\ At(p, "renewing")
  /\ Concludes(p, "failing")
  /\ UNCHANGED <<upstream, doc, plane, alone>>

\* persistAuthTokens merges the pair into the document it reads; the host
\* saves what the plugin returned to it, enabled or as it was.
SaveReads(p) ==
  /\ At(p, "saving") /\ proc[p].role # "host"
  /\ Builds(p, "writing", [doc EXCEPT !.pair = proc[p].held])
  /\ UNCHANGED <<upstream, doc, plane, alone>>

SaveWrites(p) == At(p, "writing") /\ Saves(p, "renewed") /\ UNCHANGED <<upstream, plane, alone>>

HostSaves(p) ==
  /\ At(p, "saving") /\ proc[p].role = "host"
  /\ doc' \in {[pair |-> proc[p].held, disabled |-> d] : d \in {"no", doc.disabled}}
  /\ Concludes(p, "renewed")
  /\ UNCHANGED <<upstream, plane, alone>>

SaveFails(p) ==
  /\ proc[p].at \in {"saving", "writing"}
  /\ Concludes(p, "failing")
  /\ alone' = FALSE
  /\ UNCHANGED <<upstream, doc, plane>>

\* markSessionDead leaves a disabled document as it is.
FlagReads(p) ==
  /\ At(p, "flagging")
  /\ IF doc.disabled # "no" THEN Concludes(p, "refusing")
     ELSE Builds(p, "marking", [doc EXCEPT !.disabled = "dead"])
  /\ UNCHANGED <<upstream, doc, plane, alone>>

FlagWrites(p) == At(p, "marking") /\ Saves(p, "refusing") /\ UNCHANGED <<upstream, plane, alone>>

FlagFails(p) ==
  /\ proc[p].at \in {"flagging", "marking"}
  /\ Concludes(p, "refusing")
  /\ UNCHANGED <<upstream, doc, plane, alone>>

\* The end of an owned renewal: the memo is set, cleared or left alone, the
\* entry is dropped and its channel closed, which wakes every joiner.
Outcome(p) == CASE At(p, "renewed") -> "resent" [] At(p, "refusing") -> "condemned"
                [] OTHER -> "unhealed"

WokeNobody(p, outcome) == [proc EXCEPT ![p] = Ended(p, outcome)]
Woke(p, outcome) ==
  [q \in Procs |-> IF q = p THEN Ended(p, outcome)
                   ELSE IF At(q, "joined") THEN Moved(q, "woken", NoPair, NoDoc) ELSE proc[q]]

Release(p) ==
  /\ proc[p].at \in {"renewed", "refusing", "failing"}
  /\ refused' = CASE At(p, "renewed") -> FALSE [] At(p, "refusing") -> TRUE
                  [] OTHER -> refused
  /\ inflight' = NoProc
  /\ proc' = Woke(p, Outcome(p))
  /\ UNCHANGED <<upstream, doc, window, alone>>

\* It resends once, or fails.
CallEnds(p) ==
  /\ proc[p].at \in Outcomes
  /\ MovesOn(p)
  /\ UNCHANGED <<upstream, doc, plane, alone>>

-----------------------------------------------------------------------------
\* The lifecycle's writers hold the credential's check-in lock, and build the
\* document from the snapshot the reconcile started with.
LockFree == \A q \in Procs : ~At(q, "noting")

Built(p, disabled) == [pair |-> proc[p].snap, disabled |-> disabled]

Rewrites(p, next) ==
  /\ doc' = next
  /\ alone' = (alone /\ next.pair = doc.pair)
  /\ Becomes(p, AtRest)
  /\ UNCHANGED <<upstream, plane>>

\* reconcileOneAccount decides on the snapshot's flag and the credits.
Reenables(p) ==
  At(p, "deciding") /\ LockFree /\ proc[p].was /\ Rewrites(p, Built(p, "no"))

Disables(p) ==
  At(p, "deciding") /\ LockFree /\ ~proc[p].was /\ Rewrites(p, Built(p, "credits"))

\* syncAuthNote re-reads the flag under the lock, or keeps the snapshot's if
\* the document cannot be read.  Its note is of the credits; an unchanged one
\* is not written.
Noted(disabled) == IF disabled THEN "credits" ELSE "no"

NoteReads(p) ==
  /\ At(p, "deciding") /\ LockFree
  /\ \E disabled \in {doc.disabled # "no", proc[p].was} : Builds(p, "noting", Built(p, Noted(disabled)))
  /\ UNCHANGED <<upstream, doc, plane, alone>>

NoteWrites(p) == At(p, "noting") /\ Rewrites(p, proc[p].next)

NoteUnchanged(p) ==
  /\ proc[p].at \in {"deciding", "noting"}
  /\ Becomes(p, AtRest)
  /\ UNCHANGED <<upstream, doc, plane, alone>>

-----------------------------------------------------------------------------
\* A renewal that outlives its window lets the next one start from a token
\* read before its end.
WindowEnds ==
  /\ window
  /\ window' = FALSE
  /\ alone' = (alone /\ Settled)
  /\ UNCHANGED <<upstream, doc, inflight, refused, proc>>

SessionDies ==
  /\ live # 0
  /\ live' = 0
  /\ UNCHANGED <<issued, doc, plane, proc, alone>>

\* A login saves a new document.  It clears neither the memo nor what is
\* under way.
Login ==
  /\ issued < MaxPairs
  /\ issued' = issued + 1 /\ live' = issued + 1
  /\ doc' = [pair |-> [access |-> issued + 1, refresh |-> issued + 1], disabled |-> "no"]
  /\ alone' = (~refused /\ \A p \in Procs : At(p, "idle"))
  /\ UNCHANGED <<plane, proc>>

Step(p) ==
  \/ Answered(p) \/ Bounced(p)
  \/ Join(p) \/ Throttled(p) \/ Acquire(p) \/ Woken(p)
  \/ Renew(p) \/ Refuse(p) \/ RefreshFails(p)
  \/ SaveReads(p) \/ SaveWrites(p) \/ HostSaves(p) \/ SaveFails(p)
  \/ FlagReads(p) \/ FlagWrites(p) \/ FlagFails(p)
  \/ Release(p) \/ CallEnds(p)
  \/ Reenables(p) \/ Disables(p) \/ NoteReads(p) \/ NoteWrites(p) \/ NoteUnchanged(p)

Next ==
  \/ \E p \in Procs : Step(p) \/ \E role \in Roles : Begin(p, role)
  \/ WindowEnds \/ SessionDies \/ Login

Spec == Init /\ [][Next]_vars

-----------------------------------------------------------------------------
\* Every variable has its type.
TypeOK ==
  /\ live \in Nat /\ issued \in Nat /\ live <= issued
  /\ doc \in Docs /\ doc.pair.access \in 1..issued /\ doc.pair.refresh \in 1..issued
  /\ inflight \in Procs \cup {NoProc} /\ window \in BOOLEAN /\ refused \in BOOLEAN
  /\ proc \in [Procs -> Proc] /\ alone \in BOOLEAN

\* billing_401_renew.go promises one renewal per credential at a time: whoever
\* of the plane is between acquire and release is the one recorded, and
\* nobody waits for a renewal that no longer runs.
OneRenewal ==
  /\ \A p \in Procs : (InPlane(p) /\ proc[p].at \in Owning) <=> inflight = p
  /\ (\E p \in Procs : At(p, "joined")) => inflight # NoProc

\* While only the plane touches the credential, the store never falls behind
\* the session: unless the owner has the new pair in hand, a live session
\* accepts the stored refresh token.
PairKept ==
  alone /\ live # 0 =>
    \/ doc.pair.refresh = live
    \/ \E p \in Procs : At(p, "saving") /\ proc[p].held.refresh = live
    \/ \E p \in Procs : At(p, "writing") /\ proc[p].next.pair.refresh = live

\* "The credential is flagged dead only on the upstream's own word": while
\* only the plane touches it, a flag and a verdict mean that the session is
\* gone.
DeadOnlyIfGone ==
  alone /\ (doc.disabled = "dead" \/ \E p \in Procs : At(p, "condemned")) => live = 0

\* usage_note.go: the lifecycle writer and the usage writer share the note and
\* "both read-merge-write the whole document": what the lifecycle is about to
\* save has the pair of the document it has just read, even if its own credits
\* fetch renewed it.
\* The code does not keep this; see the README, section 7.
NoteMerges ==
  [][\A p \in Procs : alone /\ At(p, "deciding") /\ proc'[p].at = "noting" =>
       proc'[p].next.pair = doc.pair]_vars
===============================================================================
