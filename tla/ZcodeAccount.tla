----------------------------- MODULE ZcodeAccount -----------------------------
(***************************************************************************)
(* The credits of the zcode accounts, the flag and the note they become in *)
(* the credential's document, and the account a chat is routed to          *)
(* (plugins/zcode: cache.go, lifecycle.go, policy.go, active_auth.go,      *)
(* scheduler.go, panel.go, quota.go).  Two goroutines fetch, decide and    *)
(* write: the panel's, and the reconcile that a refused chat starts.       *)
(* scheduler_mode is credits, lifecycle_auto is on.                        *)
(***************************************************************************)
EXTENDS Naturals, Sequences

CONSTANTS Order,     \* the accounts in the order the host lists them
          NoOne,     \* no account
          MaxEvents  \* bound of faults and of what happens outside

VARIABLES up,      \* upstream: the account's credits
          doc,     \* the documents
          cache,   \* accountCache
          flight,  \* accountDetailFlight
          memo,    \* lifecycleState
          active,  \* activeAuthID
          task,    \* the goroutines
          chat,    \* the last chat: the account, and whether it was answered
          events

vars == <<up, doc, cache, flight, memo, active, task, chat, events>>

Accounts == {Order[i] : i \in DOMAIN Order}
Goroutines == {"panel", "reconcile"}
\* What is known of credits; nil stands for a nil pointer and for an unknown note.
Known == {"some", "none", "nil"}
NoEntry == [credits |-> "nil", age |-> "absent"]
NoMemo == [disabled |-> FALSE, note |-> "absent"]
\* disabled: the flag as it was read; was: the cached credits when the fetch
\* began, for one that joined another's what that one got.
Idle == [at |-> "idle", kind |-> "row", account |-> NoOne, disabled |-> FALSE,
         credits |-> "nil", was |-> "nil", note |-> "nil"]

Init ==
  /\ up \in [Accounts -> {"some", "none"}]
  /\ doc = [a \in Accounts |-> [disabled |-> FALSE, note |-> "nil"]]
  /\ cache = [a \in Accounts |-> NoEntry]
  /\ flight = [a \in Accounts |-> NoOne]
  /\ memo = [a \in Accounts |-> NoMemo]
  /\ active = NoOne
  /\ task = [g \in Goroutines |-> Idle]
  /\ chat = [on |-> NoOne, answered |-> TRUE]
  /\ events = 0

Fault == events < MaxEvents /\ events' = events + 1
NoFault == UNCHANGED events
At(g, place) == task[g].at = place
Becomes(g, t) == task' = [task EXCEPT ![g] = t]
Ends(g) == Becomes(g, Idle)

-----------------------------------------------------------------------------
(* The route.                                                               *)

Exhausted(a) == cache[a].credits = "none"
FirstOf(S) ==
  IF S = {} THEN NoOne
  ELSE Order[CHOOSE i \in DOMAIN Order :
               Order[i] \in S /\ \A j \in DOMAIN Order : Order[j] \in S => i <= j]
Enabled == {a \in Accounts : ~ doc[a].disabled}
Ready == {a \in Enabled : ~ Exhausted(a)}

\* pickActiveAuth over the candidates handleSchedulerPick keeps: the choice
\* stays while it is ready, or while nothing is.
Pick ==
  IF active \in Ready \/ (Ready = {} /\ active \in Enabled) THEN active
  ELSE IF Ready # {} THEN FirstOf(Ready) ELSE FirstOf(Enabled)

\* ensureDefaultActiveAuth: the dashboard's rule, over the disabled ones too when
\* there is nothing else; the dashboard drops entries that are long stale.
Default ==
  IF active \in Ready \/ (Ready = {} /\ active \in Enabled) THEN active
  ELSE IF Ready # {} THEN FirstOf(Ready)
  ELSE IF Enabled # {} THEN FirstOf(Enabled) ELSE FirstOf(Accounts)
Dashboard ==
  /\ active' = Default
  /\ \/ UNCHANGED cache
     \/ cache' = [a \in Accounts |-> IF cache[a].age = "stale" THEN NoEntry ELSE cache[a]]
  /\ UNCHANGED <<up, doc, flight, memo, task, chat, events>>

\* handleSelectAuth.
SelectAuth(a) ==
  /\ Fault /\ ~ doc[a].disabled /\ active' = a
  /\ UNCHANGED <<up, doc, cache, flight, memo, task, chat>>

\* isHardQuotaError: what an account without credits answers is recognised.
HardQuota(a) == up[a] # "some"

\* A chat on the picked account: an answer drops the cached credits
\* (invalidateAccountCredits), a hard quota error reconciles.  Bound: one such
\* reconcile at a time.
Begun(g, kind, a) ==
  Becomes(g, [Idle EXCEPT !.at = "fetch", !.kind = kind, !.account = a,
                          !.disabled = doc[a].disabled])
Chat ==
  /\ Pick # NoOne
  /\ active' = Pick
  /\ chat' = [on |-> Pick, answered |-> up[Pick] = "some"]
  /\ IF up[Pick] = "some"
     THEN /\ cache' = IF cache[Pick].age = "absent" THEN cache
                      ELSE [cache EXCEPT ![Pick] = [credits |-> "nil", age |-> "fresh"]]
          /\ UNCHANGED task
     ELSE /\ At("reconcile", "idle")
          /\ IF HardQuota(Pick) THEN Begun("reconcile", "reconcile", Pick) ELSE UNCHANGED task
          /\ UNCHANGED cache
  /\ UNCHANGED <<up, doc, flight, memo, events>>

-----------------------------------------------------------------------------
(* The panel asks for one account's credits, or for the lifecycle of all.   *)

PanelBegins(kind, a) ==
  /\ Fault /\ At("panel", "idle") /\ Begun("panel", kind, a)
  /\ UNCHANGED <<up, doc, cache, flight, memo, active, chat>>

\* cachedAccountDetails.  The listing of all accounts takes a fresh entry as it
\* is, one whose credits were dropped included.
Cached(g) ==
  /\ At(g, "fetch") /\ task[g].kind = "row" /\ cache[task[g].account].age = "fresh"
  /\ Becomes(g, [task[g] EXCEPT !.at = "decide", !.credits = cache[task[g].account].credits])
  /\ UNCHANGED <<up, doc, cache, flight, memo, active, chat, events>>
Fetch(g) ==
  LET a == task[g].account IN
  /\ At(g, "fetch")
  /\ IF flight[a] = NoOne
     THEN /\ flight' = [flight EXCEPT ![a] = g]
          /\ Becomes(g, [task[g] EXCEPT !.at = "ask", !.was = cache[a].credits])
     ELSE Becomes(g, [task[g] EXCEPT !.at = "wait", !.was = "waits"]) /\ UNCHANGED flight
  /\ UNCHANGED <<up, doc, cache, memo, active, chat, events>>
Joined(g) ==
  LET a == task[g].account IN
  /\ At(g, "wait") /\ task[g].was # "waits"
  /\ Becomes(g, [task[g] EXCEPT !.at = "decide",
                   !.credits = IF cache[a].age = "absent" THEN task[g].was ELSE cache[a].credits])
  /\ UNCHANGED <<up, doc, cache, flight, memo, active, chat, events>>
Ask(g) ==
  /\ At(g, "ask")
  /\ \/ NoFault /\ Becomes(g, [task[g] EXCEPT !.at = "store", !.credits = up[task[g].account]])
     \/ Fault /\ Becomes(g, [task[g] EXCEPT !.at = "store", !.credits = task[g].was])
  /\ UNCHANGED <<up, doc, cache, flight, memo, active, chat>>
Store(g) ==
  LET a == task[g].account IN
  /\ At(g, "store")
  /\ cache' = [cache EXCEPT ![a] = [credits |-> task[g].credits, age |-> "fresh"]]
  /\ flight' = [flight EXCEPT ![a] = NoOne]
  /\ task' = [h \in Goroutines |->
                 IF h = g THEN [task[g] EXCEPT !.at = "decide"]
                 ELSE IF At(h, "wait") /\ task[h].account = a /\ task[h].was = "waits"
                 THEN [task[h] EXCEPT !.was = task[g].credits] ELSE task[h]]
  /\ UNCHANGED <<up, doc, memo, active, chat, events>>

-----------------------------------------------------------------------------
(* The decision and the documents: their flag and their note (what else is  *)
(* written is as it was read at the beginning).                             *)

\* reconcileOneAccount: the flag follows known credits, both ways.
Flips(g) == task[g].kind = "reconcile"
            /\ task[g].credits = (IF task[g].disabled THEN "some" ELSE "none")
Flip(g) ==
  LET a == task[g].account
      now == ~ task[g].disabled
      note == task[g].credits IN
  /\ At(g, "decide") /\ Flips(g)
  /\ doc' = [doc EXCEPT ![a] = [disabled |-> now, note |-> note]]
  /\ memo' = [memo EXCEPT ![a] = [disabled |-> now, note |-> note]]
  /\ Ends(g)
  /\ UNCHANGED <<up, cache, flight, active, chat, events>>

\* syncAuthNote: the note is the credits' or, when those are unknown, the one on
\* disk; nothing is written when the memo says it was.
NoteFor(g) == LET n == task[g].credits IN IF n = "nil" THEN doc[task[g].account].note ELSE n
Written(g, flag) == memo[task[g].account] = [disabled |-> flag, note |-> NoteFor(g)]
Sync(g) ==
  LET a == task[g].account
      saves(flag) == Becomes(g, [task[g] EXCEPT !.at = "save", !.disabled = flag, !.note = NoteFor(g)])
      stops == (task[g].kind = "reconcile" /\ task[g].credits = "nil") \/ Written(g, task[g].disabled)
  IN
  /\ At(g, "decide") /\ ~ Flips(g) /\ task[g].kind # "switch"
  /\ \/ stops /\ NoFault /\ Ends(g)
     \/ ~ stops /\ NoFault /\ (IF Written(g, doc[a].disabled) THEN Ends(g) ELSE saves(doc[a].disabled))
     \/ ~ stops /\ Fault /\ saves(task[g].disabled)
  /\ UNCHANGED <<up, doc, cache, flight, memo, active, chat>>

\* handlePlanSwitch: flag and note of the document, and no memo.
SwitchBegins(a) ==
  /\ Fault /\ At("panel", "idle")
  /\ Becomes("panel", [Idle EXCEPT !.at = "decide", !.kind = "switch", !.account = a])
  /\ UNCHANGED <<up, doc, cache, flight, memo, active, chat>>
SwitchReads(g) ==
  /\ At(g, "decide") /\ task[g].kind = "switch"
  /\ Becomes(g, [task[g] EXCEPT !.at = "save", !.disabled = doc[task[g].account].disabled,
                                !.note = doc[task[g].account].note])
  /\ UNCHANGED <<up, doc, cache, flight, memo, active, chat, events>>

Save(g) ==
  LET a == task[g].account IN
  /\ At(g, "save")
  /\ doc' = [doc EXCEPT ![a] = [disabled |-> task[g].disabled, note |-> task[g].note]]
  /\ memo' = IF task[g].kind = "switch" THEN memo
             ELSE [memo EXCEPT ![a] = [disabled |-> task[g].disabled, note |-> task[g].note]]
  /\ Ends(g)
  /\ UNCHANGED <<up, cache, flight, active, chat, events>>

-----------------------------------------------------------------------------
(* Outside: entries age, credits are spent and granted, the operator edits. *)

Ages(a) ==
  /\ cache[a].age = "fresh" /\ cache' = [cache EXCEPT ![a] = [@ EXCEPT !.age = "stale"]]
  /\ UNCHANGED <<up, doc, flight, memo, active, task, chat, events>>
Moves(a) ==
  /\ Fault /\ up' = [up EXCEPT ![a] = IF @ = "some" THEN "none" ELSE "some"]
  /\ UNCHANGED <<doc, cache, flight, memo, active, task, chat>>
Edits(a) ==
  /\ Fault /\ doc' = [doc EXCEPT ![a] = [disabled |-> ~ @.disabled, note |-> @.note]]
  /\ UNCHANGED <<up, cache, flight, memo, active, task, chat>>

Works(g) == Cached(g) \/ Fetch(g) \/ Joined(g) \/ Ask(g) \/ Store(g) \/ Flip(g) \/ Sync(g)
            \/ SwitchReads(g) \/ Save(g)
Next ==
  \/ Chat \/ Dashboard
  \/ \E g \in Goroutines : Works(g)
  \/ \E a \in Accounts : SelectAuth(a) \/ SwitchBegins(a) \/ Ages(a) \/ Moves(a) \/ Edits(a)
                         \/ \E kind \in {"row", "reconcile"} : PanelBegins(kind, a)

Spec == Init /\ [][Next]_vars

-----------------------------------------------------------------------------
\* The variables have their types and a fetch has its owner.
TypeOK ==
  /\ up \in [Accounts -> {"some", "none"}]
  /\ doc \in [Accounts -> [disabled : BOOLEAN, note : Known]]
  /\ cache \in [Accounts -> [credits : Known, age : {"absent", "fresh", "stale"}]]
  /\ memo \in [Accounts -> [disabled : BOOLEAN, note : Known \cup {"absent"}]]
  /\ active \in Accounts \cup {NoOne}
  /\ \A a \in Accounts, g \in Goroutines :
       flight[a] = g <=> task[g].at \in {"ask", "store"} /\ task[g].account = a

\* Once an account stays enabled with credits, chats end up on accounts with
\* credits and stay there, whatever was cached, selected or written before: a
\* refused chat makes its account known as exhausted (lifecycle.go 224-238,
\* active_auth.go 42-86).
RoutesToCredits ==
  (\E a \in Accounts : <>[](up[a] = "some" /\ ~ doc[a].disabled)) => <>[](chat.answered)
=============================================================================
