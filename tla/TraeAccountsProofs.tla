-------------------------- MODULE TraeAccountsProofs --------------------------
(* The account side of the trae plugin, for every set of logins, completions *)
(* under way, accounts, manual check-ins, renewals and calls: each flow      *)
(* holds only the login started last, each plane claims an account once a    *)
(* day, the live token pair is stored or in the hands of the call that       *)
(* rotated it, and an exhausted account cools to the coming midnight.        *)
(*                                                                           *)
(* The four parts share no state, so each has an inductive invariant of its  *)
(* own and a step of one leaves the others' variables alone.                 *)
EXTENDS MCTraeAccounts, TLAPS

-----------------------------------------------------------------------------
(* The login.  What the maps hold and what the record on disk names is the   *)
(* newest of its flow; a restart keeps the record and the flow of a login,   *)
(* so that what is read back still is.  A task always works on a login.      *)
Newest(l) == login[l].flow # "none" /\ newest[login[l].flow] = l

LoginInv ==
    /\ Login!TypeOK
    /\ \A l \in Logins : login[l].live => Newest(l)
    /\ file # NoLogin => Newest(file)
    /\ \A t \in Tasks : task[t].at # "idle" => task[t].of \in Logins

(* A step that changes one login keeps its flow, and makes it live only if   *)
(* it was or if the record on disk names it.                                 *)
LEMMA OneLoginChanges ==
  ASSUME LoginInv, NEW l \in Logins, NEW c \in Login!Ctx,
         login' = [login EXCEPT ![l] = c], c.flow = login[l].flow,
         c.live => login[l].live \/ file = l,
         file' \in {file, NoLogin}, newest' = newest
  PROVE  /\ login' \in [Logins -> Login!Ctx] /\ file' \in Logins \cup {NoLogin}
         /\ \A k \in Logins : login'[k].live => Newest(k)'
         /\ file' # NoLogin => Newest(file)'
<1>1. /\ login \in [Logins -> Login!Ctx] /\ file \in Logins \cup {NoLogin}
      /\ \A k \in Logins : login[k].live => Newest(k)
      /\ file # NoLogin => Newest(file)
  BY DEF LoginInv, Login!TypeOK
<1>2. /\ login' \in [Logins -> Login!Ctx] /\ login'[l] = c
      /\ \A k \in Logins \ {l} : login'[k] = login[k]
  BY <1>1
<1>3. l # NoLogin
  BY TraeAccountsAssumption
<1>4. \A k \in Logins : login'[k].flow = login[k].flow
  BY <1>2
<1>5. \A k \in Logins : Newest(k) => Newest(k)'
  BY <1>4 DEF Newest
<1>6. c.live => Newest(l)
  BY <1>1, <1>3
<1> QED
  BY <1>1, <1>2, <1>5, <1>6 DEF Newest

SpawnedWell ==
    /\ task' \in [Tasks -> [of : Logins \cup {NoLogin}, by : {"poll", "self"},
                            at : {"idle", "grace", "exchange", "save"}, with : Login!Grants]]
    /\ \A t \in Tasks : task'[t].at # "idle" => task'[t].of \in Logins

LEMMA TakeTyped ==
  ASSUME LoginInv, NEW job, Login!Take(job), job.of \in Logins, job.by \in {"poll", "self"},
         job.at \in {"grace", "exchange"}, job.with \in Login!Grants,
         job = [of |-> job.of, by |-> job.by, at |-> job.at, with |-> job.with]
  PROVE  SpawnedWell
BY DEF LoginInv, Login!TypeOK, Login!Take, SpawnedWell

LEMMA SpawnTyped ==
  ASSUME LoginInv, NEW l \in Logins, NEW c \in Login!Ctx, Login!Spawn(l, c)
  PROVE  SpawnedWell
<1>1. CASE UNCHANGED task
  BY <1>1 DEF LoginInv, Login!TypeOK, SpawnedWell
<1>2. CASE ~c.armed
  <2> DEFINE job == [of |-> l, by |-> "self", with |-> c.got,
                     at |-> IF c.restored THEN "exchange" ELSE "grace"]
  <2>1. Login!Take(job)
    BY <1>2 DEF Login!Spawn
  <2>2. /\ job.of \in Logins /\ job.by \in {"poll", "self"} /\ job.at \in {"grace", "exchange"}
        /\ job.with \in Login!Grants
        /\ job = [of |-> job.of, by |-> job.by, at |-> job.at, with |-> job.with]
    BY DEF Login!Ctx
  <2> QED  BY <2>1, <2>2, TakeTyped
<1> QED  BY <1>1, <1>2 DEF Login!Spawn

LEMMA LoginInit == Init => LoginInv
BY TraeAccountsAssumption
DEF Init, Login!Init, LoginInv, Login!TypeOK, Login!Ctx, Login!Unborn, Login!Idle, Login!Flows,
    Login!Grants

(* What a login's context is after each handler has changed it.              *)
LEMMA CtxKept ==
  ASSUME NEW c \in Login!Ctx
  PROVE  /\ \A d \in {Login!Gone(c), Login!Left(c), Login!Shut(c)} :
               d \in Login!Ctx /\ d.flow = c.flow /\ ~d.live
         /\ Login!Armed(c) \in Login!Ctx /\ Login!Armed(c).flow = c.flow
         /\ Login!Armed(c).live = c.live
         /\ \A r \in Login!Grants : /\ [c EXCEPT !.got = r] \in Login!Ctx
                                    /\ [c EXCEPT !.got = r].flow = c.flow
                                    /\ [c EXCEPT !.got = r].live = c.live
<1>1. Login!Gone(c) \in Login!Ctx /\ Login!Gone(c).flow = c.flow /\ ~Login!Gone(c).live
  BY DEF Login!Ctx, Login!Grants, Login!Gone
<1>2. \A d \in Login!Ctx, o \in {"no", "own", "stray"} :
        /\ [d EXCEPT !.open = o] \in Login!Ctx /\ [d EXCEPT !.open = o].flow = d.flow
        /\ [d EXCEPT !.open = o].live = d.live
  BY DEF Login!Ctx
<1>3. Login!Left(c) \in Login!Ctx /\ Login!Left(c).flow = c.flow /\ ~Login!Left(c).live
  <2> DEFINE g == Login!Gone(c)
             o == IF g.open = "own" THEN "stray" ELSE g.open
  <2>1. Login!Left(c) = [g EXCEPT !.open = o]
    BY DEF Login!Left
  <2>2. g \in Login!Ctx /\ g.flow = c.flow /\ ~g.live
    BY <1>1
  <2>3. o \in {"no", "own", "stray"}
    BY <2>2 DEF Login!Ctx
  <2> HIDE DEF g, o
  <2> QED  BY <1>2, <2>1, <2>2, <2>3
<1>4. Login!Shut(c) \in Login!Ctx /\ Login!Shut(c).flow = c.flow /\ ~Login!Shut(c).live
  <2> DEFINE g == Login!Gone(c)
             o == IF g.open = "own" THEN "no" ELSE g.open
  <2>1. Login!Shut(c) = [g EXCEPT !.open = o]
    BY DEF Login!Shut
  <2>2. g \in Login!Ctx /\ g.flow = c.flow /\ ~g.live
    BY <1>1
  <2>3. o \in {"no", "own", "stray"}
    BY <2>2 DEF Login!Ctx
  <2> HIDE DEF g, o
  <2> QED  BY <1>2, <2>1, <2>2, <2>3
<1>5. /\ Login!Armed(c) \in Login!Ctx /\ Login!Armed(c).flow = c.flow
      /\ Login!Armed(c).live = c.live
  BY DEF Login!Ctx, Login!Armed
<1>6. \A r \in Login!Grants : /\ [c EXCEPT !.got = r] \in Login!Ctx
                              /\ [c EXCEPT !.got = r].flow = c.flow
                              /\ [c EXCEPT !.got = r].live = c.live
  BY DEF Login!Ctx
<1> QED  BY <1>1, <1>3, <1>4, <1>5, <1>6

(* A start: whatever the flow still held is taken out as the new one is put  *)
(* in, and the one record on disk now names the new one.                     *)
LEMMA BeginStep ==
  ASSUME LoginInv, NEW l \in Logins, NEW f \in Login!Flows, Login!Begin(l, f)
  PROVE  LoginInv'
<1>1. /\ login \in [Logins -> Login!Ctx] /\ newest \in [Login!Flows -> Logins \cup {NoLogin}]
      /\ \A k \in Logins : login[k].live => Newest(k)
  BY DEF LoginInv, Login!TypeOK
<1>2. /\ newest' = [newest EXCEPT ![f] = l] /\ file' = l /\ ~login[l].live
      /\ UNCHANGED <<task, outcome, exchanges, crashes>>
  BY <1>1 DEF Login!Begin, Newest
<1>3. /\ login' \in [Logins -> Login!Ctx] /\ login'[l].flow = f
      /\ \A k \in Logins \ {l} :
            /\ login'[k].flow = login[k].flow
            /\ login'[k].live => login[k].live /\ login[k].flow # f
  <2> DEFINE new == [Login!Unborn EXCEPT !.flow = f, !.live = TRUE, !.open = "own"]
  <2>1. new \in Login!Ctx /\ new.flow = f
    BY DEF Login!Unborn, Login!Ctx, Login!Grants
  <2>2. /\ DOMAIN login' = Logins /\ login' = [k \in Logins |-> login'[k]] /\ login'[l] = new
        /\ \A k \in Logins \ {l} :
             login'[k] = IF login[k].flow = f /\ login[k].live THEN Login!Shut(login[k]) ELSE login[k]
    BY DEF Login!Begin, Login!Evicted
  <2>3. \A k \in Logins : login[k] \in Login!Ctx
    BY <1>1
  <2> HIDE DEF new
  <2>4. ASSUME NEW k \in Logins \ {l}
        PROVE  /\ login'[k] \in Login!Ctx /\ login'[k].flow = login[k].flow
               /\ login'[k].live => login[k].live /\ login[k].flow # f
    <3>1. /\ Login!Shut(login[k]) \in Login!Ctx /\ Login!Shut(login[k]).flow = login[k].flow
          /\ ~Login!Shut(login[k]).live /\ login[k] \in Login!Ctx
      BY <2>3, CtxKept
    <3>2. CASE login[k].flow = f /\ login[k].live
      BY <2>2, <3>1, <3>2
    <3>3. CASE ~(login[k].flow = f /\ login[k].live)
      BY <2>2, <3>1, <3>3
    <3> QED  BY <3>2, <3>3
  <2> QED  BY <2>1, <2>2, <2>4
<1>4. f # "none"
  BY DEF Login!Flows
<1>5. \A k \in Logins : login[k].flow # "none" => login[k].flow \in Login!Flows
  BY <1>1 DEF Login!Ctx
<1>6. \A k \in Logins : login'[k].live => Newest(k)'
  BY <1>1, <1>2, <1>3, <1>4, <1>5 DEF Newest
<1>7. Newest(file)'
  BY <1>1, <1>2, <1>3, <1>4 DEF Newest
<1>8. newest' \in [Login!Flows -> Logins \cup {NoLogin}]
  BY <1>1, <1>2
<1> QED
  BY <1>2, <1>3, <1>6, <1>7, <1>8 DEF LoginInv, Login!TypeOK

LEMMA FoundKept ==
  ASSUME LoginInv, NEW l \in Logins, Login!Reachable(l)
  PROVE  /\ Login!Found(l) \in Login!Ctx /\ Login!Found(l).flow = login[l].flow
         /\ login[l].live \/ file = l
<1>1. login[l] \in Login!Ctx
  BY DEF LoginInv, Login!TypeOK
<1> QED
  BY <1>1 DEF Login!Found, Login!Reachable, Login!Restorable, Login!Ctx

LEMMA AcceptStep ==
  ASSUME LoginInv, NEW l \in Logins, NEW r \in Login!Grants, Login!Accept(l, r)
  PROVE  LoginInv'
<1> DEFINE c == [login[l] EXCEPT !.got = IF @ = "error" THEN @ ELSE r, !.open = "no"]
<1>1. login[l] \in Login!Ctx /\ task \in [Tasks -> [of : Logins \cup {NoLogin}, by : {"poll", "self"},
         at : {"idle", "grace", "exchange", "save"}, with : Login!Grants]]
  BY DEF LoginInv, Login!TypeOK
<1>2. c \in Login!Ctx /\ c.flow = login[l].flow /\ c.live = login[l].live
  BY <1>1 DEF Login!Ctx
<1>3. UNCHANGED <<file, outcome, exchanges, newest, crashes>>
  BY DEF Login!Accept
<1>4. CASE login' = [login EXCEPT ![l] = Login!Armed(c)] /\ Login!Spawn(l, c)
  <2> HIDE DEF c
  <2>1. /\ login' \in [Logins -> Login!Ctx] /\ file' \in Logins \cup {NoLogin}
        /\ \A k \in Logins : login'[k].live => Newest(k)'
        /\ file' # NoLogin => Newest(file)'
    BY <1>2, <1>3, <1>4, CtxKept, OneLoginChanges
  <2>2. SpawnedWell
    BY <1>2, <1>4, SpawnTyped
  <2> QED  BY <1>3, <2>1, <2>2 DEF LoginInv, Login!TypeOK, SpawnedWell
<1>5. CASE login' = [login EXCEPT ![l].open = "no"] /\ UNCHANGED task
  <2> DEFINE d == [login[l] EXCEPT !.open = "no"]
  <2>1. d \in Login!Ctx /\ d.flow = login[l].flow /\ d.live = login[l].live
    BY <1>1 DEF Login!Ctx
  <2>2. login' = [login EXCEPT ![l] = d]
    BY <1>5
  <2> HIDE DEF d
  <2>3. /\ login' \in [Logins -> Login!Ctx] /\ file' \in Logins \cup {NoLogin}
        /\ \A k \in Logins : login'[k].live => Newest(k)'
        /\ file' # NoLogin => Newest(file)'
    BY <1>3, <2>1, <2>2, OneLoginChanges
  <2> QED  BY <1>3, <1>5, <2>3 DEF LoginInv, Login!TypeOK
<1> QED  BY <1>4, <1>5 DEF Login!Accept

(* Every end of a login: it leaves its map, and the record is removed.       *)
LEMMA SettleStep ==
  ASSUME LoginInv, NEW l \in Logins, NEW c \in Login!Ctx, c.flow = login[l].flow,
         NEW ended \in {Login!Left(c), Login!Shut(c)}, NEW ok, Login!Settle(l, ok, ended),
         SpawnedWell, exchanges' \in [Logins -> 0..2]
  PROVE  LoginInv'
<1>1. ended \in Login!Ctx /\ ended.flow = login[l].flow /\ ~ended.live
  <2>1. \A d \in {Login!Gone(c), Login!Left(c), Login!Shut(c)} :
          d \in Login!Ctx /\ d.flow = c.flow /\ ~d.live
    BY CtxKept
  <2> QED  BY <2>1
<1>2. /\ login' = [login EXCEPT ![l] = ended] /\ file' = NoLogin
      /\ newest' = newest /\ crashes' = crashes
  BY DEF Login!Settle
<1>3. outcome' \in [Logins -> {"none", "ok", "failed"}]
  BY DEF Login!Settle, LoginInv, Login!TypeOK
<1>4. /\ login' \in [Logins -> Login!Ctx] /\ file' \in Logins \cup {NoLogin}
      /\ \A k \in Logins : login'[k].live => Newest(k)'
      /\ file' # NoLogin => Newest(file)'
  BY <1>1, <1>2, OneLoginChanges
<1> QED  BY <1>2, <1>3, <1>4 DEF LoginInv, Login!TypeOK, SpawnedWell

(* Every other change of one login, its record and its outcome.              *)
LEMMA MovedStep ==
  ASSUME LoginInv, NEW l \in Logins, NEW c \in Login!Ctx, c.flow = login[l].flow,
         login' = [login EXCEPT ![l] = c], c.live => login[l].live \/ file = l,
         file' \in {file, NoLogin}, UNCHANGED <<newest, crashes, exchanges>>,
         outcome' \in [Logins -> {"none", "ok", "failed"}], SpawnedWell
  PROVE  LoginInv'
BY OneLoginChanges DEF LoginInv, Login!TypeOK, SpawnedWell

LEMMA Unspawned == LoginInv /\ UNCHANGED task => SpawnedWell
BY DEF LoginInv, Login!TypeOK, SpawnedWell

LEMMA PasteStep ==
  ASSUME LoginInv, NEW l \in Logins, NEW r \in Login!Grants, Login!Paste(l, r)
  PROVE  LoginInv'
<1> DEFINE c == [Login!Found(l) EXCEPT !.got = r]
<1>1. /\ c \in Login!Ctx /\ c.flow = login[l].flow /\ (login[l].live \/ file = l)
  <2> DEFINE d == Login!Found(l)
  <2>1. Login!Reachable(l)
    BY DEF Login!Paste
  <2>2. d \in Login!Ctx /\ d.flow = login[l].flow /\ (login[l].live \/ file = l)
    BY <2>1, FoundKept
  <2> HIDE DEF d
  <2>3. [d EXCEPT !.got = r] \in Login!Ctx /\ [d EXCEPT !.got = r].flow = d.flow
    BY <2>2, CtxKept
  <2> QED  BY <2>2, <2>3 DEF d
<1>2. UNCHANGED <<exchanges, newest, crashes>> /\ outcome \in [Logins -> {"none", "ok", "failed"}]
  BY DEF Login!Paste, LoginInv, Login!TypeOK
<1>3. CASE r # "error"
  <2>1. /\ Login!Spawn(l, c) /\ login' = [login EXCEPT ![l] = Login!Armed(c)]
        /\ UNCHANGED <<file, outcome>>
    BY <1>3 DEF Login!Paste
  <2> HIDE DEF c
  <2>2. Login!Armed(c) \in Login!Ctx /\ Login!Armed(c).flow = login[l].flow
    BY <1>1, CtxKept
  <2>3. SpawnedWell
    BY <1>1, <2>1, SpawnTyped
  <2> QED  BY <1>1, <1>2, <2>1, <2>2, <2>3, MovedStep
<1>4. CASE r = "error"
  <2>1. /\ login' = [login EXCEPT ![l] = IF c.restored THEN Login!Gone(c) ELSE c]
        /\ outcome' = IF c.restored THEN [outcome EXCEPT ![l] = "failed"] ELSE outcome
        /\ file' \in {file, NoLogin} /\ UNCHANGED task
    BY <1>4 DEF Login!Paste
  <2> DEFINE d == IF c.restored THEN Login!Gone(c) ELSE c
  <2> HIDE DEF c
  <2>2. d \in Login!Ctx /\ d.flow = login[l].flow
    BY <1>1, CtxKept
  <2>3. outcome' \in [Logins -> {"none", "ok", "failed"}]
    BY <1>2, <2>1
  <2>4. login' = [login EXCEPT ![l] = d]
    BY <2>1
  <2> HIDE DEF d
  <2> QED  BY <1>1, <1>2, <2>1, <2>2, <2>3, <2>4, MovedStep, Unspawned
<1> QED  BY <1>3, <1>4

LEMMA PollStep ==
  ASSUME LoginInv, NEW l \in Logins,
         Login!PollPending(l) \/ Login!PollExpired(l) \/ Login!PollGoesOn(l)
  PROVE  LoginInv'
<1>1. /\ login[l] \in Login!Ctx /\ outcome \in [Logins -> {"none", "ok", "failed"}]
      /\ exchanges \in [Logins -> 0..2]
  BY DEF LoginInv, Login!TypeOK
<1>2. CASE Login!PollPending(l)
  <2>1. Login!Reachable(l)
    BY <1>2 DEF Login!PollPending, Login!Reachable
  <2>2. /\ login' = [login EXCEPT ![l] = Login!Found(l)]
        /\ UNCHANGED <<file, task, outcome, exchanges, newest, crashes>>
    BY <1>2 DEF Login!PollPending
  <2> QED  BY <1>1, <2>1, <2>2, FoundKept, MovedStep, Unspawned
<1>3. CASE Login!PollExpired(l)
  <2>1. /\ Login!Settle(l, FALSE, Login!Shut(login[l])) /\ UNCHANGED <<task, exchanges>>
    BY <1>3 DEF Login!PollExpired
  <2> QED  BY <1>1, <2>1, SettleStep, Unspawned
<1>4. CASE Login!PollGoesOn(l)
  <2> DEFINE c == Login!Found(l)
             late == IF c.restored /\ c.got = "none" THEN {"code", "error"} ELSE {c.got}
  <2>1. c \in Login!Ctx /\ c.flow = login[l].flow /\ (login[l].live \/ file = l)
    BY <1>4, FoundKept DEF Login!PollGoesOn
  <2>2. PICK r \in late \ {"none"} :
          IF r = "error" THEN Login!Settle(l, FALSE, Login!Shut(c)) /\ UNCHANGED <<task, exchanges>>
          ELSE /\ login' = [login EXCEPT ![l] = [c EXCEPT !.got = r]]
               /\ Login!Take([of |-> l, by |-> "poll", at |-> "exchange", with |-> r])
               /\ UNCHANGED <<file, outcome, exchanges, newest, crashes>>
    BY <1>4 DEF Login!PollGoesOn
  <2>3. r \in Login!Grants
    BY <2>1, <2>2 DEF Login!Ctx, Login!Grants
  <2> HIDE DEF c, late
  <2>4. CASE r = "error"
    BY <1>1, <2>1, <2>2, <2>4, SettleStep, Unspawned
  <2>5. CASE r # "error"
    <3> DEFINE job == [of |-> l, by |-> "poll", at |-> "exchange", with |-> r]
    <3>1. /\ login' = [login EXCEPT ![l] = [c EXCEPT !.got = r]] /\ Login!Take(job)
          /\ UNCHANGED <<file, outcome, exchanges, newest, crashes>>
      BY <2>2, <2>5
    <3>2. SpawnedWell
      BY <2>3, <3>1, TakeTyped
    <3>3. [c EXCEPT !.got = r] \in Login!Ctx /\ [c EXCEPT !.got = r].flow = login[l].flow
      BY <2>1, <2>3, CtxKept
    <3> QED  BY <1>1, <2>1, <3>1, <3>2, <3>3, MovedStep
  <2> QED  BY <2>4, <2>5
<1> QED  BY <1>2, <1>3, <1>4

(* The completions.  Whether a claim or an exchange is won or lost, the      *)
(* login they work on leaves its map or was not there.                       *)
LEMMA GraceStep ==
  ASSUME LoginInv, NEW t \in Tasks, Login!Grace(t)
  PROVE  LoginInv'
<1> DEFINE l == task[t].of
<1>1. /\ l \in Logins /\ login[l] \in Login!Ctx
      /\ task \in [Tasks -> [of : Logins \cup {NoLogin}, by : {"poll", "self"},
                             at : {"idle", "grace", "exchange", "save"}, with : Login!Grants]]
      /\ \A u \in Tasks : task[u].at # "idle" => task[u].of \in Logins
      /\ outcome \in [Logins -> {"none", "ok", "failed"}]
  BY DEF LoginInv, Login!TypeOK, Login!Grace
<1>2. UNCHANGED <<file, outcome, exchanges, newest, crashes>>
  BY DEF Login!Grace
<1>3. CASE login[l].live
  <2>1. /\ login' = [login EXCEPT ![l] = Login!Left(login[l])]
        /\ task' = [task EXCEPT ![t].at = "exchange", ![t].with = login[l].got]
    BY <1>1, <1>3 DEF Login!Grace, LoginInv, Login!TypeOK
  <2>2. SpawnedWell
    <3>1. login[l].got \in Login!Grants
      BY <1>1 DEF Login!Ctx
    <3> DEFINE e == [task[t] EXCEPT !.at = "exchange", !.with = login[l].got]
    <3>2. task' = [task EXCEPT ![t] = e]
      BY <2>1
    <3>3. /\ e \in [of : Logins \cup {NoLogin}, by : {"poll", "self"},
                   at : {"idle", "grace", "exchange", "save"}, with : Login!Grants]
          /\ e.of \in Logins
      BY <1>1, <3>1
    <3> HIDE DEF l, e
    <3> QED  BY <1>1, <3>2, <3>3 DEF SpawnedWell
  <2>3. /\ Login!Left(login[l]) \in Login!Ctx /\ Login!Left(login[l]).flow = login[l].flow
        /\ ~Login!Left(login[l]).live
    BY <1>1, CtxKept
  <2> HIDE DEF l
  <2> QED  BY <1>1, <1>2, <2>1, <2>2, <2>3, MovedStep
<1>4. CASE ~login[l].live
  <2>1. UNCHANGED login /\ task' = [task EXCEPT ![t] = Login!Idle]
    BY <1>4 DEF Login!Grace
  <2>2. SpawnedWell
    <3>1. Login!Idle \in [of : Logins \cup {NoLogin}, by : {"poll", "self"},
                          at : {"idle", "grace", "exchange", "save"}, with : Login!Grants]
      BY DEF Login!Idle, Login!Grants
    <3>2. Login!Idle.at = "idle"
      BY DEF Login!Idle
    <3> QED  BY <1>1, <2>1, <3>1, <3>2 DEF SpawnedWell
  <2> QED  BY <1>2, <2>1, <2>2 DEF LoginInv, Login!TypeOK, SpawnedWell, Newest
<1> QED  BY <1>3, <1>4

LEMMA EndStep ==
  ASSUME LoginInv, NEW t \in Tasks, task[t].at # "idle", NEW ok, Login!End(t, ok),
         exchanges' \in [Logins -> 0..2]
  PROVE  LoginInv'
<1> DEFINE l == task[t].of
<1>1. /\ l \in Logins /\ login[l] \in Login!Ctx
      /\ task \in [Tasks -> [of : Logins \cup {NoLogin}, by : {"poll", "self"},
                             at : {"idle", "grace", "exchange", "save"}, with : Login!Grants]]
      /\ \A u \in Tasks : task[u].at # "idle" => task[u].of \in Logins
  BY DEF LoginInv, Login!TypeOK
<1>2. SpawnedWell
  <2>1. task' = [task EXCEPT ![t] = Login!Idle]
    BY DEF Login!End
  <2>2. Login!Idle \in [of : Logins \cup {NoLogin}, by : {"poll", "self"},
                        at : {"idle", "grace", "exchange", "save"}, with : Login!Grants]
    BY DEF Login!Idle, Login!Grants
  <2>3. Login!Idle.at = "idle"
    BY DEF Login!Idle
  <2> QED  BY <1>1, <2>1, <2>2, <2>3 DEF SpawnedWell
<1>3. \E ended \in {Login!Left(login[l]), Login!Shut(login[l])} : Login!Settle(l, ok, ended)
  BY DEF Login!End
<1>4. PICK ended \in {Login!Left(login[l]), Login!Shut(login[l])} : Login!Settle(l, ok, ended)
  BY <1>3
<1> HIDE DEF l
<1> QED  BY <1>1, <1>2, <1>4, SettleStep

LEMMA CompletesStep ==
  ASSUME LoginInv, NEW t \in Tasks, Login!Completes(t)
  PROVE  LoginInv'
<1>1. CASE Login!Grace(t)
  BY <1>1, GraceStep
<1>2. CASE Login!Exchange(t)
  <2> DEFINE l == task[t].of
  <2>1. exchanges' \in [Logins -> 0..2]
    <3>1. exchanges \in [Logins -> 0..2]
      BY DEF LoginInv, Login!TypeOK
    <3>2. exchanges' = exchanges \/ exchanges' = [exchanges EXCEPT ![l] = IF @ < 2 THEN @ + 1 ELSE @]
      BY <1>2 DEF Login!Exchange
    <3> QED  BY <3>1, <3>2
  <2>2. CASE Login!End(t, FALSE)
    BY <1>2, <2>1, <2>2, EndStep DEF Login!Exchange
  <2>3. CASE task' = [task EXCEPT ![t].at = "save"] /\ UNCHANGED <<login, file, outcome, newest, crashes>>
    <3>1. SpawnedWell
      BY <1>2, <2>3 DEF Login!Exchange, SpawnedWell, LoginInv, Login!TypeOK
    <3> QED  BY <2>1, <2>3, <3>1 DEF LoginInv, Login!TypeOK, SpawnedWell, Newest
  <2> QED  BY <1>2, <2>2, <2>3 DEF Login!Exchange
<1>3. CASE Login!Save(t)
  <2>1. task[t].at # "idle" /\ exchanges' = exchanges /\ exchanges \in [Logins -> 0..2]
    BY <1>3 DEF Login!Save, LoginInv, Login!TypeOK
  <2>2. \E ok \in BOOLEAN : Login!End(t, ok)
    BY <1>3 DEF Login!Save
  <2> QED  BY <2>1, <2>2, EndStep
<1> QED
  BY <1>1, <1>2, <1>3 DEF Login!Completes, Login!PollCompletesCn, Login!PollCompletesIntl,
                          Login!SelfCompleteCn, Login!SelfCompleteIntl

(* The clock, the janitor and a restart.                                     *)
LEMMA LapsesStep ==
  ASSUME LoginInv, \/ \E l \in Logins : Login!Expire(l)
                   \/ Login!Janitor \/ Login!SweepRecord \/ Login!Restart
  PROVE  LoginInv'
<1>1. /\ login \in [Logins -> Login!Ctx] /\ outcome \in [Logins -> {"none", "ok", "failed"}]
      /\ \A k \in Logins : login[k].live => Newest(k)
      /\ file # NoLogin => Newest(file)
      /\ file \in Logins \cup {NoLogin} /\ crashes \in 0..MaxCrashes
  BY DEF LoginInv, Login!TypeOK
<1>2. ASSUME NEW l \in Logins, Login!Expire(l) PROVE LoginInv'
  <2> DEFINE c == [login[l] EXCEPT !.old = TRUE, !.open = "no"]
  <2>1. c \in Login!Ctx /\ c.flow = login[l].flow /\ c.live = login[l].live
    BY <1>1 DEF Login!Ctx
  <2>2. login' = [login EXCEPT ![l] = c]
    BY <1>2 DEF Login!Expire
  <2>3. UNCHANGED <<file, task, outcome, exchanges, newest, crashes>>
    BY <1>2 DEF Login!Expire
  <2> HIDE DEF c
  <2> QED  BY <1>1, <2>1, <2>2, <2>3, MovedStep, Unspawned
<1>3. ASSUME login' \in [Logins -> Login!Ctx],
             \A k \in Logins : login'[k].flow = login[k].flow /\ (login'[k].live => login[k].live),
             file' \in {file, NoLogin}, newest' = newest, crashes' \in 0..MaxCrashes,
             exchanges' = exchanges, outcome' \in [Logins -> {"none", "ok", "failed"}], SpawnedWell
      PROVE  LoginInv'
  BY <1>1, <1>3 DEF LoginInv, Login!TypeOK, SpawnedWell, Newest
<1>4. CASE Login!Janitor
  <2>1. \A k \in Logins : /\ Login!Shut(login[k]) \in Login!Ctx
                          /\ Login!Shut(login[k]).flow = login[k].flow
                          /\ ~Login!Shut(login[k]).live
    BY <1>1, CtxKept
  <2>2. UNCHANGED <<file, task, outcome, exchanges, newest, crashes>>
    BY <1>4 DEF Login!Janitor
  <2>3. /\ DOMAIN login' = Logins /\ login' = [k \in Logins |-> login'[k]]
        /\ \A k \in Logins : login'[k] = Login!Shut(login[k]) \/ login'[k] = login[k]
    BY <1>4 DEF Login!Janitor
  <2>4. \A k \in Logins : /\ login'[k] \in Login!Ctx /\ login'[k].flow = login[k].flow
                          /\ login'[k].live => login[k].live
    BY <1>1, <2>1, <2>3
  <2> QED  BY <1>1, <1>3, <2>2, <2>3, <2>4, Unspawned
<1>5. CASE Login!SweepRecord
  <2>1. file' = NoLogin /\ UNCHANGED <<login, task, outcome, exchanges, newest, crashes>>
    BY <1>5 DEF Login!SweepRecord
  <2> QED  BY <1>1, <1>3, <2>1, Unspawned
<1>6. CASE Login!Restart
  <2>1. /\ login' \in [Logins -> Login!Ctx]
        /\ \A k \in Logins : login'[k].flow = login[k].flow /\ ~login'[k].live
    BY <1>1, <1>6 DEF Login!Restart, Login!Unborn, Login!Ctx, Login!Grants
  <2>2. /\ outcome' \in [Logins -> {"none", "ok", "failed"}] /\ crashes' \in 0..MaxCrashes
        /\ UNCHANGED <<file, exchanges, newest>>
    <3>1. /\ outcome' = [k \in Logins |-> "none"] /\ crashes < MaxCrashes
          /\ crashes' = crashes + 1 /\ UNCHANGED <<file, exchanges, newest>>
      BY <1>6 DEF Login!Restart
    <3>2. crashes' \in 0..MaxCrashes
      BY <1>1, <3>1, TraeAccountsAssumption
    <3> QED  BY <3>1, <3>2
  <2>3. SpawnedWell
    <3>1. task' = [t \in Tasks |-> Login!Idle]
      BY <1>6 DEF Login!Restart
    <3> QED  BY <3>1 DEF SpawnedWell, Login!Idle, Login!Grants
  <2> QED  BY <1>3, <2>1, <2>2, <2>3
<1> QED  BY <1>2, <1>4, <1>5, <1>6

LEMMA LoginStep == LoginInv /\ Login!Next => LoginInv'
<1> SUFFICES ASSUME LoginInv, Login!Next PROVE LoginInv'
  OBVIOUS
<1>1. ASSUME NEW l \in Logins, Login!StartCn(l) \/ Login!StartIntl(l) PROVE LoginInv'
  BY <1>1, BeginStep DEF Login!StartCn, Login!StartIntl, Login!Flows
<1>2. ASSUME NEW l \in Logins, Login!CallbackCn(l) \/ Login!CallbackIntl(l) PROVE LoginInv'
  <2>1. \E r \in Login!Grants : Login!Accept(l, r)
    BY <1>2 DEF Login!CallbackCn, Login!CallbackIntl, Login!Grants
  <2> QED  BY <2>1, AcceptStep
<1>3. ASSUME NEW l \in Logins, Login!PasteCn(l) \/ Login!PasteIntl(l) PROVE LoginInv'
  <2>1. \E r \in Login!Grants : Login!Paste(l, r)
    BY <1>3 DEF Login!PasteCn, Login!PasteIntl, Login!Grants
  <2> QED  BY <2>1, PasteStep
<1>4. ASSUME NEW l \in Logins, Login!PollCn(l) \/ Login!PollIntl(l) PROVE LoginInv'
  BY <1>4, PollStep DEF Login!PollCn, Login!PollIntl
<1> QED
  BY <1>1, <1>2, <1>3, <1>4, CompletesStep, LapsesStep DEF Login!Next

-----------------------------------------------------------------------------
(* The check-in.  Whoever has passed the gate and not been answered yet did  *)
(* so before today's first acceptance of that account, and has had none of   *)
(* his own; every accepted claim of today is in the registry the gate reads. *)
Registered ==
    \A p \in Checkin!Claimants, a \in Accounts :
      accepted[<<p, a>>] # 0 => claimDay = Checkin!ClaimDay(clock) /\ a \in claimSent

FirstClaims ==
    /\ run.claims # NoAccount => "scheduled" \in early /\ accepted[<<"scheduled", run.claims>>] = 0
    /\ \A h \in Hands : hand[h] # NoAccount => h \in early /\ accepted[<<h, hand[h]>>] = 0

AcceptedOnce == \A p \in Checkin!Claimants, a \in Accounts : accepted[<<p, a>>] <= 1

CheckinInv ==
    Checkin!TypeOK /\ Registered /\ FirstClaims /\ AcceptedOnce

LEMMA DaysNat == \A c \in Nat : Checkin!LocalDay(c) \in Nat /\ Checkin!ClaimDay(c) \in Nat
BY TraeAccountsAssumption DEF Checkin!LocalDay, Checkin!ClaimDay

LEMMA CheckinInit == Init => CheckinInv
<1> SUFFICES ASSUME Init PROVE CheckinInv
  OBVIOUS
<1>1. Checkin!TypeOK
  BY TraeAccountsAssumption DEF Init, Checkin!Init, Checkin!TypeOK, Checkin!NoRun
<1>2. \A p \in Checkin!Claimants, a \in Accounts : accepted[<<p, a>>] = 0
  BY DEF Init, Checkin!Init
<1>3. /\ run.claims = NoAccount /\ \A h \in Hands : hand[h] = NoAccount
  BY DEF Init, Checkin!Init, Checkin!NoRun
<1> QED
  BY <1>1, <1>2, <1>3 DEF CheckinInv, Registered, FirstClaims, AcceptedOnce

(* A retry is counted against the host's day and never past its budget.      *)
LEMMA RetryTyped ==
  ASSUME Checkin!TypeOK, NEW limited, Checkin!ScheduleRetry(limited)
  PROVE  retry' \in [attempt : 0..MaxRetries, day : Nat, timer : BOOLEAN]
<1>1. /\ retry \in [attempt : 0..MaxRetries, day : Nat, timer : BOOLEAN] /\ MaxRetries \in Nat
      /\ Checkin!LocalDay(clock) \in Nat
  BY DaysNat, TraeAccountsAssumption DEF Checkin!TypeOK
<1>2. CASE ~limited
  <2> DEFINE r == [retry EXCEPT !.attempt = 0]
  <2>1. retry' = [r EXCEPT !.timer = FALSE]
    BY <1>2 DEF Checkin!ScheduleRetry
  <2>2. r \in [attempt : 0..MaxRetries, day : Nat, timer : BOOLEAN]
    BY <1>1
  <2> HIDE DEF r
  <2> QED  BY <2>1, <2>2
<1>3. CASE limited
  <2> DEFINE spent == IF retry.day = Checkin!LocalDay(clock) THEN retry.attempt ELSE 0
             left == spent < MaxRetries
  <2>1. spent \in 0..MaxRetries /\ left \in BOOLEAN
    BY <1>1
  <2>2. retry' = [day |-> Checkin!LocalDay(clock), attempt |-> IF left THEN spent + 1 ELSE spent,
                  timer |-> left \/ retry.timer]
    BY <1>3 DEF Checkin!ScheduleRetry
  <2>3. (IF left THEN spent + 1 ELSE spent) \in 0..MaxRetries
    BY <1>1, <2>1
  <2>4. (left \/ retry.timer) \in BOOLEAN
    OBVIOUS
  <2> HIDE DEF spent, left
  <2> QED  BY <1>1, <2>2, <2>3, <2>4
<1> QED  BY <1>2, <1>3

(* An accepted claim is its claimant's first for the account, and is noted   *)
(* without losing what was noted earlier that day.                           *)
LEMMA AcceptNotes ==
  ASSUME CheckinInv, clock' = clock, NEW p \in Checkin!Claimants, NEW a \in Accounts,
         accepted[<<p, a>>] = 0, Checkin!Accept(p, a)
  PROVE  /\ claimDay' \in Nat /\ claimSent' \subseteq Accounts
         /\ accepted' \in [Checkin!Claimants \X Accounts -> 0..2]
         /\ \A q \in Checkin!Claimants \ {p}, b \in Accounts : accepted'[<<q, b>>] = accepted[<<q, b>>]
         /\ Registered' /\ AcceptedOnce'
<1>1. /\ claimSent \subseteq Accounts /\ accepted \in [Checkin!Claimants \X Accounts -> 0..2]
      /\ Checkin!ClaimDay(clock) \in Nat
      /\ \A q \in Checkin!Claimants, b \in Accounts : accepted[<<q, b>>] <= 1
  BY DaysNat DEF CheckinInv, Checkin!TypeOK, AcceptedOnce
<1>2. accepted' = [accepted EXCEPT ![<<p, a>>] = IF @ < 2 THEN @ + 1 ELSE @]
  BY DEF Checkin!Accept
<1>3. /\ claimDay' = Checkin!ClaimDay(clock) /\ claimSent' \subseteq Accounts /\ a \in claimSent'
      /\ claimDay = Checkin!ClaimDay(clock) => claimSent \subseteq claimSent'
  BY <1>1 DEF Checkin!Accept, Checkin!NoteClaimSent
<1>4. /\ accepted' \in [Checkin!Claimants \X Accounts -> 0..2] /\ accepted'[<<p, a>>] = 1
      /\ \A q \in Checkin!Claimants, b \in Accounts : <<q, b>> # <<p, a>> => accepted'[<<q, b>>] = accepted[<<q, b>>]
  BY <1>1, <1>2
<1>5. Registered'
  <2> SUFFICES ASSUME NEW q \in Checkin!Claimants, NEW b \in Accounts, accepted'[<<q, b>>] # 0
               PROVE  b \in claimSent'
    BY <1>3 DEF Registered, Checkin!ClaimDay
  <2>1. CASE <<q, b>> = <<p, a>>
    BY <1>3, <2>1
  <2>2. CASE <<q, b>> # <<p, a>>
    BY <1>3, <1>4, <2>2 DEF CheckinInv, Registered
  <2> QED  BY <2>1, <2>2
<1>6. AcceptedOnce'
  <2> SUFFICES ASSUME NEW q \in Checkin!Claimants, NEW b \in Accounts PROVE accepted'[<<q, b>>] <= 1
    BY DEF AcceptedOnce
  <2> QED  BY <1>1, <1>4
<1> QED
  BY <1>1, <1>3, <1>4, <1>5, <1>6

(* A step that accepts nothing.                                              *)
LEMMA NothingAccepted ==
  ASSUME CheckinInv, UNCHANGED <<clock, claimDay, claimSent, accepted>>,
         Checkin!TypeOK', FirstClaims'
  PROVE  CheckinInv'
BY DEF CheckinInv, Registered, AcceptedOnce, Checkin!ClaimDay

(* The gate lets a claim through while none has been accepted today.         *)
LEMMA GateOpen ==
  ASSUME CheckinInv, NEW a \in Accounts, Checkin!ClaimGate(a), NEW p \in Checkin!Claimants,
         Checkin!Sets(p, a)
  PROVE  (\A q \in Checkin!Claimants : accepted[<<q, a>>] = 0) /\ early' = early \cup {p}
<1>1. \A q \in Checkin!Claimants : accepted[<<q, a>>] = 0
  BY DEF CheckinInv, Registered, Checkin!ClaimGate, Checkin!ClaimSentToday
<1> QED  BY <1>1 DEF Checkin!Sets, Checkin!NoneToday

LEMMA RunStep ==
  ASSUME CheckinInv, \/ Checkin!RunStarts \/ Checkin!RunClaims \/ Checkin!RunEnds
                     \/ \E a \in Accounts : Checkin!RunLooks(a)
  PROVE  CheckinInv'
<1>1. Checkin!TypeOK /\ "scheduled" \in Checkin!Claimants /\ \A h \in Hands : h # "scheduled" /\ h \in Checkin!Claimants
  BY TraeAccountsAssumption DEF CheckinInv, Checkin!Claimants
<1>2. CASE Checkin!RunStarts
  <2>1. /\ UNCHANGED <<clock, claimDay, claimSent, retry, hand, accepted, early>>
        /\ run'.claims = NoAccount /\ waiting' \subseteq {"daily", "timer"}
        /\ run' \in [on : BOOLEAN, todo : SUBSET Accounts, claims : Accounts \cup {NoAccount}, limited : BOOLEAN]
    BY <1>1, <1>2 DEF Checkin!RunStarts, Checkin!NoRun, Checkin!TypeOK
  <2> QED
    BY <1>1, <2>1, NothingAccepted DEF Checkin!TypeOK, CheckinInv, FirstClaims
<1>3. CASE Checkin!RunEnds
  <2>1. /\ UNCHANGED <<clock, claimDay, claimSent, waiting, hand, accepted, early>>
        /\ run'.claims = NoAccount
        /\ run' \in [on : BOOLEAN, todo : SUBSET Accounts, claims : Accounts \cup {NoAccount}, limited : BOOLEAN]
    BY <1>3 DEF Checkin!RunEnds, Checkin!NoRun
  <2>2. retry' \in [attempt : 0..MaxRetries, day : Nat, timer : BOOLEAN]
    BY <1>1, <1>3, RetryTyped DEF Checkin!RunEnds
  <2> QED
    BY <1>1, <2>1, <2>2, NothingAccepted DEF Checkin!TypeOK, CheckinInv, FirstClaims
<1>4. ASSUME NEW a \in Accounts, Checkin!RunLooks(a) PROVE CheckinInv'
  <2>1. /\ UNCHANGED <<clock, claimDay, claimSent, waiting, retry, hand, accepted>>
        /\ run' \in [on : BOOLEAN, todo : SUBSET Accounts, claims : Accounts \cup {NoAccount}, limited : BOOLEAN]
        /\ \/ run'.claims = NoAccount /\ early' = early
           \/ run'.claims = a /\ Checkin!ClaimGate(a) /\ Checkin!Sets("scheduled", a)
    <3>1. /\ UNCHANGED <<clock, claimDay, claimSent, waiting, retry, hand, accepted>>
          /\ run \in [on : BOOLEAN, todo : SUBSET Accounts, claims : Accounts \cup {NoAccount}, limited : BOOLEAN]
      BY <1>1, <1>4 DEF Checkin!RunLooks, Checkin!TypeOK
    <3>2. PICK answer \in Checkin!StatusAnswers :
            LET claims == answer = "out" /\ Checkin!ClaimGate(a) IN
            /\ run' = [run EXCEPT !.todo = @ \ {a}, !.limited = @ \/ answer = "limited",
                         !.claims = IF claims THEN a ELSE NoAccount]
            /\ IF claims THEN Checkin!Sets("scheduled", a) ELSE UNCHANGED early
      BY <1>4 DEF Checkin!RunLooks
    <3> DEFINE limited == run.limited \/ answer = "limited"
               passes == answer = "out" /\ Checkin!ClaimGate(a)
               claims == IF passes THEN a ELSE NoAccount
    <3>3. run' = [on |-> run.on, todo |-> run.todo \ {a}, claims |-> claims, limited |-> limited]
      BY <3>1, <3>2
    <3>4. /\ limited \in BOOLEAN
          /\ \/ claims = NoAccount /\ early' = early
             \/ claims = a /\ Checkin!ClaimGate(a) /\ Checkin!Sets("scheduled", a)
      BY <3>2
    <3> HIDE DEF limited, claims, passes
    <3> QED  BY <3>1, <3>3, <3>4
  <2>2. early' \subseteq Checkin!Claimants /\ FirstClaims'
    <3>1. CASE run'.claims = NoAccount /\ early' = early
      BY <1>1, <2>1, <3>1 DEF CheckinInv, FirstClaims, Checkin!TypeOK
    <3>2. CASE run'.claims = a /\ Checkin!ClaimGate(a) /\ Checkin!Sets("scheduled", a)
      <4>1. accepted[<<"scheduled", a>>] = 0 /\ early' = early \cup {"scheduled"}
        BY <1>1, <3>2, GateOpen
      <4> QED  BY <1>1, <2>1, <3>2, <4>1 DEF CheckinInv, FirstClaims, Checkin!TypeOK
    <3> QED  BY <2>1, <3>1, <3>2
  <2> QED
    BY <1>1, <2>1, <2>2, NothingAccepted DEF Checkin!TypeOK
<1>5. CASE Checkin!RunClaims
  <2>1. /\ UNCHANGED <<clock, waiting, retry, hand, early>> /\ run.claims \in Accounts
        /\ run' \in [on : BOOLEAN, todo : SUBSET Accounts, claims : Accounts \cup {NoAccount}, limited : BOOLEAN]
        /\ run'.claims = NoAccount /\ accepted[<<"scheduled", run.claims>>] = 0
        /\ Checkin!Accept("scheduled", run.claims) \/ UNCHANGED <<claimDay, claimSent, accepted>>
    BY <1>1, <1>5 DEF Checkin!RunClaims, Checkin!TypeOK, CheckinInv, FirstClaims
  <2>2. CASE UNCHANGED <<claimDay, claimSent, accepted>>
    BY <1>1, <2>1, <2>2, NothingAccepted DEF Checkin!TypeOK, CheckinInv, FirstClaims
  <2>3. CASE Checkin!Accept("scheduled", run.claims)
    <3>1. /\ claimDay' \in Nat /\ claimSent' \subseteq Accounts
          /\ accepted' \in [Checkin!Claimants \X Accounts -> 0..2]
          /\ \A q \in Checkin!Claimants \ {"scheduled"}, b \in Accounts : accepted'[<<q, b>>] = accepted[<<q, b>>]
          /\ Registered' /\ AcceptedOnce'
      BY <1>1, <2>1, <2>3, AcceptNotes
    <3>2. FirstClaims'
      BY <1>1, <2>1, <3>1 DEF CheckinInv, FirstClaims, Checkin!TypeOK
    <3> QED  BY <1>1, <2>1, <3>1, <3>2 DEF CheckinInv, Checkin!TypeOK
  <2> QED  BY <2>1, <2>2, <2>3
<1> QED  BY <1>2, <1>3, <1>4, <1>5

LEMMA HandStep ==
  ASSUME CheckinInv, NEW h \in Hands,
         Checkin!HandClaims(h) \/ \E a \in Accounts : Checkin!HandLooks(h, a)
  PROVE  CheckinInv'
<1>1. /\ Checkin!TypeOK /\ "scheduled" \in Checkin!Claimants
      /\ \A g \in Hands : g # "scheduled" /\ g \in Checkin!Claimants
  BY TraeAccountsAssumption DEF CheckinInv, Checkin!Claimants
<1>2. ASSUME NEW a \in Accounts, Checkin!HandLooks(h, a) PROVE CheckinInv'
  <2>1. /\ UNCHANGED <<clock, claimDay, claimSent, run, waiting, accepted>>
        /\ \/ hand' = hand /\ early' = early
           \/ hand' = [hand EXCEPT ![h] = a] /\ Checkin!ClaimGate(a) /\ Checkin!Sets(h, a)
    BY <1>2 DEF Checkin!HandLooks
  <2>2. retry' \in [attempt : 0..MaxRetries, day : Nat, timer : BOOLEAN]
    BY <1>1, <1>2, RetryTyped DEF Checkin!HandLooks, Checkin!TypeOK
  <2>3. hand' \in [Hands -> Accounts \cup {NoAccount}]
    BY <1>1, <2>1 DEF Checkin!TypeOK
  <2>4. early' \subseteq Checkin!Claimants /\ FirstClaims'
    <3>1. CASE hand' = hand /\ early' = early
      BY <1>1, <2>1, <3>1 DEF CheckinInv, FirstClaims, Checkin!TypeOK
    <3>2. CASE hand' = [hand EXCEPT ![h] = a] /\ Checkin!ClaimGate(a) /\ Checkin!Sets(h, a)
      <4>1. accepted[<<h, a>>] = 0 /\ early' = early \cup {h}
        BY <1>1, <3>2, GateOpen
      <4> QED  BY <1>1, <2>1, <3>2, <4>1 DEF CheckinInv, FirstClaims, Checkin!TypeOK
    <3> QED  BY <2>1, <3>1, <3>2
  <2> QED
    BY <1>1, <2>1, <2>2, <2>3, <2>4, NothingAccepted DEF Checkin!TypeOK
<1>3. CASE Checkin!HandClaims(h)
  <2>1. /\ UNCHANGED <<clock, run, waiting, early>> /\ hand[h] \in Accounts /\ accepted[<<h, hand[h]>>] = 0
        /\ hand' = [hand EXCEPT ![h] = NoAccount] /\ hand' \in [Hands -> Accounts \cup {NoAccount}]
        /\ Checkin!Accept(h, hand[h]) \/ UNCHANGED <<claimDay, claimSent, accepted>>
    BY <1>1, <1>3 DEF Checkin!HandClaims, Checkin!TypeOK, CheckinInv, FirstClaims
  <2>2. retry' \in [attempt : 0..MaxRetries, day : Nat, timer : BOOLEAN]
    BY <1>1, <1>3, RetryTyped DEF Checkin!HandClaims, Checkin!TypeOK
  <2>3. CASE UNCHANGED <<claimDay, claimSent, accepted>>
    <3>1. FirstClaims'
      BY <1>1, <2>1, <2>3 DEF CheckinInv, FirstClaims, Checkin!TypeOK
    <3> QED  BY <1>1, <2>1, <2>2, <2>3, <3>1, NothingAccepted DEF Checkin!TypeOK
  <2>4. CASE Checkin!Accept(h, hand[h])
    <3>1. /\ claimDay' \in Nat /\ claimSent' \subseteq Accounts
          /\ accepted' \in [Checkin!Claimants \X Accounts -> 0..2]
          /\ \A q \in Checkin!Claimants \ {h}, b \in Accounts : accepted'[<<q, b>>] = accepted[<<q, b>>]
          /\ Registered' /\ AcceptedOnce'
      BY <1>1, <2>1, <2>4, AcceptNotes
    <3>2. FirstClaims'
      BY <1>1, <2>1, <3>1 DEF CheckinInv, FirstClaims, Checkin!TypeOK
    <3> QED  BY <1>1, <2>1, <2>2, <3>1, <3>2 DEF CheckinInv, Checkin!TypeOK
  <2> QED  BY <2>1, <2>3, <2>4
<1> QED  BY <1>2, <1>3

LEMMA CheckinStep == CheckinInv /\ Checkin!Next => CheckinInv'
<1> SUFFICES ASSUME CheckinInv, Checkin!Next PROVE CheckinInv'
  OBVIOUS
<1>0. Checkin!TypeOK /\ FirstClaims
  BY DEF CheckinInv
<1>1. CASE Checkin!DailyFires \/ Checkin!TimerFires
  <2>1. UNCHANGED <<clock, claimDay, claimSent, run, hand, accepted, early>>
    BY <1>1 DEF Checkin!DailyFires, Checkin!TimerFires
  <2>2. /\ waiting' \subseteq {"daily", "timer"}
        /\ retry' \in [attempt : 0..MaxRetries, day : Nat, timer : BOOLEAN]
    BY <1>0, <1>1 DEF Checkin!DailyFires, Checkin!TimerFires, Checkin!TypeOK
  <2> QED  BY <1>0, <2>1, <2>2, NothingAccepted DEF Checkin!TypeOK, FirstClaims
<1>2. CASE Checkin!Tick
  <2>1. /\ clock' = clock + 1 /\ clock' \in 0..MaxClock /\ clock \in Nat
        /\ UNCHANGED <<claimDay, claimSent, run, waiting, retry, hand>>
    BY <1>0, <1>2, TraeAccountsAssumption DEF Checkin!Tick, Checkin!TypeOK
  <2>2. CASE Checkin!ClaimDay(clock + 1) = Checkin!ClaimDay(clock)
    <3>1. UNCHANGED <<accepted, early>> /\ Checkin!ClaimDay(clock') = Checkin!ClaimDay(clock)
      BY <1>2, <2>1, <2>2 DEF Checkin!Tick
    <3> QED
      BY <1>0, <2>1, <3>1
      DEF Checkin!TypeOK, CheckinInv, Registered, FirstClaims, AcceptedOnce, Checkin!ClaimDay
  <2>3. CASE Checkin!ClaimDay(clock + 1) # Checkin!ClaimDay(clock)
    <3>1. /\ accepted' = [p \in Checkin!Claimants \X Accounts |-> 0]
          /\ early' = Checkin!Claimants
      BY <1>2, <2>3 DEF Checkin!Tick
    <3>2. \A p \in Checkin!Claimants, a \in Accounts : accepted'[<<p, a>>] = 0
      BY <3>1
    <3>3. accepted' \in [Checkin!Claimants \X Accounts -> 0..2]
      BY <3>1
    <3>4. Registered' /\ AcceptedOnce'
      BY <3>2 DEF Registered, AcceptedOnce
    <3>5. FirstClaims'
      BY <1>0, <2>1, <3>1, <3>2 DEF FirstClaims, Checkin!TypeOK, Checkin!Claimants
    <3> QED  BY <1>0, <2>1, <3>1, <3>3, <3>4, <3>5 DEF Checkin!TypeOK, CheckinInv
  <2> QED  BY <2>2, <2>3
<1> QED  BY <1>1, <1>2, RunStep, HandStep DEF Checkin!Next

(* Whoever claims has looked in time.                                        *)
LEMMA OverlapOnly == CheckinInv => RepeatsOverlap
<1> SUFFICES ASSUME CheckinInv, NEW p \in Checkin!Claimants, Checkin!ClaimOf(p) # NoAccount
             PROVE  p \in early
  BY DEF CheckinInv, AcceptedOnce, RepeatsOverlap, Checkin!RepeatsOverlap
<1> QED  BY DEF CheckinInv, FirstClaims, Checkin!ClaimOf, Checkin!Claimants

-----------------------------------------------------------------------------
(* The credential.  Nothing stored and nothing about to be stored is newer   *)
(* than the pair the upstream renews, so a save that is not older than what  *)
(* it replaces cannot lose the live pair; the pool's copy exists for cn only.*)
NoneNewer ==
    /\ doc.pair <= live
    /\ \A l \in Lanes : lane[l].at = "save" => lane[l].doc.pair <= live

CredentialInv ==
    /\ Credential!TypeOK /\ NoneNewer /\ Credential!PairKept
    /\ family = "cn" => pool \in Credential!Pairs
    /\ \A l \in Lanes : lane[l].by = "scheduler" => family = "cn"

LaneType == [at : {"idle", "exchange", "save"}, doc : Credential!Docs,
             by : Credential!CnRenewers \cup Credential!IntlRenewers \cup {"none", "note", "models"}]

LEMMA CredentialInit == Init => CredentialInv
<1> SUFFICES ASSUME Init PROVE CredentialInv
  OBVIOUS
<1>1. /\ family \in {"cn", "intl"} /\ live = 0 /\ alone = TRUE
      /\ doc = [pair |-> 0, keys |-> "login", cache |-> FALSE, note |-> FALSE]
      /\ pool = IF family = "cn" THEN 0 ELSE NoPair
      /\ lane = [l \in Lanes |-> Credential!Idle]
  BY DEF Init, Credential!Init
<1>2. 0 \in Credential!Pairs
  BY TraeAccountsAssumption DEF Credential!Pairs
<1>3. doc \in Credential!Docs /\ Credential!Idle \in LaneType
  BY <1>1, <1>2 DEF Credential!Docs, Credential!Keys, Credential!Idle, LaneType
<1>4. Credential!TypeOK
  BY <1>1, <1>2, <1>3 DEF Credential!TypeOK, LaneType
<1> QED
  BY <1>1, <1>2, <1>4 DEF CredentialInv, NoneNewer, Credential!PairKept, Credential!Idle

(* Each draft is a document with the new pair, whichever way it is built.    *)
LEMMA DraftTyped ==
  ASSUME NEW d \in Credential!Docs, NEW pair \in Credential!Pairs, NEW by
  PROVE  /\ Credential!Draft(by, d, pair) \in Credential!Docs
         /\ Credential!Draft(by, d, pair).pair = pair
<1>1. /\ Credential!mergeAuthStorage(d, pair) \in Credential!Docs
      /\ Credential!mergeAuthStorage(d, pair).pair = pair
  BY DEF Credential!mergeAuthStorage, Credential!Docs
<1>2. \A keys \in Credential!Keys : /\ Credential!Rebuilt(pair, keys) \in Credential!Docs
                                    /\ Credential!Rebuilt(pair, keys).pair = pair
  BY DEF Credential!Rebuilt, Credential!Docs
<1>3. "minted" \in Credential!Keys /\ "none" \in Credential!Keys /\ d.keys \in Credential!Keys
  BY DEF Credential!Keys, Credential!Docs
<1> QED
  BY <1>1, <1>2, <1>3
  DEF Credential!Draft, Credential!storageJSONForAuth, Credential!handleRefreshAuth,
      Credential!persistRefreshedAuth, Credential!intlhandleRefreshAuth,
      Credential!intlpersistRefreshedAuthTo

(* What a save stores is a document with the draft's pair.                   *)
LEMMA StoredTyped ==
  ASSUME NEW d \in Credential!Docs, NEW by, doc \in Credential!Docs
  PROVE  Credential!Stored(by, d) \in Credential!Docs /\ Credential!Stored(by, d).pair = d.pair
BY DEF Credential!Stored, Credential!preservePluginDocKeys, Credential!Docs

(* A step of one call that leaves the stored document and the live pair.     *)
LEMMA LaneMoves ==
  ASSUME CredentialInv, NEW l \in Lanes, NEW e \in LaneType, lane' = [lane EXCEPT ![l] = e],
         UNCHANGED <<family, doc, live, pool, alone>>, lane[l].at # "save",
         e.at = "save" => e.doc.pair <= live, e.by = "scheduler" => family = "cn"
  PROVE  CredentialInv'
<1>1. lane' \in [Lanes -> LaneType] /\ lane'[l] = e /\ \A k \in Lanes \ {l} : lane'[k] = lane[k]
  BY DEF CredentialInv, Credential!TypeOK, LaneType
<1>2. Credential!TypeOK' /\ NoneNewer'
  BY <1>1 DEF CredentialInv, Credential!TypeOK, NoneNewer, LaneType, Credential!Docs,
              Credential!Pairs, Credential!Keys
<1>3. Credential!PairKept'
  BY <1>1 DEF CredentialInv, Credential!PairKept, Credential!Held
<1> QED
  BY <1>1, <1>2, <1>3 DEF CredentialInv, Credential!Pairs

LEMMA BeginsStep ==
  ASSUME CredentialInv, NEW l \in Lanes,
         \/ \E by \in Credential!Renewers : Credential!Begins(l, by)
         \/ \E by \in {"note", "models"} : Credential!Merges(l, by)
         \/ Credential!Refused(l)
  PROVE  CredentialInv'
<1>1. doc \in Credential!Docs /\ doc.pair <= live /\ (family = "cn" => pool \in Credential!Pairs)
  BY DEF CredentialInv, NoneNewer, Credential!TypeOK
<1>2. Credential!Idle \in LaneType /\ Credential!Idle.at = "idle" /\ Credential!Idle.by = "none"
  BY TraeAccountsAssumption
  DEF Credential!Idle, LaneType, Credential!Docs, Credential!Keys, Credential!Pairs
<1>3. ASSUME NEW by \in Credential!Renewers, Credential!Begins(l, by) PROVE CredentialInv'
  <2> DEFINE d == IF by = "scheduler" THEN [doc EXCEPT !.pair = pool] ELSE doc
             e == [by |-> by, at |-> "exchange", doc |-> d]
  <2>1. by = "scheduler" => family = "cn"
    BY DEF Credential!Renewers, Credential!IntlRenewers
  <2>2. d \in Credential!Docs
    BY <1>1, <2>1 DEF Credential!Docs
  <2>3. /\ lane' = [lane EXCEPT ![l] = e] /\ lane[l] = Credential!Idle
        /\ UNCHANGED <<family, doc, live, pool, alone>>
    BY <1>3 DEF Credential!Begins
  <2> HIDE DEF d
  <2>4. e \in LaneType /\ e.at = "exchange" /\ e.by = by
    BY <2>2 DEF LaneType, Credential!Renewers
  <2> HIDE DEF e
  <2> QED  BY <1>2, <2>1, <2>3, <2>4, LaneMoves
<1>4. ASSUME NEW by \in {"note", "models"}, Credential!Merges(l, by) PROVE CredentialInv'
  <2> DEFINE d == IF by = "note" THEN Credential!noteInto(doc) ELSE Credential!modelsInto(doc)
             e == [by |-> by, at |-> "save", doc |-> d]
  <2>1. d \in Credential!Docs /\ d.pair = doc.pair
    BY <1>1 DEF Credential!noteInto, Credential!modelsInto, Credential!Docs
  <2>2. /\ lane' = [lane EXCEPT ![l] = e] /\ lane[l] = Credential!Idle
        /\ UNCHANGED <<family, doc, live, pool, alone>>
    BY <1>4 DEF Credential!Merges
  <2> HIDE DEF d
  <2>3. e \in LaneType /\ e.by # "scheduler" /\ e.doc.pair <= live
    BY <1>1, <2>1 DEF LaneType
  <2> HIDE DEF e
  <2> QED  BY <1>2, <2>2, <2>3, LaneMoves
<1>5. CASE Credential!Refused(l)
  <2>1. /\ lane' = [lane EXCEPT ![l] = Credential!Idle] /\ lane[l].at = "exchange"
        /\ UNCHANGED <<family, doc, live, pool, alone>>
    BY <1>5 DEF Credential!Refused, Credential!Ends
  <2> QED  BY <1>2, <2>1, LaneMoves
<1> QED  BY <1>3, <1>4, <1>5

(* The one exchange of a live refresh token: the caller that gets the answer *)
(* and keeps it holds the new pair until its save.                           *)
LEMMA RenewsStep ==
  ASSUME CredentialInv, NEW l \in Lanes, Credential!Renews(l)
  PROVE  CredentialInv'
<1>1. /\ lane \in [Lanes -> LaneType] /\ doc \in Credential!Docs /\ doc.pair <= live
      /\ family \in {"cn", "intl"} /\ live \in Credential!Pairs
      /\ (family = "cn" => pool \in Credential!Pairs) /\ (family = "intl" => pool = NoPair)
      /\ \A k \in Lanes : /\ lane[k].at = "save" => lane[k].doc.pair <= live
                          /\ lane[k].by = "scheduler" => family = "cn"
  BY DEF CredentialInv, NoneNewer, Credential!TypeOK, LaneType
<1>2. /\ live' = live + 1 /\ live' \in Credential!Pairs /\ UNCHANGED <<family, doc>>
      /\ doc.pair \in Nat /\ live \in Nat /\ lane[l].at = "exchange"
  BY <1>1, TraeAccountsAssumption
  DEF Credential!Renews, Credential!boundExchange, Credential!Pairs, Credential!Docs
<1>3. \A k \in Lanes : lane[k].doc.pair \in Nat
  BY <1>1 DEF LaneType, Credential!Docs, Credential!Pairs
<1>4. Credential!Idle \in LaneType /\ Credential!Idle.at = "idle" /\ Credential!Idle.by = "none"
  BY TraeAccountsAssumption
  DEF Credential!Idle, LaneType, Credential!Docs, Credential!Keys, Credential!Pairs
<1>5. CASE Credential!Drafts(l, live + 1)
  <2> DEFINE d == Credential!Draft(lane[l].by, lane[l].doc, live + 1)
             e == [by |-> lane[l].by, at |-> "save", doc |-> d]
  <2>1. d \in Credential!Docs /\ d.pair = live + 1
    BY <1>1, <1>2, DraftTyped DEF LaneType
  <2>2. UNCHANGED <<pool, alone>> /\ lane[l].by # "scheduler"
    BY <1>5 DEF Credential!Drafts
  <2>3. lane' = [lane EXCEPT ![l] = e]
    <3>1. lane[l] = [by |-> lane[l].by, at |-> lane[l].at, doc |-> lane[l].doc]
      BY <1>1 DEF LaneType
    <3>2. lane' = [lane EXCEPT ![l] = [[lane[l] EXCEPT !.at = "save"] EXCEPT !.doc = d]]
      BY <1>1, <1>5 DEF Credential!Drafts
    <3>3. [[lane[l] EXCEPT !.at = "save"] EXCEPT !.doc = d] = e
      <4> DEFINE r == [lane[l] EXCEPT !.at = "save"]
      <4>1. r = [by |-> lane[l].by, at |-> "save", doc |-> lane[l].doc]
        BY <3>1
      <4> HIDE DEF r, d
      <4>2. [r EXCEPT !.doc = d] = e
        BY <4>1
      <4> QED  BY <4>2 DEF r
    <3> QED  BY <3>2, <3>3
  <2> HIDE DEF d
  <2>4. e \in LaneType /\ e.by = lane[l].by /\ e.at = "save" /\ e.doc.pair = live + 1
    BY <1>1, <2>1 DEF LaneType
  <2> HIDE DEF e
  <2>5. lane' \in [Lanes -> LaneType] /\ lane'[l] = e /\ \A k \in Lanes \ {l} : lane'[k] = lane[k]
    BY <1>1, <2>3, <2>4
  <2>6. NoneNewer'
    BY <1>1, <1>2, <1>3, <2>4, <2>5 DEF NoneNewer
  <2>7. Credential!PairKept'
    BY <1>2, <2>4, <2>5 DEF Credential!PairKept, Credential!Held
  <2>8. Credential!TypeOK'
    BY <1>1, <1>2, <2>2, <2>5
    DEF CredentialInv, Credential!TypeOK, LaneType, Credential!Docs, Credential!Pairs, Credential!Keys
  <2> QED
    BY <1>1, <1>2, <2>2, <2>4, <2>5, <2>6, <2>7, <2>8 DEF CredentialInv, Credential!Pairs
<1>6. ASSUME Credential!Ends(l), alone' = FALSE, pool' = pool \/ (family = "cn" /\ pool' = live + 1)
      PROVE  CredentialInv'
  <2>1. lane' \in [Lanes -> LaneType] /\ lane'[l] = Credential!Idle /\ \A k \in Lanes \ {l} : lane'[k] = lane[k]
    BY <1>1, <1>4, <1>6 DEF Credential!Ends
  <2>2. NoneNewer'
    BY <1>1, <1>2, <1>3, <1>4, <2>1 DEF NoneNewer
  <2>3. Credential!TypeOK'
    BY <1>1, <1>2, <1>6, <2>1
    DEF Credential!TypeOK, LaneType, Credential!Docs, Credential!Pairs, Credential!Keys
  <2> QED
    BY <1>1, <1>2, <1>4, <1>6, <2>1, <2>2, <2>3 DEF CredentialInv, Credential!PairKept,
       Credential!Pairs
<1> QED
  BY <1>1, <1>2, <1>5, <1>6
  DEF Credential!Renews, Credential!PanelDrops, Credential!SchedulerKeeps, Credential!AnswerLost

LEMMA SavesStep ==
  ASSUME CredentialInv, NEW l \in Lanes, Credential!Saves(l)
  PROVE  CredentialInv'
<1> DEFINE d == lane[l].doc
           s == Credential!Stored(lane[l].by, d)
<1>1. /\ lane \in [Lanes -> LaneType] /\ doc \in Credential!Docs /\ doc.pair <= live
      /\ d \in Credential!Docs /\ lane[l].at = "save" /\ d.pair <= live
      /\ d.pair \in Nat /\ doc.pair \in Nat /\ live \in Nat
      /\ UNCHANGED <<family, live, pool>>
  BY DEF CredentialInv, NoneNewer, Credential!TypeOK, LaneType, Credential!Saves, Credential!Docs,
         Credential!Pairs
<1>2. s \in Credential!Docs /\ s.pair = d.pair
  BY <1>1, StoredTyped
<1>3. /\ Credential!Idle \in LaneType /\ Credential!Idle.at = "idle" /\ Credential!Idle.by = "none"
      /\ lane' = [lane EXCEPT ![l] = Credential!Idle]
  BY TraeAccountsAssumption
  DEF Credential!Idle, LaneType, Credential!Docs, Credential!Keys, Credential!Pairs,
      Credential!Saves, Credential!Ends
<1>4. lane' \in [Lanes -> LaneType] /\ lane'[l] = Credential!Idle /\ \A k \in Lanes \ {l} : lane'[k] = lane[k]
  BY <1>1, <1>3
<1>5. \/ doc' = s /\ alone' = (alone /\ d.pair >= doc.pair)
      \/ doc' = doc /\ alone' = (alone /\ d.pair <= doc.pair)
  BY DEF Credential!Saves
<1> HIDE DEF d, s
<1>6. doc' \in Credential!Docs /\ doc'.pair <= live /\ alone' \in BOOLEAN
  BY <1>1, <1>2, <1>5
<1>7. Credential!TypeOK'
  BY <1>1, <1>4, <1>6
  DEF CredentialInv, Credential!TypeOK, LaneType, Credential!Docs, Credential!Pairs, Credential!Keys
<1>8. NoneNewer'
  BY <1>1, <1>3, <1>4, <1>6 DEF CredentialInv, NoneNewer
<1>9. Credential!PairKept'
  <2> SUFFICES ASSUME alone' PROVE doc'.pair = live' \/ \E k \in Lanes : Credential!Held(k)'
    BY DEF Credential!PairKept
  <2>1. alone /\ (doc.pair = live \/ \E k \in Lanes : Credential!Held(k))
    BY <1>5 DEF CredentialInv, Credential!PairKept
  <2>0. \/ doc' = s /\ d.pair >= doc.pair
        \/ doc' = doc /\ d.pair <= doc.pair
    BY <1>5, Zenon
  <2>2. CASE \E k \in Lanes \ {l} : Credential!Held(k)
    BY <1>1, <1>4, <2>2 DEF Credential!Held
  <2>3. CASE Credential!Held(l)
    <3>1. d.pair = live
      BY <2>3 DEF Credential!Held, d
    <3> QED  BY <1>1, <1>2, <2>0, <3>1
  <2>4. CASE doc.pair = live
    BY <1>1, <1>2, <2>0, <2>4
  <2> QED  BY <2>1, <2>2, <2>3, <2>4
<1> QED
  BY <1>1, <1>3, <1>4, <1>7, <1>8, <1>9 DEF CredentialInv, Credential!Pairs

LEMMA CredentialStep == CredentialInv /\ Credential!Next => CredentialInv'
<1> SUFFICES ASSUME CredentialInv, Credential!Next PROVE CredentialInv'
  OBVIOUS
<1>1. CASE Credential!Parse
  <2>1. /\ family = "cn" /\ pool' = doc.pair /\ UNCHANGED <<family, doc, live, lane, alone>>
        /\ doc.pair \in Credential!Pairs
    BY <1>1 DEF Credential!Parse, CredentialInv, Credential!TypeOK, Credential!Docs
  <2> QED
    BY <2>1 DEF CredentialInv, Credential!TypeOK, NoneNewer, Credential!PairKept, Credential!Held,
                Credential!Pairs, Credential!Docs, Credential!Keys
<1>2. CASE Credential!Login
  <2>1. /\ live' = live + 1 /\ live' \in Credential!Pairs /\ live \in Nat
        /\ doc' = [pair |-> live + 1, keys |-> "login", cache |-> FALSE, note |-> FALSE]
        /\ pool' = IF family = "cn" THEN live + 1 ELSE pool
        /\ alone' \in BOOLEAN /\ UNCHANGED <<family, lane>>
    BY <1>2, TraeAccountsAssumption DEF Credential!Login, CredentialInv, Credential!TypeOK,
       Credential!Pairs
  <2>2. doc' \in Credential!Docs /\ doc'.pair = live'
    BY <2>1 DEF Credential!Docs, Credential!Keys
  <2>3. \A k \in Lanes : lane[k].doc.pair \in Nat
    BY DEF CredentialInv, Credential!TypeOK, Credential!Docs, Credential!Pairs
  <2>4. NoneNewer'
    BY <2>1, <2>2, <2>3 DEF CredentialInv, NoneNewer
  <2>5. Credential!TypeOK'
    BY <2>1, <2>2 DEF CredentialInv, Credential!TypeOK, Credential!Pairs, Credential!Docs,
       Credential!Keys
  <2> QED
    BY <2>1, <2>2, <2>4, <2>5 DEF CredentialInv, Credential!PairKept, Credential!Pairs
<1> QED  BY <1>1, <1>2, BeginsStep, RenewsStep, SavesStep DEF Credential!Next

(* A stored catalog goes with a login or with the host's own save only.      *)
LEMMA CatalogStep == CredentialInv /\ Credential!Next => Credential!CatalogStays
<1> SUFFICES ASSUME CredentialInv, Credential!Next, doc.cache, ~doc'.cache
             PROVE  Credential!Login \/ \E l \in Lanes : lane[l].by = "refresh" /\ Credential!Saves(l)
  BY DEF Credential!CatalogStays
<1>1. doc' # doc
  OBVIOUS
<1>2. Credential!Login \/ \E l \in Lanes : Credential!Saves(l)
  BY <1>1 DEF Credential!Next, Credential!Begins, Credential!Merges, Credential!Renews,
              Credential!Refused, Credential!Parse
<1>3. ASSUME NEW l \in Lanes, Credential!Saves(l), lane[l].by # "refresh" PROVE FALSE
  <2>1. doc' = Credential!preservePluginDocKeys(lane[l].doc)
    BY <1>1, <1>3 DEF Credential!Saves, Credential!Stored
  <2>2. lane[l].doc \in Credential!Docs
    BY DEF CredentialInv, Credential!TypeOK
  <2>3. doc'.cache = (lane[l].doc.cache \/ doc.cache)
    BY <2>1, <2>2 DEF Credential!preservePluginDocKeys, Credential!Docs
  <2> QED  BY <2>3
<1> QED  BY <1>2, <1>3

-----------------------------------------------------------------------------
(* The pool, where a local day lasts 24 h.  (On a day of 25 h the theorem is *)
(* false, which TLC finds with DaySpans = {DayLen + 1}.)  Each pool method   *)
(* keeps an entry well ended, and the midnight that ends a freeze is the     *)
(* tick that would otherwise leave it stale.                                 *)

\* The calendar the freezes are measured against.
Calendar == now < tomorrow /\ tomorrow = today + DayLen

PoolInv == Pool!TypeOK /\ Calendar /\ Pool!FreezeEndsAtMidnight

\* Whatever a pool method does to an entry leaves a well-formed entry, and
\* one that cools for exhaustion does so to the coming midnight.
WellEnded(e) ==
  e \in Pool!Entry /\ (e.until > now /\ e.reason \in Pool!MidnightReasons => e.until = tomorrow)

LEMMA MethodsKeepEntries ==
  ASSUME now \in Nat, today \in Nat, Calendar, NEW e, WellEnded(e)
  PROVE  /\ WellEnded(Pool!Cooldown(e, Pool!NextMidnight, "chat"))
         /\ WellEnded(Pool!Cooldown(e, Pool!NextMidnight, "scan"))
         /\ WellEnded(Pool!Cooldown(e, Pool!NextMidnight, "panel"))
         /\ WellEnded(Pool!Cooldown(e, now + SoftTTL, "soft"))
         /\ WellEnded(Pool!Disable(e))
         /\ WellEnded(Pool!Release(e))
         /\ \A some \in BOOLEAN : WellEnded(Pool!ReenableIfCredits(e, some))
         /\ WellEnded(Pool!NoteError(e, now + ErrorTTL))
         /\ WellEnded(Pool!NoteSuccess(e))
<1>1. ASSUME NEW end \in Nat, NEW reason \in Pool!Reasons
      PROVE  /\ Pool!Cooldown(e, end, reason) \in Pool!Entry
             /\ Pool!Cooldown(e, end, reason).until = end
             /\ Pool!Cooldown(e, end, reason).reason = reason
  <2>1. 0 \in 0 .. Threshold - 1
    BY TraeAccountsAssumption
  <2> QED  BY <2>1 DEF Pool!Cooldown, WellEnded, Pool!Entry
<1>2. ASSUME NEW end \in Nat, NEW reason \in {"soft", "errors", "none"}
      PROVE  WellEnded(Pool!Cooldown(e, end, reason))
  <2>1. reason \in Pool!Reasons /\ reason \notin Pool!MidnightReasons
    BY DEF Pool!Reasons, Pool!MidnightReasons, Pool!FreezeReasons
  <2> QED  BY <1>1, <2>1 DEF WellEnded
<1>3. ASSUME NEW reason \in Pool!MidnightReasons
      PROVE  WellEnded(Pool!Cooldown(e, Pool!NextMidnight, reason))
  <2>1. Pool!NextMidnight \in Nat /\ Pool!NextMidnight = tomorrow
    BY TraeAccountsAssumption DEF Pool!NextMidnight, Calendar
  <2>2. reason \in Pool!Reasons
    BY DEF Pool!Reasons
  <2> QED  BY <1>1, <2>1, <2>2 DEF WellEnded
<1>4. WellEnded(Pool!Cooldown(e, now + SoftTTL, "soft"))
  BY <1>2, TraeAccountsAssumption
<1>5. WellEnded(Pool!Disable(e))
  <2>1. "dead" \in Pool!Reasons /\ "dead" \notin Pool!MidnightReasons
    BY DEF Pool!Reasons, Pool!MidnightReasons, Pool!FreezeReasons
  <2> QED  BY <2>1 DEF Pool!Disable, WellEnded, Pool!Entry
<1>6. WellEnded(Pool!Release(e))
  BY <1>2 DEF Pool!Release, Pool!Cooldown
<1>7. WellEnded(Pool!NoteSuccess(e))
  BY TraeAccountsAssumption DEF Pool!NoteSuccess, WellEnded, Pool!Entry
<1>8. WellEnded(Pool!NoteError(e, now + ErrorTTL))
  <2>1. CASE e.errs + 1 >= Threshold
    BY <1>2, <2>1, TraeAccountsAssumption DEF Pool!NoteError
  <2>2. CASE ~ (e.errs + 1 >= Threshold)
    BY <2>2, TraeAccountsAssumption DEF Pool!NoteError, WellEnded, Pool!Entry
  <2> QED  BY <2>1, <2>2
<1>9. \A some \in BOOLEAN : WellEnded(Pool!ReenableIfCredits(e, some))
  BY <1>6 DEF Pool!ReenableIfCredits
<1>10. {"chat", "scan", "panel"} \subseteq Pool!MidnightReasons
  BY DEF Pool!MidnightReasons, Pool!FreezeReasons
<1> QED  BY <1>3, <1>4, <1>5, <1>6, <1>7, <1>8, <1>9, <1>10

\* The same for the verdict of a chat call.
LEMMA VerdictsKeepEntries ==
  ASSUME now \in Nat, today \in Nat, Calendar, NEW e, WellEnded(e),
         NEW kind \in Pool!Verdicts
  PROVE  WellEnded(Pool!ApplyCooldown(e, kind))
<1>1. CASE kind = "plan"
  BY <1>1, MethodsKeepEntries DEF Pool!ApplyCooldown
<1>2. CASE kind = "soft"
  BY <1>2, MethodsKeepEntries DEF Pool!ApplyCooldown
<1>3. CASE kind = "dead"
  BY <1>3, MethodsKeepEntries DEF Pool!ApplyCooldown
<1>4. CASE kind = "error"
  BY <1>4, MethodsKeepEntries DEF Pool!ApplyCooldown
<1>5. CASE kind = "request"
  BY <1>5 DEF Pool!ApplyCooldown
<1> QED  BY <1>1, <1>2, <1>3, <1>4, <1>5 DEF Pool!Verdicts

\* One step of the pool, method by method.
LEMMA PoolInductive ==
  ASSUME DaySpans = {DayLen}
  PROVE  (Pool!Init => PoolInv) /\ (PoolInv /\ [Pool!Next]_Pool!vars => PoolInv')
<1> USE TraeAccountsAssumption
<1>1. Pool!Init => PoolInv
  BY DEF Pool!Init, PoolInv, Pool!TypeOK, Calendar, Pool!FreezeEndsAtMidnight, Pool!Cooling,
     Pool!Fresh, Pool!AtRest,
         Pool!NoJob, Pool!Entry, Pool!Reasons, Pool!MidnightReasons, Pool!FreezeReasons, Pool!Request, Pool!Job
<1>2. PoolInv /\ [Pool!Next]_Pool!vars => PoolInv'
  <2> SUFFICES ASSUME PoolInv, [Pool!Next]_Pool!vars PROVE PoolInv'
    OBVIOUS
  <2>0. /\ now \in Nat /\ today \in Nat /\ tomorrow \in Nat /\ Calendar
        /\ \A u \in Uids : WellEnded(entries[u])
    BY DEF PoolInv, Pool!TypeOK, Pool!FreezeEndsAtMidnight, Pool!Cooling, WellEnded
  \* A step that touches one entry through a pool method.
  <2>1. ASSUME NEW u \in Uids, NEW e, WellEnded(e), entries' = [entries EXCEPT ![u] = e],
               UNCHANGED Pool!time
        PROVE  /\ entries' \in [Uids -> Pool!Entry]
               /\ Calendar' /\ Pool!FreezeEndsAtMidnight'
    BY <2>0, <2>1 DEF PoolInv, Pool!TypeOK, Pool!time, Calendar, Pool!FreezeEndsAtMidnight,
       Pool!Cooling, WellEnded
  <2>2. ASSUME UNCHANGED <<Pool!time, entries>>
        PROVE  entries' \in [Uids -> Pool!Entry] /\ Calendar' /\ Pool!FreezeEndsAtMidnight'
    BY <2>2 DEF PoolInv, Pool!TypeOK, Pool!time, Calendar, Pool!FreezeEndsAtMidnight, Pool!Cooling
  <2>3. ASSUME NEW r \in Requests, Pool!Executor(r) PROVE PoolInv'
    <3> USE DEF PoolInv, Pool!TypeOK, Pool!time, Pool!Request, Pool!AtRest
    <3>1. ASSUME NEW u \in Uids, Pool!Arrive(r, u) PROVE PoolInv'
      BY <2>2, <3>1 DEF Pool!Arrive
    <3>2. ASSUME NEW answer \in {"some", "zero", "unknown"}, Pool!Probe(r, answer) PROVE PoolInv'
      BY <2>2, <3>2 DEF Pool!Probe
    <3>3. CASE Pool!ProbeThaws(r)
      <4>1. req[r].uid \in Uids
        BY <3>3 DEF Pool!ProbeThaws
      <4>2. WellEnded(Pool!ReenableIfCredits(entries[req[r].uid], TRUE))
        BY <2>0, <4>1, MethodsKeepEntries
      <4> QED  BY <2>1, <3>3, <4>1, <4>2 DEF Pool!ProbeThaws
    <3>4. CASE Pool!NoVerdict(r) \/ Pool!StreamOpens(r) \/ Pool!StreamDropped(r)
      <4>1. CASE Pool!NoVerdict(r)
        BY <2>2, <4>1 DEF Pool!NoVerdict
      <4>2. CASE Pool!StreamOpens(r)
        BY <2>2, <4>2 DEF Pool!StreamOpens
      <4>3. CASE Pool!StreamDropped(r)
        BY <2>2, <4>3 DEF Pool!StreamDropped
      <4> QED  BY <3>4, <4>1, <4>2, <4>3
    <3>5. ASSUME NEW kind \in Pool!Verdicts, Pool!Refused(r, kind) \/ Pool!StreamFaults(r, kind) PROVE PoolInv'
      <4>1. req[r].uid \in Uids
        BY <3>5 DEF Pool!Refused, Pool!StreamFaults
      <4>2. WellEnded(Pool!ApplyCooldown(entries[req[r].uid], kind))
        BY <2>0, <4>1, VerdictsKeepEntries
      <4>3. CASE Pool!Refused(r, kind)
        BY <2>1, <4>1, <4>2, <4>3 DEF Pool!Refused
      <4>4. CASE Pool!StreamFaults(r, kind)
        BY <2>1, <4>1, <4>2, <4>4 DEF Pool!StreamFaults
      <4> QED  BY <3>5, <4>3, <4>4
    <3>6. CASE Pool!StreamEnds(r)
      <4>1. req[r].uid \in Uids
        BY <3>6 DEF Pool!StreamEnds
      <4>2. WellEnded(Pool!NoteSuccess(entries[req[r].uid]))
        BY <2>0, <4>1, MethodsKeepEntries
      <4> QED  BY <2>1, <2>2, <3>6, <4>1, <4>2 DEF Pool!StreamEnds
    <3> HIDE DEF PoolInv, Pool!TypeOK
    <3> QED  BY <2>3, <3>1, <3>2, <3>3, <3>4, <3>5, <3>6 DEF Pool!Executor
  <2>4. CASE Pool!Scheduler
    <3> USE DEF PoolInv, Pool!TypeOK, Pool!time, Pool!Job, Pool!NoJob
    <3>1. ASSUME NEW u \in Uids, Pool!ScanStart(u) PROVE PoolInv'
      BY <2>2, <3>1 DEF Pool!ScanStart
    <3>2. ASSUME NEW u \in Uids, Pool!RefreshFindsDead(u) PROVE PoolInv'
      <4>1. WellEnded(Pool!Disable(entries[u]))
        BY <2>0, MethodsKeepEntries
      <4> QED  BY <2>1, <3>2, <4>1 DEF Pool!RefreshFindsDead
    <3>3. CASE Pool!ScanFails
      BY <2>2, <3>3 DEF Pool!ScanFails
    <3>4. ASSUME NEW answer \in {"some", "zero", "unknown"}, Pool!ScanReads(answer) PROVE PoolInv'
      BY <2>2, <3>4 DEF Pool!ScanReads
    <3>5. CASE Pool!ScanStores
      <4>1. scan.uid \in Uids
        BY <3>5 DEF Pool!ScanStores
      <4>2. WellEnded(Pool!ReenableIfCredits(entries[scan.uid], scan.answer = "some"))
        BY <2>0, <4>1, MethodsKeepEntries
      <4> QED  BY <2>1, <3>5, <4>1, <4>2 DEF Pool!ScanStores
    <3>6. CASE Pool!ScanCools
      <4>1. scan.uid \in Uids
        BY <3>6 DEF Pool!ScanCools
      <4>2. WellEnded(Pool!Cooldown(entries[scan.uid], Pool!NextMidnight, "scan"))
        BY <2>0, <4>1, MethodsKeepEntries
      <4> QED  BY <2>1, <3>6, <4>1, <4>2 DEF Pool!ScanCools
    <3> HIDE DEF PoolInv, Pool!TypeOK
    <3> QED  BY <2>4, <3>1, <3>2, <3>3, <3>4, <3>5, <3>6 DEF Pool!Scheduler
  <2>5. CASE Pool!Panel
    <3> USE DEF PoolInv, Pool!TypeOK, Pool!time, Pool!Job, Pool!NoJob
    <3>1. ASSUME NEW u \in Uids, NEW answer \in {"some", "zero", "unknown"},
                 Pool!PanelReads(u, answer) PROVE PoolInv'
      BY <2>2, <3>1 DEF Pool!PanelReads
    <3>2. CASE Pool!PanelStores
      BY <2>2, <3>2 DEF Pool!PanelStores
    <3>3. CASE Pool!PanelCools
      <4>1. panel.uid \in Uids
        BY <3>3 DEF Pool!PanelCools
      <4>2. WellEnded(Pool!Cooldown(entries[panel.uid], Pool!NextMidnight, "panel"))
        BY <2>0, <4>1, MethodsKeepEntries
      <4> QED  BY <2>1, <3>3, <4>1, <4>2 DEF Pool!PanelCools
    <3>4. ASSUME NEW u \in Uids, NEW claimed \in BOOLEAN, Pool!ManualCheckin(u, claimed)
          PROVE  PoolInv'
      <4>1. WellEnded(Pool!ReenableIfCredits(entries[u], cached[u]))
        BY <2>0, MethodsKeepEntries
      <4> QED  BY <2>1, <3>4, <4>1 DEF Pool!ManualCheckin
    <3>5. ASSUME NEW u \in Uids, Pool!ManualRelease(u) PROVE PoolInv'
      <4>1. WellEnded(Pool!Release(entries[u]))
        BY <2>0, MethodsKeepEntries
      <4> QED  BY <2>1, <3>5, <4>1 DEF Pool!ManualRelease
    <3>6. ASSUME NEW u \in Uids, Pool!ReLogin(u) PROVE PoolInv'
      BY <2>2, <3>6 DEF Pool!ReLogin
    <3> HIDE DEF PoolInv, Pool!TypeOK
    <3> QED  BY <2>5, <3>1, <3>2, <3>3, <3>4, <3>5, <3>6 DEF Pool!Panel
  <2>6. ASSUME NEW u \in Uids, Pool!SessionDies(u) \/ Pool!Upstream(u) PROVE PoolInv'
    BY <2>2, <2>6 DEF PoolInv, Pool!TypeOK, Pool!time, Pool!SessionDies, Pool!Upstream
  <2>7. CASE Pool!Tick
    <3>1. DayLen \in Nat \ {0} /\ tomorrow = today + DayLen /\ now + 1 <= tomorrow
      BY <2>0 DEF Calendar
    <3>2. now' = now + 1 /\ entries' = entries
      BY <2>7 DEF Pool!Tick
    <3>3. CASE now' = tomorrow
      <4>1. today' = tomorrow /\ tomorrow' = tomorrow + DayLen
        BY <2>7, <3>3 DEF Pool!Tick
      <4>2. Pool!FreezeEndsAtMidnight'
        BY <2>0, <3>2, <3>3 DEF Pool!FreezeEndsAtMidnight, Pool!Cooling, WellEnded, Pool!Entry
      <4> QED  BY <2>0, <2>7, <3>1, <3>3, <4>1, <4>2 DEF Pool!Tick, PoolInv, Pool!TypeOK, Calendar
    <3>4. CASE now' # tomorrow
      <4>1. today' = today /\ tomorrow' = tomorrow
        BY <2>7, <3>4 DEF Pool!Tick
      <4>2. Pool!FreezeEndsAtMidnight'
        BY <2>0, <3>2, <4>1 DEF Pool!FreezeEndsAtMidnight, Pool!Cooling, WellEnded, Pool!Entry
      <4> QED  BY <2>0, <2>7, <3>1, <3>2, <3>4, <4>1, <4>2 DEF Pool!Tick, PoolInv, Pool!TypeOK,
             Calendar
    <3> QED  BY <3>3, <3>4
  <2>8. CASE UNCHANGED Pool!vars
    BY <2>2, <2>8 DEF PoolInv, Pool!TypeOK, Pool!vars, Pool!time
  <2> QED  BY <2>3, <2>4, <2>5, <2>6, <2>7, <2>8 DEF Pool!Next
<1> QED  BY <1>1, <1>2

-----------------------------------------------------------------------------
Inv == LoginInv /\ CheckinInv /\ CredentialInv

(* A step of one part, seen from another: its variables are unchanged.       *)
LEMMA PartsApart ==
  /\ LoginInv /\ UNCHANGED loginVars => LoginInv'
  /\ CheckinInv /\ UNCHANGED checkinVars => CheckinInv'
  /\ CredentialInv /\ UNCHANGED credentialVars => CredentialInv'
<1>1. LoginInv /\ UNCHANGED loginVars => LoginInv'
  BY DEF LoginInv, loginVars, Login!TypeOK, Newest
<1>2. CheckinInv /\ UNCHANGED checkinVars => CheckinInv'
  BY DEF CheckinInv, checkinVars, Checkin!TypeOK, Registered, FirstClaims, AcceptedOnce, Checkin!ClaimDay
<1>3. CredentialInv /\ UNCHANGED credentialVars => CredentialInv'
  BY DEF CredentialInv, credentialVars, Credential!TypeOK, NoneNewer, Credential!PairKept,
         Credential!Held, Credential!Pairs, Credential!Docs, Credential!Keys
<1> QED  BY <1>1, <1>2, <1>3

LEMMA InvInductive == (Init => Inv) /\ (Inv /\ [Next]_vars => Inv')
<1>1. Init => Inv
  BY LoginInit, CheckinInit, CredentialInit DEF Inv
<1>2. ASSUME Inv, [Next]_vars PROVE Inv'
  <2>1. CASE Login!Next /\ UNCHANGED <<part, checkinVars, credentialVars, poolVars>>
    BY <1>2, <2>1, LoginStep, PartsApart DEF Inv
  <2>2. CASE Checkin!Next /\ UNCHANGED <<part, loginVars, credentialVars, poolVars>>
    BY <1>2, <2>2, CheckinStep, PartsApart DEF Inv
  <2>3. CASE Credential!Next /\ UNCHANGED <<part, loginVars, checkinVars, poolVars>>
    BY <1>2, <2>3, CredentialStep, PartsApart DEF Inv
  <2>4. CASE Pool!Next /\ UNCHANGED <<part, loginVars, checkinVars, credentialVars>>
    BY <1>2, <2>4, PartsApart DEF Inv
  <2>5. CASE UNCHANGED vars
    BY <1>2, <2>5, PartsApart DEF Inv, vars
  <2> QED  BY <1>2, <2>1, <2>2, <2>3, <2>4, <2>5 DEF Next
<1> QED  BY <1>1, <1>2

(* However starts, callbacks, pastes, polls, completions, expiries and       *)
(* restarts follow each other, no read of the record on disk and no late     *)
(* completion brings back a login that a newer one has replaced.             *)
THEOREM NewestLoginOnly == Spec => []SingleSlot
<1>1. Inv => SingleSlot
  BY DEF Inv, LoginInv, CheckinInv, CredentialInv, SingleSlot, TypeOK, Login!SingleSlot, Newest
<1> QED  BY <1>1, InvInductive, PTL DEF Spec

(* With any number of manual check-ins at once, two claims of an account     *)
(* that are accepted on one day were both let through before either was: a   *)
(* run or a check-in that looks later is held back (claim_once.go).          *)
THEOREM ClaimsAcceptedOnce == Spec => []RepeatsOverlap
<1>1. Inv => RepeatsOverlap
  BY OverlapOnly DEF Inv
<1> QED  BY <1>1, InvInductive, PTL DEF Spec

(* No lock joins the renewals, yet the stored refresh token renews or the    *)
(* caller that rotated it holds the new one, while every renewal is saved;   *)
(* and no save of the plugin drops the stored catalog.                       *)
THEOREM LivePairKept == Spec => CredentialKept
<1>1. Inv /\ [Next]_vars => [Credential!PairKept' /\ Credential!CatalogStays]_Credential!vars
  <2> SUFFICES ASSUME Inv, [Next]_vars, ~UNCHANGED Credential!vars
               PROVE  Credential!PairKept' /\ Credential!CatalogStays
    OBVIOUS
  <2>1. Inv' /\ (Inv' => Credential!PairKept')
    BY InvInductive DEF Inv, CredentialInv
  <2>2. Credential!Next
    BY DEF Next, vars, credentialVars, Credential!vars
  <2> QED  BY <2>1, <2>2, CatalogStep DEF Inv
<1> QED
  BY <1>1, InvInductive, PTL DEF Spec, CredentialKept, Credential!CredentialKept

(* The pool keeps its types, and whoever stamps an account exhausted, and    *)
(* however late its answer, the window in force ends at the coming midnight. *)
THEOREM FreezesEndAtMidnight ==
  ASSUME DaySpans = {DayLen}
  PROVE  Spec => []FreezeEndsAtMidnight
<1>1. Init => PoolInv
  BY PoolInductive DEF Init
<1>2. PoolInv /\ [Next]_vars => PoolInv'
  <2>1. [Next]_vars => [Pool!Next]_Pool!vars
    BY DEF Next, vars, poolVars, Pool!vars, Pool!time
  <2> QED  BY <2>1, PoolInductive
<1>3. PoolInv => FreezeEndsAtMidnight
  BY DEF PoolInv, FreezeEndsAtMidnight
<1> QED  BY <1>1, <1>2, <1>3, PTL DEF Spec
=============================================================================
