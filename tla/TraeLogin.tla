------------------------------ MODULE TraeLogin ------------------------------
(* The OAuth login of the trae plugin, cn/solo and intl: a start parks the   *)
(* login in a map of its flow and in one record on disk; the browser's       *)
(* redirect reaches the login's own listener or is pasted; the host's poll   *)
(* or the plugin itself, after a grace, exchanges the code and saves the     *)
(* credential.  A completion (a poll past its look, or a self-completion)    *)
(* is a task; Tasks bounds how many are under way.                           *)
EXTENDS Naturals

CONSTANTS Logins,      \* login_trace_ids, each started at most once
          NoLogin,
          Tasks,
          MaxCrashes   \* bound: restarts of the host process

VARIABLES login,     \* the loginCtx of each login, and whether a map holds it
          file,      \* the login in .trae-pending-login.json, or NoLogin
          task,      \* completions under way
          outcome,   \* outcomeCache
          exchanges, \* history: completions that posted the login's auth code
          newest,    \* history: the last login started in each flow
          crashes

vars == <<login, file, task, outcome, exchanges, newest, crashes>>

Flows == {"cn", "intl"}
Grants == {"none", "code", "refresh", "error"}
Ctx == [flow : Flows \cup {"none"}, live : BOOLEAN, open : {"no", "own", "stray"}, got : Grants,
        restored : BOOLEAN, armed : BOOLEAN, old : BOOLEAN]
Unborn == [flow |-> "none", live |-> FALSE, open |-> "no", got |-> "none",
           restored |-> FALSE, armed |-> FALSE, old |-> FALSE]
Gone(c) == [c EXCEPT !.live = FALSE, !.got = "none", !.restored = FALSE]
Left(c) == [Gone(c) EXCEPT !.open = IF @ = "own" THEN "stray" ELSE @]
Shut(c) == [Gone(c) EXCEPT !.open = IF @ = "own" THEN "no" ELSE @]
Idle == [of |-> NoLogin, by |-> "self", at |-> "idle", with |-> "none"]

TypeOK ==
    /\ login \in [Logins -> Ctx]
    /\ file \in Logins \cup {NoLogin}
    /\ task \in [Tasks -> [of : Logins \cup {NoLogin}, by : {"poll", "self"},
                           at : {"idle", "grace", "exchange", "save"}, with : Grants]]
    /\ outcome \in [Logins -> {"none", "ok", "failed"}]
    /\ exchanges \in [Logins -> 0..2]
    /\ newest \in [Flows -> Logins \cup {NoLogin}]
    /\ crashes \in 0..MaxCrashes

Init ==
    /\ login = [l \in Logins |-> Unborn]
    /\ file = NoLogin
    /\ task = [t \in Tasks |-> Idle]
    /\ outcome = [l \in Logins |-> "none"]
    /\ exchanges = [l \in Logins |-> 0]
    /\ newest = [f \in Flows |-> NoLogin]
    /\ crashes = 0
-----------------------------------------------------------------------------
(* A start parks l, evicts every login its flow still holds and closes their *)
(* listeners, and takes the one record both flows share.                     *)
Evicted(l, f) == {k \in Logins : k # l /\ login[k].flow = f /\ login[k].live}

Begin(l, f) ==
    /\ login[l].flow = "none"
    /\ login' = [k \in Logins |->
         IF k = l THEN [Unborn EXCEPT !.flow = f, !.live = TRUE, !.open = "own"]
         ELSE IF k \in Evicted(l, f) THEN Shut(login[k])
         ELSE login[k]]
    /\ file' = l
    /\ newest' = [newest EXCEPT ![f] = l]
    /\ UNCHANGED <<task, outcome, exchanges, crashes>>

StartCn(l) == Begin(l, "cn")
StartIntl(l) == Begin(l, "intl")

Take(job) == /\ \E t \in Tasks : task[t] = Idle
             /\ task' = [task EXCEPT ![CHOOSE t \in Tasks : task[t] = Idle] = job]

(* selfOnce: the login's one self-completion.  A login read back from disk   *)
(* has no host poll left and completes at once, any other waits the grace.   *)
SpawnRestored(l, c) ==  \* mutant: only a restored login completes by itself
    IF c.armed \/ ~c.restored THEN UNCHANGED task
    ELSE Take([of |-> l, by |-> "self", with |-> c.got, at |-> "exchange"])

Spawn(l, c) ==
    IF c.armed THEN UNCHANGED task
    ELSE Take([of |-> l, by |-> "self", with |-> c.got,
               at |-> IF c.restored THEN "exchange" ELSE "grace"])

Armed(c) == [c EXCEPT !.armed = TRUE, !.restored = FALSE]

(* The redirect reaches the listener.  An error the login already holds      *)
(* stays; anything that is no callback is answered 404 and changes nothing.  *)
(* A stray listener is one whose login the maps no longer hold.              *)
Accept(l, r) ==
    LET c == [login[l] EXCEPT !.got = IF @ = "error" THEN @ ELSE r, !.open = "no"]
    IN /\ \/ /\ login[l].open = "own"
             /\ Spawn(l, c)
             /\ login' = [login EXCEPT ![l] = Armed(c)]
          \/ /\ login[l].open = "stray"
             /\ login' = [login EXCEPT ![l].open = "no"]
             /\ UNCHANGED task
       /\ UNCHANGED <<file, outcome, exchanges, newest, crashes>>

CallbackCn(l) == login[l].flow = "cn" /\ \E r \in {"code", "refresh", "error"} : Accept(l, r)
CallbackIntl(l) == login[l].flow = "intl" /\ \E r \in {"code", "error"} : Accept(l, r)

(* restorePendingLoginState: the context of a login no map holds comes back  *)
(* from the record, when the record is that login's and still in time.       *)
RestorableAny(l) == ~login[l].live /\ file # NoLogin /\ ~login[l].old  \* mutant: any record
Restorable(l) == ~login[l].live /\ file = l /\ ~login[l].old
Reachable(l) == login[l].live \/ Restorable(l)
Found(l) == IF login[l].live THEN login[l]
            ELSE [login[l] EXCEPT !.live = TRUE, !.restored = TRUE, !.armed = FALSE]

(* The redirect is pasted, or hits the resource route.  An error settles a   *)
(* restored login here; another one keeps it for the poll.                   *)
Paste(l, r) ==
    LET c == [Found(l) EXCEPT !.got = r]
    IN /\ Reachable(l)
       /\ IF r # "error"
            THEN /\ Spawn(l, c)
                 /\ login' = [login EXCEPT ![l] = Armed(c)]
                 /\ UNCHANGED <<file, outcome>>
            ELSE /\ login' = [login EXCEPT ![l] = IF c.restored THEN Gone(c) ELSE c]
                 /\ outcome' = IF c.restored THEN [outcome EXCEPT ![l] = "failed"] ELSE outcome
                 /\ file' = IF c.restored THEN NoLogin ELSE file
                 /\ UNCHANGED task
       /\ UNCHANGED <<exchanges, newest, crashes>>

PasteCn(l) == login[l].flow = "cn" /\ \E r \in {"code", "refresh", "error"} : Paste(l, r)
PasteIntl(l) == login[l].flow = "intl" /\ \E r \in {"code", "error"} : Paste(l, r)
-----------------------------------------------------------------------------
(* Every end of a login records its outcome, removes the record on disk,     *)
(* whoever's it is, and takes the login out of its map.                      *)
Settle(l, ok, ended) ==
    /\ outcome' = [outcome EXCEPT ![l] = IF ok THEN "ok" ELSE "failed"]
    /\ file' = NoLogin
    /\ login' = [login EXCEPT ![l] = ended]
    /\ UNCHANGED <<newest, crashes>>

(* A poll looks the login up and, once a callback is in, goes on to the      *)
(* exchange without taking the login out of its map.                         *)
PollPending(l) ==
    /\ Restorable(l)
    /\ login' = [login EXCEPT ![l] = Found(l)]
    /\ UNCHANGED <<file, task, outcome, exchanges, newest, crashes>>

PollExpired(l) ==
    /\ login[l].live /\ login[l].old
    /\ Settle(l, FALSE, Shut(login[l]))
    /\ UNCHANGED <<task, exchanges>>

PollGoesOn(l) ==
    LET c == Found(l)
        late == IF c.restored /\ c.got = "none" THEN {"code", "error"} ELSE {c.got}
    IN /\ Reachable(l) /\ ~login[l].old
       /\ \E r \in late \ {"none"} :
            IF r = "error" THEN Settle(l, FALSE, Shut(c)) /\ UNCHANGED <<task, exchanges>>
            ELSE /\ login' = [login EXCEPT ![l] = [c EXCEPT !.got = r]]
                 /\ Take([of |-> l, by |-> "poll", at |-> "exchange", with |-> r])
                 /\ UNCHANGED <<file, outcome, exchanges, newest, crashes>>

PollCn(l) == login[l].flow = "cn" /\ (PollPending(l) \/ PollExpired(l) \/ PollGoesOn(l))
PollIntl(l) == login[l].flow = "intl" /\ (PollPending(l) \/ PollExpired(l) \/ PollGoesOn(l))

(* After the grace the self-completion claims the login by deleting it: a    *)
(* loss means somebody else finished it.                                     *)
Grace(t) ==
    LET l == task[t].of
    IN /\ task[t].at = "grace"
       /\ IF login[l].live
            THEN /\ login' = [login EXCEPT ![l] = Left(@)]
                 /\ task' = [task EXCEPT ![t].at = "exchange", ![t].with = login[l].got]
            ELSE UNCHANGED login /\ task' = [task EXCEPT ![t] = Idle]
       /\ UNCHANGED <<file, outcome, exchanges, newest, crashes>>

End(t, ok) ==
    /\ task' = [task EXCEPT ![t] = Idle]
    /\ LET c == login[task[t].of]
       IN Settle(task[t].of, ok, IF task[t].by = "poll" THEN Shut(c) ELSE Left(c))

(* An auth code is good for one exchange upstream; a refresh token that does *)
(* not renew is used as it is.                                               *)
Exchange(t) ==
    LET l == task[t].of
        posts == task[t].with = "code"
    IN /\ task[t].at = "exchange"
       /\ exchanges' = IF posts THEN [exchanges EXCEPT ![l] = IF @ < 2 THEN @ + 1 ELSE @]
                        ELSE exchanges
       /\ \/ /\ task[t].with = "refresh" \/ (posts /\ exchanges[l] = 0)
             /\ task' = [task EXCEPT ![t].at = "save"]
             /\ UNCHANGED <<login, file, outcome, newest, crashes>>
          \/ task[t].with # "refresh" /\ End(t, FALSE)

Save(t) ==
    /\ task[t].at = "save"
    /\ \E ok \in {TRUE} \cup (IF task[t].by = "self" THEN {FALSE} ELSE {}) : End(t, ok)
    /\ UNCHANGED exchanges

By(t, who, flow) == task[t] # Idle /\ task[t].by = who /\ login[task[t].of].flow = flow
PollCompletesCn(t) == By(t, "poll", "cn") /\ (Exchange(t) \/ Save(t))
PollCompletesIntl(t) == By(t, "poll", "intl") /\ (Exchange(t) \/ Save(t))
SelfCompleteCn(t) == By(t, "self", "cn") /\ (Grace(t) \/ Exchange(t) \/ Save(t))
SelfCompleteIntl(t) == By(t, "self", "intl") /\ (Grace(t) \/ Exchange(t) \/ Save(t))
-----------------------------------------------------------------------------
(* The login's fifteen minutes pass; the accept loop stops at its deadline.  *)
Expire(l) ==
    /\ login[l].flow # "none" /\ ~login[l].old
    /\ login' = [login EXCEPT ![l].old = TRUE, ![l].open = "no"]
    /\ UNCHANGED <<file, task, outcome, exchanges, newest, crashes>>

(* The janitor takes out what expired and records nothing.                   *)
Janitor ==
    /\ \E l \in Logins : login[l].live /\ login[l].old
    /\ login' = [l \in Logins |-> IF login[l].live /\ login[l].old
                   THEN Shut(login[l]) ELSE login[l]]
    /\ UNCHANGED <<file, task, outcome, exchanges, newest, crashes>>

SweepRecord ==
    /\ file # NoLogin /\ login[file].old
    /\ file' = NoLogin
    /\ UNCHANGED <<login, task, outcome, exchanges, newest, crashes>>

(* A restart forgets everything but the record on disk.                      *)
Restart ==
    /\ crashes < MaxCrashes
    /\ crashes' = crashes + 1
    /\ login' = [l \in Logins |-> [Unborn EXCEPT !.flow = login[l].flow, !.old = login[l].old]]
    /\ task' = [t \in Tasks |-> Idle]
    /\ outcome' = [l \in Logins |-> "none"]
    /\ UNCHANGED <<file, exchanges, newest>>

Completes(t) == PollCompletesCn(t) \/ PollCompletesIntl(t)
                \/ SelfCompleteCn(t) \/ SelfCompleteIntl(t)

Next ==
    \/ \E l \in Logins : \/ StartCn(l) \/ StartIntl(l) \/ CallbackCn(l) \/ CallbackIntl(l)
                         \/ PasteCn(l) \/ PasteIntl(l) \/ PollCn(l) \/ PollIntl(l)
                         \/ Expire(l)
    \/ \E t \in Tasks : Completes(t)
    \/ Janitor \/ SweepRecord \/ Restart
-----------------------------------------------------------------------------
(* Each flow holds at most one login, the last one started: neither an       *)
(* eviction nor a read of the record on disk brings an older one back.       *)
SingleSlot ==
    /\ \A l \in Logins : login[l].live => newest[login[l].flow] = l
    /\ file # NoLogin => newest[login[file].flow] = file

(* Issue #38: once a callback is in, the login ends with an outcome even if  *)
(* the host never polls again, unless a newer login, its expiry or a restart *)
(* takes it away.                                                            *)
AcceptedSettles ==
    \A l \in Logins :
      login[l].armed ~> \/ outcome[l] # "none" \/ ~login[l].armed
                        \/ newest[login[l].flow] # l \/ login[l].old

(* "LoadAndDelete claims exclusive ownership" (pending_persist.go:54-56): no *)
(* two completions post the auth code of one login.                          *)
(* The code does not keep this; see the README, section 7.                   *)
ExchangedOnce == \A l \in Logins : exchanges[l] <= 1
=============================================================================
