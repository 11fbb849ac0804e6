------------------------------ MODULE ZcodeLogin ------------------------------
(***************************************************************************)
(* The zcode login (plugins/zcode: oauth.go, auth_keyres.go): the host     *)
(* polls a flow, more than once at a time if it likes; a poll that finds   *)
(* the grant resolves the plan's key over a chain of calls, any of which   *)
(* may fail, and only then is the login's state given up.                  *)
(***************************************************************************)
EXTENDS Naturals

CONSTANTS Flows,     \* the logins that are started
          Polls,     \* the polls that may run at once
          NoFlow,    \* no login
          MaxEvents  \* bound of faults and of what happens outside

VARIABLES chosen,  \* login_provider
          login,   \* loginStates and the flows behind them
          keys,    \* upstream: how many keys of our name the account has
          poll,    \* the polls
          stored,  \* the credential the host saved last
          events

vars == <<chosen, login, keys, poll, stored, events>>

Providers == {"zai", "bigmodel"}
Unborn == [entry |-> "none", provider |-> "zai", grant |-> "pending", late |-> FALSE]
Idle == [at |-> "idle", flow |-> NoFlow, provider |-> "zai"]
Nothing == [flow |-> NoFlow, provider |-> "zai", secret |-> TRUE]

Init ==
  /\ chosen \in Providers
  /\ login = [f \in Flows |-> Unborn]
  /\ keys \in [Providers -> {0, 1}]
  /\ poll = [p \in Polls |-> Idle]
  /\ stored = Nothing
  /\ events = 0

Fault == events < MaxEvents /\ events' = events + 1
NoFault == UNCHANGED events
At(p, place) == poll[p].at = place
Becomes(p, t) == poll' = [poll EXCEPT ![p] = t]
Goes(p, place) == Becomes(p, [poll[p] EXCEPT !.at = place])
Ends(p) == Becomes(p, Idle)
Turns(f, l) == login' = [login EXCEPT ![f] = l]
ProviderOf(p) == poll[p].provider

\* startLoginWithProvider: the login is pinned to the provider of the moment.
StartLogin(f) ==
  /\ login[f].entry = "none"
  /\ Turns(f, [login[f] EXCEPT !.entry = "open", !.provider = chosen])
  /\ UNCHANGED <<chosen, keys, poll, stored, events>>

\* handlePollLogin, until the flow is asked: an expired one goes, a poll that
\* runs keeps the state in place.
ProviderNow(f) == chosen
ProviderPinned(f) == login[f].provider
Gone(f) == [login[f] EXCEPT !.entry = "gone"]
ConsumedAtOnce(f) == Gone(f)
Loaded(f) == IF login[f].late THEN Gone(f) ELSE login[f]
Load(p, f) ==
  /\ At(p, "idle") /\ login[f].entry = "open"
  /\ Turns(f, Loaded(f))
  /\ IF login[f].late THEN UNCHANGED poll
     ELSE Becomes(p, [at |-> "ask", flow |-> f, provider |-> ProviderPinned(f)])
  /\ UNCHANGED <<chosen, keys, stored, events>>

\* pollCliLogin: what is lost counts as pending; a flow that is over is an error.
Ask(p) ==
  LET f == poll[p].flow IN
  /\ At(p, "ask")
  /\ \/ /\ login[f].grant = "ready" /\ ~ login[f].late /\ NoFault
        /\ Goes(p, IF ProviderOf(p) = "zai" THEN "exchange" ELSE "locate")
     \/ (login[f].grant # "ready" \/ login[f].late) /\ NoFault /\ Ends(p)
     \/ Fault /\ Ends(p)
  /\ UNCHANGED <<chosen, login, keys, stored>>

\* zaiLoginToken and resolveCustomerInfo: a failure ends the poll.
Step(p, from, to) ==
  /\ At(p, from)
  /\ \/ NoFault /\ Goes(p, to)
     \/ Fault /\ Ends(p)
  /\ UNCHANGED <<chosen, login, keys, stored>>

\* findOrCreateAPIKey: a list that cannot be read counts as one without the key.
ListKeys(p) ==
  /\ At(p, "list")
  /\ \/ NoFault /\ Goes(p, IF keys[ProviderOf(p)] > 0 THEN "copy" ELSE "create")
     \/ Fault /\ Goes(p, "create")
  /\ UNCHANGED <<chosen, login, keys, stored>>
CreateKey(p) ==
  /\ At(p, "create")
  /\ \/ NoFault /\ keys' = [keys EXCEPT ![ProviderOf(p)] = @ + 1] /\ Goes(p, "copy")
     \/ Fault /\ Ends(p)
        /\ (keys' = [keys EXCEPT ![ProviderOf(p)] = @ + 1] \/ UNCHANGED keys)
  /\ UNCHANGED <<chosen, login, stored>>

\* copyAPIKeySecret and the rest of handlePollLogin: without the secret a zai
\* login fails, a bigmodel one goes on with the bare key.
BareKey(p) == ProviderOf(p) = "bigmodel"
Success(p, secret) ==
  /\ stored' = [flow |-> poll[p].flow, provider |-> ProviderOf(p), secret |-> secret]
  /\ Turns(poll[p].flow, Gone(poll[p].flow))
  /\ Ends(p)
CopySecret(p) ==
  /\ At(p, "copy")
  /\ \/ NoFault /\ Success(p, TRUE)
     \/ Fault /\ IF BareKey(p) THEN Success(p, FALSE) ELSE Ends(p) /\ UNCHANGED <<login, stored>>
  /\ UNCHANGED <<chosen, keys>>

\* The user approves or denies; a flow grows late; the operator chooses.
Decides(f) ==
  /\ login[f].entry = "open" /\ login[f].grant = "pending"
  /\ \E g \in {"ready", "failed"} : Turns(f, [login[f] EXCEPT !.grant = g])
  /\ UNCHANGED <<chosen, keys, poll, stored, events>>
GrowsLate(f) ==
  /\ Fault /\ login[f].entry = "open" /\ ~ login[f].late
  /\ Turns(f, [login[f] EXCEPT !.late = TRUE])
  /\ UNCHANGED <<chosen, keys, poll, stored>>
Chooses ==
  /\ Fault /\ \E p \in Providers \ {chosen} : chosen' = p
  /\ UNCHANGED <<login, keys, poll, stored>>

Works(p) ==
  Ask(p) \/ Step(p, "exchange", "locate") \/ Step(p, "locate", "list")
  \/ ListKeys(p) \/ CreateKey(p) \/ CopySecret(p)
Next ==
  \/ Chooses
  \/ \E f \in Flows : StartLogin(f) \/ Decides(f) \/ GrowsLate(f) \/ \E p \in Polls : Load(p, f)
  \/ \E p \in Polls : Works(p)

Spec == Init /\ [][Next]_vars

-----------------------------------------------------------------------------
\* The variables have their types.
TypeOK ==
  /\ chosen \in Providers /\ stored.provider \in Providers
  /\ \A f \in Flows : login[f].entry \in {"none", "open", "gone"} /\ login[f].grant \in {"pending", "ready", "failed"}
  /\ \A p \in Polls : poll[p].flow = NoFlow <=> At(p, "idle")

\* What is stored can be used: the key of the plane the user logged in to, even
\* when the operator chose another in between, and for zai one that can sign
\* (auth_keyres.go:446-456).
CredentialFits ==
  stored.flow # NoFlow =>
    /\ stored.provider = login[stored.flow].provider
    /\ keys[stored.provider] > 0
    /\ stored.provider = "zai" => stored.secret

\* A login that was approved ends with its credential unless it expires first:
\* a poll that failed on the way can be repeated.
LoginCompletes ==
  \A f \in Flows :
    (login[f].grant = "ready") ~> (stored.flow = f \/ login[f].late)
=============================================================================
