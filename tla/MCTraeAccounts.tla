---------------------------- MODULE MCTraeAccounts ----------------------------
(* One behaviour exercises one part of the trae plugin's account side: the   *)
(* login, the daily check-in, the credential document, or the account pool   *)
(* with the calls, the scan and the panel that write it.  The pool's run     *)
(* takes one account (accounts share nothing but the scan) and two calls; a  *)
(* day is two units and the clock crosses one midnight.                      *)
EXTENDS Integers, TLC

CONSTANTS Parts,  \* the parts a run takes
          Logins, NoLogin, Tasks, MaxCrashes,
          Accounts, Hands, NoAccount, Skew, MaxRetries, MaxClock,
          Lanes, NoPair, MaxPairs,
          Uids, Requests, NoUid, DayLen, DaySpans, SoftTTL, ErrorTTL, Threshold, MaxTime

ASSUME TraeAccountsAssumption ==
    /\ NoLogin \notin Logins /\ "scheduled" \notin Hands
    /\ Skew \in Nat /\ MaxRetries \in Nat
    /\ MaxCrashes \in Nat /\ MaxClock \in Nat /\ MaxPairs \in Nat
    /\ NoUid \notin Uids
    /\ DayLen \in Nat \ {0} /\ DaySpans \subseteq Nat \ {0}
    /\ SoftTTL \in Nat \ {0} /\ ErrorTTL \in Nat \ {0}
    /\ Threshold \in Nat \ {0} /\ MaxTime \in Nat

VARIABLES part,
          login, file, task, outcome, exchanges, newest, crashes,
          clock, claimDay, claimSent, run, waiting, retry, hand, accepted, early,
          family, doc, live, pool, lane, alone,
          now, today, tomorrow, entries, cred, remain, cached, req, scan, panel

Login == INSTANCE TraeLogin
Checkin == INSTANCE TraeCheckin
Credential == INSTANCE TraeCredential
Pool == INSTANCE TraePool WITH clock <- now, pool <- entries

loginVars == <<login, file, task, outcome, exchanges, newest, crashes>>
checkinVars == <<clock, claimDay, claimSent, run, waiting, retry, hand, accepted, early>>
credentialVars == <<family, doc, live, pool, lane, alone>>
poolVars == <<now, today, tomorrow, entries, cred, remain, cached, req, scan, panel>>
vars == <<part, loginVars, checkinVars, credentialVars, poolVars>>

Symmetry == Permutations(Requests)

Init ==
    /\ part \in Parts
    /\ Login!Init /\ Checkin!Init /\ Credential!Init /\ Pool!Init
    /\ part # "credential" => family = "cn"
    /\ part # "pool" => remain = [u \in Uids |-> TRUE]

Completes(t) == /\ part = "login" /\ Login!Completes(t)
                /\ UNCHANGED <<part, checkinVars, credentialVars, poolVars>>

Next ==
    \/ part = "login" /\ Login!Next /\ UNCHANGED <<part, checkinVars, credentialVars, poolVars>>
    \/ part = "checkin" /\ Checkin!Next /\ UNCHANGED <<part, loginVars, credentialVars, poolVars>>
    \/ part = "credential" /\ Credential!Next /\ UNCHANGED <<part, loginVars, checkinVars, poolVars>>
    \/ part = "pool" /\ Pool!Next /\ UNCHANGED <<part, loginVars, checkinVars, credentialVars>>

(* A completion's goroutine or poll call runs on until it ends.              *)
Spec == Init /\ [][Next]_vars /\ \A t \in Tasks : WF_vars(Completes(t))

(* The login, the check-in and the credential keep their types.              *)
TypeOK == Login!TypeOK /\ Checkin!TypeOK /\ Credential!TypeOK

(* See TraeLogin: each flow holds only the login started last.               *)
SingleSlot == TypeOK /\ Login!SingleSlot
(* See TraeLogin: an accepted callback ends with an outcome.                 *)
AcceptedSettles == Login!AcceptedSettles
(* See TraeCheckin: accepted claims of one account and day overlap.          *)
RepeatsOverlap == Checkin!RepeatsOverlap
(* See TraeCheckin: "one accepted send per account per metering day".        *)
OneClaimPerDay == Checkin!OneClaimPerDay
(* See TraeCredential: renewals that are saved never lose the live pair, and *)
(* the plugin's saves keep the stored model catalog.                         *)
CredentialKept == Credential!CredentialKept
(* See TraePool: the pool keeps its types, and whoever stamps an exhausted   *)
(* account and however often, it cools until the coming local midnight.      *)
FreezeEndsAtMidnight == Pool!TypeOK /\ Pool!FreezeEndsAtMidnight
=============================================================================
