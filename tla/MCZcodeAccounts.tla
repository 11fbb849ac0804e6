---------------------------- MODULE MCZcodeAccounts ----------------------------
(* The zcode plugin: a behaviour takes one lane, the claim scheduler with its *)
(* captcha pool, a chat over the two planes and the signing ladder, the       *)
(* credits with the route they decide, a login, or the off-peak tickets with  *)
(* one round of each kind, so that a round can swap its ticket once.          *)
EXTENDS ZcodePlane, Sequences

CONSTANTS Lanes,  \* the lanes a run takes
          Ranked, P1, P2, NoPlan, Params, NoParam, Capacity, Order, A1, A2, NoOne, Flows, Polls, NoFlow,
          Executes, Streams, Tickets, NoTicket, NoRound, Budget, MaxAttempts, MaxPoll, MaxTime

ASSUME ZcodeAssumption ==
  /\ NoParam \notin Params /\ Capacity \in Nat \ {0}
  /\ Order \in Seq({Order[i] : i \in DOMAIN Order})
  /\ NoOne \notin {"panel", "reconcile"} /\ NoFlow \notin Flows
  /\ Executes \cap Streams = {} /\ NoTicket \notin Tickets
  /\ Budget \in Nat /\ MaxAttempts \in Nat /\ MaxPoll \in Nat \ {0}
  /\ MaxEvents \in Nat /\ MaxTime \in Nat

VARIABLES lane,
          plan, session, spent, want, hold, kind, pool, stale, tick, missed,
          up, doc, cache, flight, noted, active, task, chat, outside,
          chosen, login, minted, poll, stored, accidents,
          clock, srv, owner, pc, tk, cur, resume, deadline, wake, attempt, acquired, settled

Claims == INSTANCE ZcodeClaim WITH events <- missed
Account == INSTANCE ZcodeAccount WITH memo <- noted, events <- outside
Login == INSTANCE ZcodeLogin WITH keys <- minted, events <- accidents
OffPeak == INSTANCE ZcodeOffPeak

claimVars == <<plan, session, spent, want, hold, kind, pool, stale, tick, missed>>
accountVars == <<up, doc, cache, flight, noted, active, task, chat, outside>>
loginVars == <<chosen, login, minted, poll, stored, accidents>>
ticketVars == <<clock, srv, owner, pc, tk, cur, resume, deadline, wake, attempt, acquired, settled>>
allVars == <<lane, vars, claimVars, accountVars, loginVars, ticketVars>>

MCRanked == <<P1, P2>>
MCOrder == <<A1, A2>>

(* The lanes a behaviour does not take rest in one initial state each.        *)
LanesInit ==
  /\ lane \in Lanes
  /\ Init /\ Claims!Init /\ Account!Init /\ Login!Init /\ OffPeak!Init
  /\ lane # "claim" => plan = [p \in Claims!Plans |-> "hidden"] /\ want = NoPlan
  /\ lane # "plane" => home = "coding" /\ ~ asks /\ ~ strict /\ ~ jwt /\ params = 0
  /\ lane # "account" => up = [a \in Account!Accounts |-> "none"]
  /\ lane # "login" => chosen = "zai" /\ minted = [p \in Login!Providers |-> 0]

InClaim == lane = "claim" /\ UNCHANGED <<lane, vars, accountVars, loginVars, ticketVars>>
InPlane == lane = "plane" /\ UNCHANGED <<lane, claimVars, accountVars, loginVars, ticketVars>>
InAccount == lane = "account" /\ UNCHANGED <<lane, vars, claimVars, loginVars, ticketVars>>
InLogin == lane = "login" /\ UNCHANGED <<lane, vars, claimVars, accountVars, ticketVars>>
InOffPeak == lane = "offpeak" /\ UNCHANGED <<lane, vars, claimVars, accountVars, loginVars>>

LanesNext ==
  \/ InClaim /\ Claims!Next
  \/ InPlane /\ Next
  \/ InAccount /\ Account!Next
  \/ InLogin /\ Login!Next
  \/ InOffPeak /\ OffPeak!Next

(* The tick repeats and its holds end; chats keep coming and goroutines get   *)
(* their turn; memos and gate verdicts expire; the host polls its logins; a round   *)
(* that can go on does, and time passes.                                      *)
LanesSpec ==
  /\ LanesInit /\ [][LanesNext]_allVars
  /\ WF_allVars(InClaim /\ Claims!Begin) /\ WF_allVars(InClaim /\ Claims!Steps)
  /\ WF_allVars(InClaim /\ Claims!HoldEnds)
  /\ \A c \in Calls : WF_allVars(InPlane /\ Works(c))
                      /\ WF_allVars(InPlane /\ (\E s \in BOOLEAN : Begin(c, s)))
  /\ WF_allVars(InPlane /\ Forgets) /\ WF_allVars(InPlane /\ GateExpires)
  /\ WF_allVars(InAccount /\ Account!Chat)
  /\ \A g \in Account!Goroutines : WF_allVars(InAccount /\ Account!Works(g))
  /\ \A p \in Polls : WF_allVars(InLogin /\ Login!Works(p))
  /\ WF_allVars(InOffPeak /\ OffPeak!Tick)
  /\ \A r \in OffPeak!Rounds : WF_allVars(InOffPeak /\ OffPeak!RoundStep(r))
  /\ \A f \in Flows : WF_allVars(InLogin /\ (\E p \in Polls : Login!Load(p, f)))

(* Every lane keeps its types.                                                *)
LanesTypeOK == TypeOK /\ Claims!TypeOK /\ Account!TypeOK /\ Login!TypeOK /\ OffPeak!TypeOK
(* See ZcodeClaim: an account is left alone for a day when its plans are its. *)
DayMeansDone == Claims!DayMeansDone
(* See ZcodeClaim, ZcodePlane and ZcodeAccount: an open plan is claimed, the  *)
(* package is found on whichever plane it is, and chats end up on accounts    *)
(* with credits.                                                              *)
CreditsFound ==
  /\ lane = "claim" => Claims!OpenIsClaimed
  /\ lane = "plane" => PackageIsFound
  /\ lane = "account" => Account!RoutesToCredits
(* See ZcodeLogin: what a login stores can be used on its plane; lanes keep   *)
(* their types.                                                               *)
CredentialFits == LanesTypeOK /\ Login!CredentialFits
(* See ZcodeLogin: an approved login ends with its credential.                *)
LoginCompletes == lane = "login" => Login!LoginCompletes
(* See ZcodeOffPeak: a non-stream round returns with a settle call made for   *)
(* every ticket it was granted; no round sends with a settled ticket; every   *)
(* round returns to the host, and sleeps past no deadline on the way.         *)
ExecuteSettlesAll == OffPeak!ExecuteSettlesAll
SettledNeverSent == OffPeak!SettledNeverSent
SleepsWithinBudget == OffPeak!SleepsWithinBudget
RoundsEndInTime == []SleepsWithinBudget /\ OffPeak!EveryRoundEnds
=============================================================================
