-------------------------- MODULE MCWorkbuddyAccounts --------------------------
(* The workbuddy accounts: a behaviour takes one lane, one account with two   *)
(* handlers over its cache, memo, lock and flight; the pick among two         *)
(* accounts under a reserve or a daily cap; or one account's daily loop with  *)
(* all three of its callers.                                                  *)
EXTENDS WorkbuddyAccount, Sequences

CONSTANTS a, b, Order, NoAccount, Reserves, DailyCap, Full, MaxChanges,
          NightTarget, MaxOpen, MaxFaults

ASSUME WorkbuddyAccountsAssumption ==
  /\ Nobody \notin Goroutines
  /\ Order \in Seq({Order[i] : i \in DOMAIN Order}) /\ Order # <<>>
  /\ Reserves \subseteq Nat /\ DailyCap \in Nat /\ Full \in Nat
  /\ NightTarget \in Nat \ {0} /\ MaxOpen \in Nat
  /\ MaxEvents \in Nat /\ MaxChanges \in Nat /\ MaxFaults \in Nat

VARIABLES lane,
          reclaim, reserve, remain, known, age, dayStart, arming, cooling, disabled, active, changes,
          center, run, taskLock, night, over, faults

Guard == INSTANCE WorkbuddyGuard
Tasks == INSTANCE WorkbuddyTasks WITH up <- center, lock <- taskLock

guardVars == <<reclaim, reserve, remain, known, age, dayStart, arming, cooling, disabled, active, changes>>
taskVars == <<center, run, taskLock, night, over, faults>>
allVars == <<lane, vars, guardVars, taskVars>>

MCOrder == <<a, b>>

(* The lanes a behaviour does not take rest in one initial state each.  Bound: *)
(* the pick's accounts start full or empty.                                   *)
LanesInit ==
  /\ lane \in {"account", "guard", "tasks"}
  /\ Init /\ Guard!Init /\ Tasks!Init
  /\ remain \in [Guard!Accounts -> {0, Full}]
  /\ lane # "account" => region = "cn"
  /\ lane # "guard" => reclaim /\ reserve = 0 /\ remain = [x \in Guard!Accounts |-> Full]
  /\ lane # "tasks" => /\ center.task = [c \in {"lit", "night"} |-> "open"] /\ center.buddy
                       /\ center.missed /\ center.term /\ center.chances = 0

InAccount == lane = "account" /\ UNCHANGED <<lane, guardVars, taskVars>>
InGuard == lane = "guard" /\ UNCHANGED <<lane, vars, taskVars>>
InTasks == lane = "tasks" /\ UNCHANGED <<lane, vars, guardVars>>

LanesNext ==
  \/ Next /\ InAccount
  \/ Guard!Next /\ InGuard
  \/ Tasks!Next /\ InTasks

(* The scheduler's tick and the handlers are goroutines of their own, so each *)
(* gets its turn however busy the others are; the host keeps asking for an    *)
(* account, a fetch that was started ends, windows pass, and so does the TTL  *)
(* of an entry: chats that renew it for ever are what GuardArms leaves out.   *)
LanesSpec ==
  /\ LanesInit /\ [][LanesNext]_allVars
  /\ SF_allVars(InAccount /\ \E g \in Goroutines : Tick(g))
  /\ \A g \in Goroutines : SF_allVars(InAccount /\ Works(g))
  /\ WF_allVars(InAccount /\ MemoExpires)
  /\ WF_allVars(InGuard /\ Guard!Pick)
  /\ \A x \in Guard!Accounts : /\ WF_allVars(InGuard /\ (Guard!LooksUp(x) \/ Guard!Arms(x)))
                                /\ WF_allVars(InGuard /\ Guard!WindowPasses(x))
                                /\ WF_allVars(InGuard /\ Guard!Ages(x))

(* Every lane keeps its types.                                                *)
LanesTypeOK == TypeOK /\ Guard!TypeOK /\ Tasks!TypeOK
(* See WorkbuddyGuard: dead accounts do not take the selection from one       *)
(* another.                                                                   *)
NeverFlipFlops == Guard!NeverFlipFlops
(* See WorkbuddyGuard and WorkbuddyAccount: a guardrail gets credits to       *)
(* judge unless chats go on; the flag of an account comes to agree with its   *)
(* credits.                                                                   *)
AccountsSettle == (lane = "guard" => Guard!GuardArms) /\ FlagFollowsCredits
(* See WorkbuddyTasks: an undisturbed run leaves nothing to enrol, claim or   *)
(* draw.                                                                      *)
RunSettles == Tasks!RunSettles
(* See WorkbuddyTasks and WorkbuddyAccount: the locks keep paid chats within  *)
(* the target, and one day's check-in is claimed once; lanes keep their types.*)
PaidOnce == LanesTypeOK /\ Tasks!NoChatWasted /\ TabsClaimOnce
=============================================================================
