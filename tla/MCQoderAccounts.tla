---------------------------- MODULE MCQoderAccounts ----------------------------
(* The qoder accounts: a behaviour takes one lane, the daily round's passes   *)
(* over the campaign list; the billing calls that provision the bridge; or    *)
(* the scheduler's tick and a handler on one account's credits and flag.      *)
EXTENDS QoderCampaign

CONSTANTS Calls, Regions, Nobody, Scheduler, Handlers

ASSUME QoderAccountsAssumption ==
  /\ MaxRound \in Nat \ {0} /\ MaxRetries \in Nat /\ MaxEvents \in Nat
  /\ Nobody \notin Calls \cup Handlers \cup {Scheduler}

VARIABLES lane,
          installed, bridgeDisk, path, tried, runLock, native, jar, call, faults,
          region, account, doc, cache, written, grace, flight, lock, task, outside

Device == INSTANCE QoderDevice WITH disk <- bridgeDisk, lock <- runLock, MaxFaults <- MaxEvents
Account == INSTANCE QoderAccount WITH up <- account, memo <- written, events <- outside

deviceVars == <<installed, bridgeDisk, path, tried, runLock, native, jar, call, faults>>
accountVars == <<region, account, doc, cache, written, grace, flight, lock, task, outside>>
allVars == <<lane, vars, deviceVars, accountVars>>

(* The lanes a behaviour does not take rest in one initial state each.  Bound: *)
(* the saved memo and the derived identity exactly where they matter.         *)
LanesInit ==
  /\ lane \in {"campaign", "device", "account"}
  /\ Init /\ Device!Init /\ Account!Init
  /\ up.reward # "other" /\ up.coupon # "locked"
  /\ disk # NoMemo <=> up.shown = {}
  /\ identity = "derived" <=> up.gated \/ up.shown = {"browser", "derived"}
  /\ lane # "campaign" => /\ up.shown = {} /\ ~ up.gated /\ up.coupon = "absent"
                          /\ up.detail = "absent" /\ up.reward = "credits"
  /\ lane # "device" => installed = [r \in Regions |-> FALSE]
  /\ lane # "account" => region = "cn" /\ account.credits = "some"

InCampaign == lane = "campaign" /\ UNCHANGED <<lane, deviceVars, accountVars>>
InDevice == lane = "device" /\ UNCHANGED <<lane, vars, accountVars>>
InAccount == lane = "account" /\ UNCHANGED <<lane, vars, deviceVars>>

LanesNext ==
  \/ Next /\ InCampaign
  \/ Device!Next /\ InDevice
  \/ Account!Next /\ InAccount

(* The scheduler ticks for ever and its goroutines get their turn; windows,   *)
(* memos and latches have their ends.                                         *)
LanesSpec ==
  /\ LanesInit /\ [][LanesNext]_allVars
  /\ WF_allVars(InCampaign /\ Begin("tick", "checkin"))
  /\ SF_allVars(InCampaign /\ Steps("tick"))
  /\ WF_allVars(InCampaign /\ WindowCloses) /\ WF_allVars(InCampaign /\ Forgets)
  /\ WF_allVars(InCampaign /\ LatchExpires)
  /\ WF_allVars(InAccount /\ Account!Tick)
  /\ \A g \in Account!Goroutines : SF_allVars(InAccount /\ Account!Works(g))
  /\ WF_allVars(InAccount /\ Account!Shown)
  /\ WF_allVars(InAccount /\ Account!MemoExpires) /\ WF_allVars(InAccount /\ Account!GracePasses)

(* Every lane keeps its types.                                                *)
LanesTypeOK == TypeOK /\ Device!TypeOK /\ Account!TypeOK
(* See QoderDevice: none downloads a bridge it would accept from disk or one  *)
(* just tried, and of a bundle the best component is installed; types hold.   *)
NoStampede == LanesTypeOK /\ Device!NoStampede /\ Device!RightComponent
(* See QoderCampaign and QoderAccount: a round's verdict settles; the flag of *)
(* an account comes to agree with its credits.                                *)
AccountsSettle == RoundSettles /\ (lane = "account" => Account!FlagFollowsCredits)
=============================================================================
