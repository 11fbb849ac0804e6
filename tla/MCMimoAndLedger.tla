---------------------------- MODULE MCMimoAndLedger ----------------------------
(* The mimo plugin and the usage ledger: a behaviour takes one lane, the      *)
(* cookie session of a mimo account, the mimo logins, or the ledger with the  *)
(* note it shares with the lifecycle.                                         *)
EXTENDS MimoSession

CONSTANTS Flows, NoFlow, Fails, Requests, Hours, Retention, Changes

ASSUME MimoAndLedgerAssumption == NoFlow \notin Flows /\ Hours \in Nat /\ Retention \in Nat

VARIABLES lane,
          flow, dialog, saved, pasting,
          clock, start, ledger, loaded, disk, dir, unread, writer, note, credits, memo, changes

Login == INSTANCE MimoLogin
Ledger == INSTANCE UsageLedger WITH events <- changes

loginVars == <<flow, dialog, saved, pasting>>
ledgerVars == <<clock, start, ledger, loaded, disk, dir, unread, writer, note, credits, memo, changes>>
allVars == <<lane, vars, loginVars, ledgerVars>>

(* The lanes a behaviour does not take rest in one initial state each.        *)
LanesInit ==
  /\ lane \in {"session", "login", "ledger"}
  /\ Init /\ Login!Init /\ Ledger!Init
  /\ lane # "session" => doc.region \in Home /\ live # {}

InSession == lane = "session" /\ UNCHANGED <<lane, loginVars, ledgerVars>>
InLogin == lane = "login" /\ UNCHANGED <<lane, vars, ledgerVars>>
InLedger == lane = "ledger" /\ UNCHANGED <<lane, vars, loginVars>>

LanesNext ==
  \/ Next /\ InSession
  \/ Login!Next /\ InLogin
  \/ Ledger!Next /\ InLedger

(* The sweep's loop runs on; dialogs poll, six minutes pass and the janitor   *)
(* ticks; the note's goroutines and the lifecycle's loop get their turn.      *)
LanesSpec ==
  /\ LanesInit /\ [][LanesNext]_allVars
  /\ WF_allVars(Sweeps /\ InSession)
  /\ WF_allVars(Login!PersistPasted /\ InLogin) /\ WF_allVars(Login!Janitor /\ InLogin)
  /\ \A f \in Flows : WF_allVars(Login!Poll(f) /\ InLogin) /\ WF_allVars(Login!Handler(f) /\ InLogin)
                      /\ WF_allVars(Login!GrowsLate(f) /\ InLogin)
  /\ \A k \in Ledger!Keys : WF_allVars(Ledger!Writes(k) /\ InLedger)
  /\ WF_allVars(Ledger!SyncsNote /\ InLedger) /\ WF_allVars(Ledger!MemoExpires /\ InLedger)

(* Every lane keeps its types.                                                *)
LanesTypeOK == TypeOK /\ Login!TypeOK /\ Ledger!TypeOK
(* See MimoSession and MimoLogin: a ticket goes to its own region, no stream  *)
(* stays open, a dialog ends with its own user's credential; types are kept.  *)
CredentialsFit == LanesTypeOK /\ TicketAtHome /\ StreamsClosed /\ Login!OwnCredential
(* See UsageLedger: windows are summed exactly, and only a process that could *)
(* not read the ledger's file makes it forget.                                *)
LedgerExact == Ledger!LedgerExact
(* See the lanes: the account serves again, no callback server outlives its   *)
(* login and no result is lost, the note's base is as the lifecycle wants it. *)
LanesSettle ==
  /\ lane = "session" => SessionHeals
  /\ lane = "login" => Login!ServersEnd /\ Login!ResultIsSaved
  /\ lane = "ledger" => Ledger!NoteSettles
(* See UsageLedger: the lifecycle keeps the note's usage segment.             *)
SegmentKept == Ledger!SegmentKept
=============================================================================
