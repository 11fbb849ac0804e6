----------------------------- MODULE MCUpstream -----------------------------
(* What the plugins have to do with an upstream beside the accounts: a        *)
(* behaviour is one streamed call, or workbuddy's model catalog.  Each stream *)
(* implements StreamedCall, the contract with the host.  qoder: the source's  *)
(* four attempts, tickets of one and two units against a budget of four.      *)
(* trae: a channel of two chunks under up to six frames, so that the          *)
(* converter can run ahead and fill it.  All: three chunks, so that an        *)
(* opener, an answer and a tail fit.  Catalog: two files, with or without a   *)
(* snapshot of either realm, and one disturbance.                             *)
EXTENDS QoderStream, Sequences

CONSTANTS Cap, TraeFrames, Creds, Changes, Home, Horizon

VARIABLES lane,
          async, made, conv, ch, fault, traeSeen, traeHand, traeHead, sent, noted,
          mode, wbHand, outcome, token, wbPump, attempts, gating, wbSeen, wbEnded,
          held, wbOut, wbInband, wbResult,
          plugin, plMode, wire, at, sends, memo, cooled, plSeen, finished, kept,
          plOut, verdict, plInband, plResult,
          upstream, down, cache, docs, query, rewrite, clock, events

\* The channel's capacity and the bound on time are numbers; accounts start in one realm.
ASSUME UpstreamAssumption == Cap \in Nat /\ Horizon \in Nat /\ Home \in {"cn", "global"}

Trae == INSTANCE TraeStream WITH MaxFrames <- TraeFrames, seen <- traeSeen,
                                 hand <- traeHand, head <- traeHead
Workbuddy == INSTANCE WorkbuddyStream WITH
               hand <- wbHand, pump <- wbPump, seen <- wbSeen, ended <- wbEnded,
               out <- wbOut, inband <- wbInband, result <- wbResult
Plain == INSTANCE PlainStream WITH
               mode <- plMode, seen <- plSeen, out <- plOut, inband <- plInband,
               result <- plResult
Catalog == INSTANCE ModelCatalog

traeVars == <<async, made, conv, ch, fault, traeSeen, traeHand, traeHead, sent, noted>>
wbVars == <<mode, wbHand, outcome, token, wbPump, attempts, gating, wbSeen, wbEnded,
            held, wbOut, wbInband, wbResult>>
plainVars == <<plugin, plMode, wire, at, sends, memo, cooled, plSeen, finished, kept,
               plOut, verdict, plInband, plResult>>
catalogVars == <<upstream, down, cache, docs, query, rewrite, clock, events>>
allVars == <<lane, vars, traeVars, wbVars, plainVars, catalogVars>>

(* The lanes a behaviour does not take rest in one initial state each.        *)
LanesInit ==
  /\ lane \in {"qoder", "trae", "workbuddy", "plain", "catalog"}
  /\ Catalog!Init /\ Init /\ Trae!Init /\ Workbuddy!Init /\ Plain!Init
  /\ lane # "qoder" => gated
  /\ lane # "trae" => async
  /\ lane # "workbuddy" => mode = "async"
  /\ lane # "catalog" => \A c \in Creds : docs[c].cache.realm = Home
  /\ lane # "plain" => plugin = "zcode" /\ plMode = "async" /\ wire = "openai"

InQoder == lane = "qoder" /\ UNCHANGED <<lane, traeVars, wbVars, plainVars, catalogVars>>
InTrae == lane = "trae" /\ UNCHANGED <<lane, vars, wbVars, plainVars, catalogVars>>
InWorkbuddy == lane = "workbuddy" /\ UNCHANGED <<lane, vars, traeVars, plainVars, catalogVars>>
InPlain == lane = "plain" /\ UNCHANGED <<lane, vars, traeVars, wbVars, catalogVars>>
InCatalog == lane = "catalog" /\ UNCHANGED <<lane, vars, traeVars, wbVars, plainVars>>

LanesNext ==
  \/ Next /\ InQoder
  \/ Trae!Next /\ InTrae
  \/ Workbuddy!Next /\ InWorkbuddy
  \/ Plain!Next /\ InPlain
  \/ Catalog!Next /\ InCatalog

(* The goroutines of a call run; bodies come to their end, timers fire, the   *)
(* host's bridge answers.                                                     *)
LanesSpec ==
  /\ LanesInit /\ [][LanesNext]_allVars
  /\ WF_allVars(Sender /\ InQoder) /\ WF_allVars(Handoff /\ InQoder)
  /\ WF_allVars((\E b \in BOOLEAN : BodyEnds(b)) /\ InQoder)
  /\ WF_allVars(Trae!Converter /\ InTrae) /\ WF_allVars(Trae!Handler /\ InTrae)
  /\ WF_allVars(Workbuddy!Sender /\ InWorkbuddy) /\ WF_allVars(Workbuddy!Ends /\ InWorkbuddy)
  /\ WF_allVars(Workbuddy!Handoff /\ InWorkbuddy)
  /\ \A c \in Creds : WF_allVars(Catalog!Queries(c) /\ InCatalog)
                      /\ WF_allVars(Catalog!Rebuilds(c) /\ InCatalog)
  /\ \A r \in Catalog!Realms : WF_allVars(Catalog!Expires(r) /\ InCatalog)
  /\ WF_allVars(Catalog!Outage /\ down /\ InCatalog)
  /\ WF_allVars(Plain!Sender /\ InPlain) /\ WF_allVars(Plain!Ends /\ InPlain)

(* Every lane keeps its types.                                                *)
LanesTypeOK == TypeOK /\ Trae!TypeOK /\ Workbuddy!TypeOK /\ Plain!TypeOK /\ Catalog!TypeOK

(* What the host sees of the lane's call: see StreamedCall and the lanes'     *)
(* modules; trae delivers its failures as frames.                             *)
Opened(h) == IF h \in {"open", "refused"} THEN h ELSE "none"
Call == INSTANCE StreamedCall WITH
  verdict <- CASE lane = "qoder" -> Opened(hand)
               [] lane = "trae" -> Trae!Verdict
               [] lane = "workbuddy" -> Opened(wbHand)
               [] OTHER -> verdict,
  shown <- CASE lane = "qoder" -> out [] lane = "trae" -> Len(sent)
             [] lane = "workbuddy" -> wbOut [] OTHER -> plOut,
  told <- CASE lane = "qoder" -> inband > 0 [] lane = "trae" -> FALSE
            [] lane = "workbuddy" -> wbInband > 0 [] OTHER -> plInband > 0,
  credited <- CASE lane = "qoder" -> result = "ok" [] lane = "trae" -> noted
                [] lane = "workbuddy" -> wbResult = "ok" [] OTHER -> plResult = "ok"

(* Every lane implements the contract: decided once, refused untouched, told  *)
(* at most once, and never told and credited.                                 *)
CallsKeepContract == Call!Spec

(* See the streams: a failed call was told of once; an error fails it exactly *)
(* when it comes before any answer; neither an error frame nor an answer cut  *)
(* short is a success.                                                        *)
FaultsDecide ==
  /\ Workbuddy!FaultTold /\ Plain!FaultTold
  /\ Trae!FailsOnlyUnanswered
  /\ Trae!FaultBlocksSuccess /\ Workbuddy!WholeOnly
(* See TraeStream and QoderStream: chunks are delivered in order, none is     *)
(* lost or skipped; and every lane keeps its types.                           *)
NothingLost == LanesTypeOK /\ Trae!NothingLost /\ NothingSkipped
(* See the lanes: every call ends, and no goroutine but trae's abandoned      *)
(* converter stays behind.                                                    *)
CallsEnd ==
  /\ <>(CASE lane = "qoder" -> pump = "done" /\ hand \in {"open", "refused"}
          [] lane = "trae" -> traeHand \in {"failed", "over", "gone"}
          [] lane = "workbuddy" -> Workbuddy!Over
          [] lane = "plain" -> at = "done" [] OTHER -> TRUE)
  /\ lane = "trae" => Trae!ConverterEndsUnlessAbandoned
(* See ModelCatalog: lists stay in their realm.                               *)
RealmKept == Catalog!RealmKept
(* See ModelCatalog: cache and files come to hold what the gateways serve.    *)
CatalogSettles == lane = "catalog" => Catalog!CatalogSettles
=============================================================================
