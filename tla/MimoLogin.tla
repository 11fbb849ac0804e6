------------------------------- MODULE MimoLogin -------------------------------
(***************************************************************************)
(* The mimo login (plugins/mimo: oauth.go, management.go, main.go): every  *)
(* flow has its key pair, a callback server of its own and a channel for   *)
(* one result.  The result comes over the callback, or pasted; the host    *)
(* polls for it as long as its dialog is open, and a pasted one is saved   *)
(* at once.  A start sweeps the flows that are still there, and a janitor  *)
(* those that grew late.                                                   *)
(***************************************************************************)
CONSTANTS Flows,   \* the logins that are started
          NoFlow,  \* no login: an empty channel, a credential not there yet
          Fails    \* may a save at the host fail

VARIABLES flow,     \* loginStates, and the flows behind them
          dialog,   \* the host's dialogs
          saved,    \* the logins whose credential the host has
          pasting   \* the login whose result handleMimoOAuthSubmit saves next

vars == <<flow, dialog, saved, pasting>>

Unborn == [entry |-> "none", serves |-> FALSE, result |-> NoFlow, late |-> FALSE, granted |-> FALSE]

Init ==
  /\ flow = [f \in Flows |-> Unborn]
  /\ dialog = [f \in Flows |-> "shut"]
  /\ saved = {}
  /\ pasting = NoFlow

Stored(f) == flow[f].entry = "stored"
Live(f) == Stored(f) /\ ~ flow[f].late

\* shutdown and Delete, which go together wherever a flow ends.
Forgotten(flows, fs) ==
  [f \in Flows |-> IF f \in fs THEN [flows[f] EXCEPT !.entry = "gone"] ELSE flows[f]]
Ended(flows, fs) ==
  [f \in Flows |-> IF f \in fs THEN [flows[f] EXCEPT !.entry = "gone", !.serves = FALSE] ELSE flows[f]]

\* handleStartLogin: the server listens first, then every flow that is stored is
\* ended, then this one is stored and the dialog opens.
StartLogin(f) ==
  /\ flow[f].entry = "none"
  /\ flow' = [flow EXCEPT ![f].entry = "bound", ![f].serves = TRUE]
  /\ UNCHANGED <<dialog, saved, pasting>>
Swept(f) == Ended(flow, {g \in Flows : Stored(g)})
Sweep(f) ==
  /\ flow[f].entry = "bound"
  /\ flow' = [Swept(f) EXCEPT ![f].entry = "alone"]
  /\ UNCHANGED <<dialog, saved, pasting>>
Store(f) ==
  /\ flow[f].entry = "alone"
  /\ flow' = [flow EXCEPT ![f].entry = "stored"]
  /\ dialog' = [dialog EXCEPT ![f] = "open"]
  /\ UNCHANGED <<saved, pasting>>

\* The channel holds one result; a second is dropped.  Only a poll ends the flow.
Delivered(f, blob) ==
  flow' = [flow EXCEPT ![f].result = IF @ = NoFlow THEN blob ELSE @]

\* The callback server's handler: the browser comes with this flow's blob.
Callback(f) ==
  /\ flow[f].granted /\ flow[f].serves
  /\ Delivered(f, f)
  /\ UNCHANGED <<dialog, saved, pasting>>

\* mimoCompletePendingLogin: a blob opens with the key of its own flow only.
MatchingAny(blob) == {f \in Flows : Live(f)}
Matching(blob) == {f \in Flows : Live(f) /\ f = blob}
Paste(blob) ==
  /\ flow[blob].granted /\ pasting = NoFlow
  /\ \E f \in Matching(blob) : Delivered(f, blob)
  /\ pasting' = blob
  /\ UNCHANGED <<dialog, saved>>
\* persistOAuthLogin: a save that fails leaves the login to the next poll.
PersistPasted ==
  /\ pasting # NoFlow
  /\ (saved' = saved \cup {pasting}) \/ (Fails /\ UNCHANGED saved)
  /\ pasting' = NoFlow
  /\ UNCHANGED <<flow, dialog>>

\* handlePollLogin: lateness is looked at before the result.
PollEnds(f, how) == flow' = Ended(flow, {f}) /\ dialog' = [dialog EXCEPT ![f] = how]
ResultOf(f) == flow[f].result
Poll(f) ==
  /\ dialog[f] = "open"
  /\ \/ ~ Stored(f) /\ dialog' = [dialog EXCEPT ![f] = "failed"] /\ UNCHANGED <<flow, saved>>
     \/ Stored(f) /\ flow[f].late /\ PollEnds(f, "failed") /\ UNCHANGED saved
     \/ /\ Live(f) /\ ResultOf(f) # NoFlow
        /\ PollEnds(f, "done") /\ saved' = saved \cup {ResultOf(f)}
  /\ UNCHANGED pasting

\* The janitor's tick.
Late == {f \in Flows : Stored(f) /\ flow[f].late}
Janitor ==
  /\ Late # {}
  /\ flow' = Ended(flow, Late)
  /\ UNCHANGED <<dialog, saved, pasting>>

\* The user grants the key, or lets the window pass, or shuts the dialog.
Grants(f) ==
  /\ flow[f].entry \in {"stored", "gone"} /\ ~ flow[f].granted
  /\ flow' = [flow EXCEPT ![f].granted = TRUE]
  /\ UNCHANGED <<dialog, saved, pasting>>
GrowsLate(f) ==
  /\ Stored(f) /\ ~ flow[f].late
  /\ flow' = [flow EXCEPT ![f].late = TRUE]
  /\ UNCHANGED <<dialog, saved, pasting>>
Shuts(f) ==
  /\ dialog[f] = "open"
  /\ dialog' = [dialog EXCEPT ![f] = "shut"]
  /\ UNCHANGED <<flow, saved, pasting>>

Handler(f) == Sweep(f) \/ Store(f)
Next ==
  \/ \E f \in Flows : StartLogin(f) \/ Handler(f) \/ Callback(f) \/ Paste(f) \/ Poll(f)
                      \/ Grants(f) \/ GrowsLate(f) \/ Shuts(f)
  \/ PersistPasted \/ Janitor

\* The host polls while its dialog is open; six minutes pass; the janitor ticks.
Spec ==
  /\ Init /\ [][Next]_vars
  /\ WF_vars(PersistPasted) /\ WF_vars(Janitor)
  /\ \A f \in Flows : WF_vars(Poll(f)) /\ WF_vars(Handler(f)) /\ WF_vars(GrowsLate(f))

-----------------------------------------------------------------------------
\* The variables have their types.
TypeOK ==
  /\ saved \subseteq Flows /\ pasting \in Flows \cup {NoFlow}
  /\ \A f \in Flows : dialog[f] \in {"shut", "open", "failed", "done"}
  /\ \A f \in Flows : flow[f].entry \in {"none", "bound", "alone", "stored", "gone"}

\* A dialog that ends well ends with the credential its own user granted, also
\* while another login is pending (management.go:295-301).
OwnCredential == \A f \in Flows : dialog[f] = "done" => f \in saved /\ flow[f].granted

\* No flow leaves a callback server behind: whichever of a poll, a janitor's
\* tick or another login ends it (oauth.go:256-259).
ServersEnd == <>[](\A f \in Flows : ~ flow[f].serves)

\* A result that reached a flow in time becomes the host's credential, unless the
\* dialog is shut, the window passes or another login is started.
Superseded(f) == \E g \in Flows \ {f} : flow[g].entry # "none"
ResultIsSaved ==
  <>[](\A f \in Flows : flow[f].result = f =>
         f \in saved \/ flow[f].late \/ dialog[f] = "shut" \/ Superseded(f))
=============================================================================
