------------------------------ MODULE MimoSession ------------------------------
(***************************************************************************)
(* The mimo cookie lane (plugins/mimo: exchange.go, session.go,            *)
(* executor.go, stream.go, usage.go, adopt.go, cookie_paste.go): one       *)
(* account's document, and the four jobs that each work on a copy of it, a *)
(* chat, the sweep over the usage notes, the adoption of the desktop's     *)
(* session and a pasted one.  A job that finds its ticket refused mints    *)
(* another from the account's login rows, for one region after the other,  *)
(* and saves the whole document; the sweep also saves a note of its own.   *)
(***************************************************************************)
EXTENDS Naturals, Sequences

CONSTANTS Home,     \* the regions whose servers serve the account
          Mode,     \* the region setting: a region, or "auto"
          Rounds,   \* bound of chats, adoptions and pastes, together
          Outages   \* bound of failed requests, expiries and operator's acts

VARIABLES doc,   \* the credential document at the host
          login, \* passport: the only passToken it accepts
          live,  \* upstream: the tickets that are accepted
          job,   \* the jobs and what they hold
          ran,   \* how many jobs that are not the sweep were started
          events

vars == <<doc, login, live, job, ran, events>>

Regions == {"sgp", "cn"}
Jobs == {"chat", "sweep", "adopt", "paste"}
NoTicket == [region |-> "", serial |-> 0]
Shown == "quota left"

NoDoc == [region |-> "", ticket |-> NoTicket, rows |-> 0, note |-> "", disabled |-> FALSE, proxy |-> FALSE]
Idle == [at |-> "idle", sa |-> [region |-> "", ticket |-> NoTicket, rows |-> 0], cands |-> <<>>,
         again |-> FALSE, phys |-> NoDoc, streams |-> {}]

\* An account as adopted or pasted: its rows, and a ticket unless the mint failed.
Init ==
  /\ \E r \in Regions, t \in BOOLEAN :
       LET ticket == IF t THEN [region |-> r, serial |-> 1] ELSE NoTicket IN
       /\ doc = [NoDoc EXCEPT !.region = r, !.ticket = ticket, !.note = "adopted"]
       /\ live = {ticket} \ {NoTicket}
  /\ login = 0
  /\ job = [j \in Jobs |-> Idle]
  /\ ran = 0
  /\ events = 0

Outage == events < Outages /\ events' = events + 1
NoOutage == UNCHANGED events
At(j, place) == job[j].at = place
Becomes(j, held) == job' = [job EXCEPT ![j] = held]
Goes(j, place) == Becomes(j, [job[j] EXCEPT !.at = place])
Ends(j) == Becomes(j, Idle)

CopyOf(d) == [region |-> d.region, ticket |-> d.ticket, rows |-> d.rows]
Serials == 1 .. 6  \* bound of the tickets that are held at a time
Held == {doc.ticket} \cup {job[j].sa.ticket : j \in Jobs} \cup {job[j].phys.ticket : j \in Jobs}
\* A new ticket of a region: the first that nobody holds.
Unheld(r) == {n \in Serials : [region |-> r, serial |-> n] \notin Held}
Fresh(r) == {[region |-> r, serial |-> n] : n \in {k \in Unheld(r) : \A i \in Unheld(r) : k <= i}}

\* regionBaseFor: the account's region, else the configured one, else cn.
Base(sa) == IF sa.region \in Regions THEN sa.region ELSE IF Mode \in Regions THEN Mode ELSE "cn"
\* regionCandidates: a region that was set, or all but the one that just failed.
Other(r) == IF r = "sgp" THEN "cn" ELSE "sgp"
Candidates(current) ==
  IF Mode \in Regions THEN <<Mode>>
  ELSE IF current \in Regions THEN <<Other(current)>> ELSE <<"sgp", "cn">>
CandidatesPreferring(current, first) ==
  LET cands == Candidates(current) IN
  IF first \notin Regions THEN cands
  ELSE IF cands = <<first>> THEN <<first>> ELSE <<first, Other(first)>>

\* What the servers make of a request: the ticket decides, in its own region.
Accepted(at, ticket) == at \in Home /\ at = ticket.region /\ ticket \in live

-----------------------------------------------------------------------------
\* handleExecStream and handleExecExecute, up to the request: the host picks no
\* disabled account and hands the plugin its document.
ChatBegins ==
  /\ At("chat", "idle") /\ ~ doc.disabled /\ ran < Rounds
  /\ ran' = ran + 1
  /\ Becomes("chat", [Idle EXCEPT !.at = "send", !.sa = CopyOf(doc)])
  /\ UNCHANGED <<doc, login, live, events>>

\* refreshAllUsageNotes: the sweep reads every account, a disabled one too.
SweepBegins ==
  /\ At("sweep", "idle")
  /\ Becomes("sweep", [Idle EXCEPT !.at = "send", !.sa = CopyOf(doc)])
  /\ UNCHANGED <<doc, login, live, ran, events>>

\* sendChatFn: an answer comes with a stream of the host's; the endpoint and the
\* headers are made anew from the copy at every attempt.
Attempt(j) == IF job[j].again THEN 2 ELSE 1
Opened(j) == IF j = "chat" THEN job[j].streams \cup {Attempt(j)} ELSE {}
\* sendChatWithCookieRetry closes the first stream when the second is there.
Carried(j) == IF job[j].again THEN Opened(j) \ {1} ELSE Opened(j)
Unanswered(j) == Becomes(j, [job[j] EXCEPT !.at = "finish", !.streams = {}])
Answered(j, place) == Becomes(j, [job[j] EXCEPT !.at = place, !.streams = Carried(j)])

\* sendChatWithCookieRetry and fetchMimoUsage: a refused ticket is minted once.
Refused(j) ==
  IF job[j].again THEN Answered(j, "finish")
  ELSE Becomes(j, [job[j] EXCEPT !.at = "mint", !.streams = Opened(j),
                                 !.cands = Candidates(job[j].sa.region)])
SendTo(j, at) ==
  /\ At(j, "send")
  /\ \/ Accepted(at, job[j].sa.ticket) /\ NoOutage /\ Answered(j, IF j = "sweep" THEN "note" ELSE "finish")
     \/ ~ Accepted(at, job[j].sa.ticket) /\ NoOutage /\ Refused(j)
     \/ Outage /\ (Answered(j, "finish") \/ Unanswered(j))
  /\ UNCHANGED <<doc, login, live, ran>>
Send(j) == SendTo(j, Base(job[j].sa))

\* pumpUpstreamStream, collectUpstreamStream and handleExecExecute close what
\* they were handed on every path; the renewal's end closes the first stream.
Finish(j) == At(j, "finish") /\ Ends(j) /\ UNCHANGED <<doc, login, live, ran, events>>

-----------------------------------------------------------------------------
\* mergeMinted: the new ticket, and the region it belongs to.
Merged(sa, ticket) == [sa EXCEPT !.ticket = ticket, !.region = ticket.region]

\* exchangeWithCandidates: a dead passToken ends it, another failure goes to the
\* next region.
Unminted(j) == IF j \in {"adopt", "paste"} THEN Goes(j, "read") ELSE Ends(j)
Mint(j) ==
  LET left == job[j].cands IN
  /\ At(j, "mint")
  /\ \/ /\ left # <<>> /\ job[j].sa.rows = login /\ NoOutage
        /\ \E ticket \in Fresh(Head(left)) :
             /\ live' = (live \cap Held) \cup {ticket}
             /\ Becomes(j, [job[j] EXCEPT !.at = "read", !.sa = Merged(job[j].sa, ticket)])
     \/ (left = <<>> \/ job[j].sa.rows # login) /\ NoOutage /\ Unminted(j) /\ UNCHANGED live
     \/ left # <<>> /\ Outage /\ Becomes(j, [job[j] EXCEPT !.cands = Tail(left)]) /\ UNCHANGED live
  /\ UNCHANGED <<doc, login, ran>>

\* preservePluginDocKeys: what the operator set is read before the save.
ReadKeys(j) ==
  /\ At(j, "read")
  /\ Becomes(j, [job[j] EXCEPT !.at = "save", !.phys = [NoDoc EXCEPT !.proxy = doc.proxy]])
  /\ UNCHANGED <<doc, login, live, ran, events>>

\* buildAuthFileJSON and host.auth.save: the copy, enabled, with the job's note.
NoteOf(j) == CASE j = "adopt" -> "adopted" [] j = "paste" -> "pasted" [] OTHER -> ""
Rebuilt(j) ==
  [region |-> job[j].sa.region, ticket |-> job[j].sa.ticket, rows |-> job[j].sa.rows,
   note |-> NoteOf(j), disabled |-> FALSE, proxy |-> job[j].phys.proxy]
Save(j) ==
  /\ At(j, "save")
  /\ \/ NoOutage /\ doc' = Rebuilt(j)
     \/ Outage /\ UNCHANGED doc
  /\ IF j \in {"adopt", "paste"} THEN Ends(j)
     ELSE Becomes(j, [job[j] EXCEPT !.at = "send", !.again = TRUE, !.phys = NoDoc])
  /\ UNCHANGED <<login, live, ran>>

-----------------------------------------------------------------------------
\* syncAuthUsageNote: the document is read, and saved with another note only
\* when the note differs.
SyncReads ==
  /\ At("sweep", "note")
  /\ IF doc.note = Shown THEN Ends("sweep")
     ELSE Becomes("sweep", [job["sweep"] EXCEPT !.at = "sync", !.phys = doc])
  /\ UNCHANGED <<doc, login, live, ran, events>>
Noted(d) == [d EXCEPT !.note = Shown, !.proxy = d.proxy \/ doc.proxy]
SyncSaves ==
  /\ At("sweep", "sync")
  /\ \/ NoOutage /\ doc' = Noted(job["sweep"].phys)
     \/ Outage /\ UNCHANGED doc
  /\ Ends("sweep")
  /\ UNCHANGED <<login, live, ran>>

\* The login rows as they are now, without a ticket.
Rows(r) == [region |-> r, ticket |-> NoTicket, rows |-> login]

\* adoptDesktopCookies: the desktop's login rows, a ticket at once, no region.
AdoptBegins ==
  /\ At("adopt", "idle") /\ ran < Rounds
  /\ ran' = ran + 1
  /\ Becomes("adopt", [Idle EXCEPT !.at = "mint", !.sa = Rows(""), !.cands = Candidates("")])
  /\ UNCHANGED <<doc, login, live, events>>

\* handleMimoCookieSubmitValues: the rows of a browser, and a region to prefer.
PasteBegins ==
  /\ At("paste", "idle") /\ ran < Rounds
  /\ ran' = ran + 1
  /\ \E pinned \in Regions \cup {""} :
       Becomes("paste", [Idle EXCEPT !.at = "mint", !.sa = Rows(pinned),
                                     !.cands = CandidatesPreferring(pinned, pinned)])
  /\ UNCHANGED <<doc, login, live, events>>

\* Tickets expire, the user logs in again, the operator acts at the host.
Expires == Outage /\ \E t \in live : live' = live \ {t} /\ UNCHANGED <<doc, login, job, ran>>
LogsInAgain == Outage /\ login = 0 /\ login' = 1 /\ UNCHANGED <<doc, live, job, ran>>
Operates ==
  /\ Outage
  /\ doc' \in {[doc EXCEPT !.disabled = ~ doc.disabled], [doc EXCEPT !.proxy = ~ doc.proxy]}
  /\ UNCHANGED <<login, live, job, ran>>

Works(j) == Send(j) \/ Finish(j) \/ Mint(j) \/ ReadKeys(j) \/ Save(j)
Sweeps == SweepBegins \/ Works("sweep") \/ SyncReads \/ SyncSaves
Next ==
  \/ ChatBegins \/ AdoptBegins \/ PasteBegins
  \/ Sweeps \/ \E j \in Jobs \ {"sweep"} : Works(j)
  \/ Expires \/ LogsInAgain \/ Operates

\* The sweep's loop runs on for as long as the plugin does.
Spec == Init /\ [][Next]_vars /\ WF_vars(Sweeps)

-----------------------------------------------------------------------------
\* The variables have their types.
TypeOK ==
  /\ doc.region \in Regions \cup {""} /\ doc.ticket.serial \in {0} \cup Serials
  /\ doc.note \in {"", "adopted", "pasted", Shown}
  /\ login \in {0, 1}
  /\ \A j \in Jobs : At(j, "idle") <=> job[j] = Idle
  /\ \A j \in Jobs : job[j].at \in {"idle", "send", "mint", "read", "save", "note", "sync", "finish"}

\* A ticket is only ever sent to the servers of its own region, whoever minted
\* it and whatever was saved in between: the retry goes where the mint moved the
\* account (executor.go:153-155, session.go:203-218).
TicketAtHome ==
  \A j \in Jobs : At(j, "send") /\ job[j].sa.ticket # NoTicket => Base(job[j].sa) = job[j].sa.ticket.region

\* A chat hands back every stream but the one it reads (executor.go:170-175).
StreamsClosed == \A j \in Jobs : At(j, "finish") => job[j].streams \subseteq {Attempt(j)}

\* Whatever expires and whoever overwrites the document with an older copy, in
\* the end it holds a ticket that its region accepts, unless its passToken was
\* replaced and nobody brought the new one (session.go:139-144).
Serving == Accepted(Base(doc), doc.ticket)
SessionHeals == <>[]Serving \/ <>[](doc.rows # login)

\* A card the user already sees is never blanked by a failure of the session
\* (usage.go:348-351).
\* The code does not keep this; see the README, section 7.
CardNotBlank == (\A j \in Jobs : At(j, "idle")) => doc.note # ""
=============================================================================
