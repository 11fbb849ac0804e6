-------------------------- MODULE MimoAndLedgerProofs --------------------------
(* The mimo plugin and the usage ledger, for every region setting, set of     *)
(* flows and requests, retention and last hour: a ticket only goes to its own *)
(* region, a chat hands back every stream but the one it reads, a dialog ends *)
(* with its own user's credential, every window the hours still cover is      *)
(* summed exactly, and the ledger's file forgets only under a process that    *)
(* could not read it.                                                         *)
(*                                                                            *)
(* The three lanes share no state, so each has an inductive invariant of its  *)
(* own and a step of one leaves the others' variables alone.                  *)
EXTENDS MCMimoAndLedger, Integers, TLAPS

-----------------------------------------------------------------------------
(* The session.  The document and every copy a job holds name the region of  *)
(* the ticket beside it: whoever mints moves both together, and every save   *)
(* writes both.  A chat has the first stream until the second is there.      *)
Tickets == {NoTicket} \cup [region : Regions, serial : Serials]
Copies == [region : Regions \cup {""}, ticket : Tickets, rows : {0, 1}]
Notes == {"", "adopted", "pasted", Shown}
Docs == [region : Regions \cup {""}, ticket : Tickets, rows : {0, 1}, note : Notes,
         disabled : BOOLEAN, proxy : BOOLEAN]
Places == {"idle", "send", "mint", "read", "save", "note", "sync", "finish"}
JobTypes == [at : Places, sa : Copies, cands : Seq(Regions), again : BOOLEAN, phys : Docs,
           streams : SUBSET {1, 2}]

Homed(c) == c.ticket # NoTicket => c.region = c.ticket.region

(* The streams a job may hold where it is.                                   *)
MayHold(j, h) ==
  IF j # "chat" \/ (h.at = "send" /\ ~h.again) THEN {}
  ELSE IF h.at = "finish" /\ h.again THEN {2} ELSE {1}

JobOK(j, h) ==
  /\ h \in JobTypes /\ Homed(h.sa) /\ Homed(h.phys)
  /\ h.streams \subseteq MayHold(j, h)
  /\ h.at = "idle" => h = Idle

SessionInv ==
  /\ doc \in Docs /\ Homed(doc) /\ login \in {0, 1}
  /\ job \in [Jobs -> JobTypes]
  /\ \A j \in Jobs : JobOK(j, job[j])

LEMMA NothingHeld ==
  /\ NoTicket \in Tickets /\ NoDoc \in Docs /\ Homed(NoDoc)
  /\ Idle \in JobTypes /\ Idle.sa \in Copies
  /\ \A j \in Jobs : JobOK(j, Idle)
<1>1. NoTicket \in Tickets /\ NoDoc.ticket = NoTicket
  BY DEF Tickets, NoDoc
<1>2. NoDoc \in Docs /\ Homed(NoDoc)
  BY <1>1 DEF Docs, NoDoc, Notes, Homed
<1>3. /\ Idle.sa = [region |-> "", ticket |-> NoTicket, rows |-> 0] /\ Idle.at = "idle"
      /\ Idle.cands = <<>> /\ Idle.again = FALSE /\ Idle.phys = NoDoc /\ Idle.streams = {}
  BY DEF Idle
<1>4. Idle.sa \in Copies /\ Homed(Idle.sa)
  <2>1. [region |-> "", ticket |-> NoTicket, rows |-> 0] \in Copies
    BY <1>1 DEF Copies
  <2>2. Idle.sa.ticket = NoTicket
    BY DEF Idle
  <2>3. Idle.sa \in Copies
    BY <1>3, <2>1
  <2> QED  BY <2>2, <2>3 DEF Homed
<1>5. <<>> \in Seq(Regions)
  OBVIOUS
<1>6. Idle \in JobTypes
  BY <1>2, <1>4, <1>5 DEF JobTypes, Idle, Places, Copies, Tickets
<1> QED  BY <1>1, <1>2, <1>3, <1>4, <1>6 DEF JobOK

LEMMA SessionInit == Init => SessionInv
<1> SUFFICES ASSUME Init PROVE SessionInv
  OBVIOUS
<1>1. PICK r \in Regions, t \in BOOLEAN :
        doc = [NoDoc EXCEPT !.region = r,
                            !.ticket = IF t THEN [region |-> r, serial |-> 1] ELSE NoTicket,
                            !.note = "adopted"]
  BY DEF Init
<1> DEFINE ticket == IF t THEN [region |-> r, serial |-> 1] ELSE NoTicket
<1>2. ticket \in Tickets /\ (ticket # NoTicket => ticket.region = r)
  BY DEF Tickets, Serials
<1>3. /\ doc = [region |-> r, ticket |-> ticket, rows |-> 0, note |-> "adopted", disabled |-> FALSE,
                proxy |-> FALSE]
  BY <1>1 DEF NoDoc
<1> HIDE DEF ticket
<1>4. doc \in Docs /\ Homed(doc)
  BY <1>2, <1>3 DEF Docs, Homed, Notes
<1>5. login = 0 /\ job = [j \in Jobs |-> Idle]
  BY DEF Init
<1> QED  BY <1>4, <1>5, NothingHeld DEF SessionInv

(* One job moves to what it may hold.                                        *)
LEMMA OneJobMoves ==
  ASSUME SessionInv, NEW j \in Jobs, NEW h, JobOK(j, h), Becomes(j, h),
         doc' \in Docs, Homed(doc'), login' \in {0, 1}
  PROVE  SessionInv'
<1>1. /\ job' \in [Jobs -> JobTypes] /\ job'[j] = h
      /\ \A k \in Jobs \ {j} : job'[k] = job[k]
  BY DEF SessionInv, Becomes, JobOK
<1> QED  BY <1>1 DEF SessionInv

LEMMA CopiesHomed ==
  ASSUME SessionInv
  PROVE  CopyOf(doc) \in Copies /\ Homed(CopyOf(doc))
BY DEF SessionInv, CopyOf, Copies, Docs, Homed

LEMMA CandidatesAreRegions ==
  /\ \A r \in Regions \cup {""} : Candidates(r) \in Seq(Regions)
  /\ \A r \in Regions \cup {""} : CandidatesPreferring(r, r) \in Seq(Regions)
<1>0. \A r \in Regions : <<r>> \in Seq(Regions) /\ \A q \in Regions : <<r, q>> \in Seq(Regions)
  OBVIOUS
<1>1. \A r : Other(r) \in Regions
  BY DEF Other, Regions
<1>2. "sgp" \in Regions /\ "cn" \in Regions
  BY DEF Regions
<1>3. \A r \in Regions \cup {""} : Candidates(r) \in Seq(Regions)
  <2>2. CASE Mode \in Regions
    BY <1>0, <2>2 DEF Candidates
  <2>3. CASE Mode \notin Regions
    BY <1>0, <1>1, <1>2, <2>3 DEF Candidates
  <2> QED  BY <2>2, <2>3
<1>4. \A r \in Regions \cup {""} : CandidatesPreferring(r, r) \in Seq(Regions)
  <2> SUFFICES ASSUME NEW r \in Regions \cup {""} PROVE CandidatesPreferring(r, r) \in Seq(Regions)
    OBVIOUS
  <2>1. CASE r \in Regions
    <3>1. <<r>> \in Seq(Regions) /\ <<r, Other(r)>> \in Seq(Regions)
      BY <1>1, <1>0, <2>1
    <3> QED  BY <2>1, <3>1 DEF CandidatesPreferring
  <2>2. CASE r \notin Regions
    BY <1>3, <2>2 DEF CandidatesPreferring
  <2> QED  BY <2>1, <2>2
<1> QED  BY <1>3, <1>4

(* What a job takes with it when it moves on.                                *)
LEMMA JobFields ==
  ASSUME SessionInv, NEW j \in Jobs
  PROVE  /\ job[j] \in JobTypes /\ JobOK(j, job[j])
         /\ job[j].sa \in Copies /\ Homed(job[j].sa) /\ job[j].cands \in Seq(Regions)
         /\ job[j].phys \in Docs /\ Homed(job[j].phys)
         /\ job[j].again \in BOOLEAN /\ job[j].streams \subseteq {1, 2}
BY DEF SessionInv, JobOK, JobTypes

(* An answer opens the stream of the attempt; the retry's closes the first.  *)
LEMMA StreamsCarried ==
  ASSUME SessionInv, NEW j \in Jobs, At(j, "send")
  PROVE  /\ Opened(j) \subseteq {1, 2} /\ Carried(j) \subseteq {1, 2}
         /\ j # "chat" => Opened(j) = {} /\ Carried(j) = {}
         /\ ~job[j].again => Opened(j) \subseteq {1} /\ Carried(j) \subseteq {1}
         /\ job[j].again => Carried(j) \subseteq {2}
<1>1. job[j].streams \subseteq MayHold(j, job[j]) /\ job[j].at = "send" /\ job[j].again \in BOOLEAN
  BY JobFields DEF JobOK, At
<1>2. CASE j # "chat"
  BY <1>2 DEF Opened, Carried
<1>3. CASE j = "chat" /\ job[j].again
  BY <1>1, <1>3 DEF Opened, Carried, Attempt, MayHold
<1>4. CASE j = "chat" /\ ~job[j].again
  BY <1>1, <1>4 DEF Opened, Carried, Attempt, MayHold
<1> QED  BY <1>1, <1>2, <1>3, <1>4

(* A job that has sent goes on to an end, a note or a mint.                  *)
LEMMA SentMoves ==
  ASSUME SessionInv, NEW j \in Jobs, At(j, "send"), NEW place \in {"finish", "note"},
         place = "note" => j # "chat"
  PROVE  /\ JobOK(j, [job[j] EXCEPT !.at = place, !.streams = Carried(j)])
         /\ JobOK(j, [job[j] EXCEPT !.at = "finish", !.streams = {}])
         /\ ~job[j].again => JobOK(j, [job[j] EXCEPT !.at = "mint", !.streams = Opened(j),
                                                     !.cands = Candidates(job[j].sa.region)])
<1> DEFINE a == [job[j] EXCEPT !.at = place, !.streams = Carried(j)]
           u == [job[j] EXCEPT !.at = "finish", !.streams = {}]
           m == [job[j] EXCEPT !.at = "mint", !.streams = Opened(j),
                               !.cands = Candidates(job[j].sa.region)]
<1>1. Candidates(job[j].sa.region) \in Seq(Regions)
  BY JobFields, CandidatesAreRegions DEF Copies
<1>0. /\ place \in Places /\ "finish" \in Places /\ "mint" \in Places
      /\ Carried(j) \in SUBSET {1, 2} /\ Opened(j) \in SUBSET {1, 2} /\ {} \in SUBSET {1, 2}
  BY StreamsCarried DEF Places
<1>2. a \in JobTypes /\ u \in JobTypes /\ m \in JobTypes
  <2>1. job[j] \in JobTypes
    BY JobFields
  <2>2. a \in JobTypes
    BY <1>0, <2>1 DEF JobTypes
  <2>3. u \in JobTypes
    BY <1>0, <2>1 DEF JobTypes
  <2>4. m \in JobTypes
    BY <1>0, <1>1, <2>1 DEF JobTypes
  <2> QED  BY <2>2, <2>3, <2>4
<1>3. /\ a.sa = job[j].sa /\ a.phys = job[j].phys /\ a.again = job[j].again
      /\ a.at = place /\ a.streams = Carried(j)
  BY JobFields DEF JobTypes
<1>4. /\ u.sa = job[j].sa /\ u.phys = job[j].phys /\ u.at = "finish" /\ u.streams = {}
  BY JobFields DEF JobTypes
<1>5. /\ m.sa = job[j].sa /\ m.phys = job[j].phys /\ m.again = job[j].again
      /\ m.at = "mint" /\ m.streams = Opened(j)
  BY JobFields DEF JobTypes
<1> HIDE DEF a, u, m
<1>6. a.streams \subseteq MayHold(j, a)
  BY <1>3, StreamsCarried, JobFields DEF MayHold
<1>7. ~job[j].again => m.streams \subseteq MayHold(j, m)
  BY <1>5, StreamsCarried DEF MayHold
<1>8. JobOK(j, a)
  BY <1>2, <1>3, <1>6, JobFields DEF JobOK
<1>9. JobOK(j, u)
  BY <1>2, <1>4, JobFields DEF JobOK
<1>10. ~job[j].again => JobOK(j, m)
  BY <1>2, <1>5, <1>7, JobFields DEF JobOK
<1> QED  BY <1>8, <1>9, <1>10 DEF a, u, m

LEMMA SendStep ==
  ASSUME SessionInv, NEW j \in Jobs, Send(j)
  PROVE  SessionInv'
<1>1. At(j, "send") /\ UNCHANGED <<doc, login>>
  BY DEF Send, SendTo
<1>2. doc' \in Docs /\ Homed(doc') /\ login' \in {0, 1}
  BY <1>1 DEF SessionInv
<1> DEFINE rest == IF j = "sweep" THEN "note" ELSE "finish"
<1>3. rest \in {"finish", "note"} /\ (rest = "note" => j # "chat")
  OBVIOUS
<1>4. \/ Answered(j, rest) \/ Answered(j, "finish") \/ Unanswered(j)
      \/ ~job[j].again /\ Becomes(j, [job[j] EXCEPT !.at = "mint", !.streams = Opened(j),
                                                    !.cands = Candidates(job[j].sa.region)])
  BY JobFields DEF Send, SendTo, Refused
<1> HIDE DEF rest
<1>5. CASE Answered(j, rest)
  BY <1>1, <1>2, <1>3, <1>5, SentMoves, OneJobMoves DEF Answered
<1>6. CASE Answered(j, "finish")
  BY <1>1, <1>2, <1>6, SentMoves, OneJobMoves DEF Answered
<1>7. CASE Unanswered(j)
  BY <1>1, <1>2, <1>7, SentMoves, OneJobMoves DEF Unanswered
<1>8. CASE ~job[j].again /\ Becomes(j, [job[j] EXCEPT !.at = "mint", !.streams = Opened(j),
                                                      !.cands = Candidates(job[j].sa.region)])
  BY <1>1, <1>2, <1>8, SentMoves, OneJobMoves
<1> QED  BY <1>4, <1>5, <1>6, <1>7, <1>8

(* A minted ticket takes the copy to its region.                             *)
LEMMA MintedHome ==
  ASSUME NEW sa \in Copies, NEW r \in Regions, NEW ticket \in Fresh(r)
  PROVE  Merged(sa, ticket) \in Copies /\ Homed(Merged(sa, ticket))
<1>1. ticket \in Tickets /\ ticket.region = r
  <2>1. PICK n \in Serials : ticket = [region |-> r, serial |-> n]
    BY DEF Fresh, Unheld
  <2> QED  BY <2>1 DEF Tickets
<1> DEFINE c == Merged(sa, ticket)
<1>2. c \in Copies
  BY <1>1 DEF Merged, Copies
<1>3. c.region = ticket.region /\ c.ticket = ticket
  BY <1>1 DEF Merged, Copies
<1> QED  BY <1>2, <1>3 DEF Homed

LEMMA MintStep ==
  ASSUME SessionInv, NEW j \in Jobs, Mint(j)
  PROVE  SessionInv'
<1> DEFINE left == job[j].cands
<1>1. At(j, "mint") /\ UNCHANGED <<doc, login>> /\ left \in Seq(Regions)
  BY JobFields DEF Mint
<1>2. doc' \in Docs /\ Homed(doc') /\ login' \in {0, 1}
  BY <1>1 DEF SessionInv
<1>3. job[j].at = "mint" /\ job[j].streams \subseteq MayHold(j, job[j])
  BY <1>1, JobFields DEF At, JobOK
<1>4. job[j].streams \subseteq IF j = "chat" THEN {1} ELSE {}
  BY <1>3 DEF MayHold
<1>5. ASSUME left # <<>>, NEW ticket \in Fresh(Head(left)),
             Becomes(j, [job[j] EXCEPT !.at = "read", !.sa = Merged(job[j].sa, ticket)])
      PROVE  SessionInv'
  <2> DEFINE h == [job[j] EXCEPT !.at = "read", !.sa = Merged(job[j].sa, ticket)]
  <2>1. Head(left) \in Regions
    BY <1>1, <1>5
  <2>2. Merged(job[j].sa, ticket) \in Copies /\ Homed(Merged(job[j].sa, ticket))
    BY <1>5, <2>1, JobFields, MintedHome
  <2>3. h \in JobTypes
    <3>1. job[j] \in JobTypes /\ "read" \in Places
      BY JobFields DEF Places
    <3> QED  BY <2>2, <3>1 DEF JobTypes
  <2>4. /\ h.sa = Merged(job[j].sa, ticket) /\ h.phys = job[j].phys /\ h.at = "read"
        /\ h.streams = job[j].streams
    BY JobFields DEF JobTypes
  <2> HIDE DEF h
  <2>5. JobOK(j, h)
    BY <1>4, <2>2, <2>3, <2>4, JobFields DEF JobOK, MayHold
  <2> QED  BY <1>2, <1>5, <2>5, OneJobMoves DEF h
<1>6. CASE Unminted(j)
  <2> DEFINE h == [job[j] EXCEPT !.at = "read"]
  <2>1. h \in JobTypes
    BY JobFields DEF JobTypes, Places
  <2>2. h.sa = job[j].sa /\ h.phys = job[j].phys /\ h.at = "read" /\ h.streams = job[j].streams
    BY JobFields DEF JobTypes
  <2> HIDE DEF h
  <2>3. JobOK(j, h)
    BY <1>4, <2>1, <2>2, JobFields DEF JobOK, MayHold
  <2>4. Becomes(j, h) \/ Becomes(j, Idle)
    BY <1>6 DEF Unminted, Goes, Ends, h
  <2> QED  BY <1>2, <2>3, <2>4, OneJobMoves, NothingHeld
<1>7. ASSUME left # <<>>, Becomes(j, [job[j] EXCEPT !.cands = Tail(left)])
      PROVE  SessionInv'
  <2> DEFINE h == [job[j] EXCEPT !.cands = Tail(left)]
  <2>1. Tail(left) \in Seq(Regions)
    BY <1>1, <1>7
  <2>2. h \in JobTypes
    BY <2>1, JobFields DEF JobTypes
  <2>3. /\ h.sa = job[j].sa /\ h.phys = job[j].phys /\ h.at = job[j].at
        /\ h.streams = job[j].streams
    BY JobFields DEF JobTypes
  <2> HIDE DEF h
  <2>4. JobOK(j, h)
    BY <1>3, <1>4, <2>2, <2>3, JobFields DEF JobOK, MayHold
  <2> QED  BY <1>2, <1>7, <2>4, OneJobMoves DEF h
<1> QED  BY <1>5, <1>6, <1>7 DEF Mint

(* The plugin keys and the save; a save writes region and ticket together.   *)
LEMMA SaveSteps ==
  ASSUME SessionInv, NEW j \in Jobs, ReadKeys(j) \/ Save(j) \/ Finish(j)
  PROVE  SessionInv'
<1>1. /\ job[j] \in JobTypes /\ job[j].sa \in Copies /\ Homed(job[j].sa) /\ job[j].phys \in Docs
      /\ doc \in Docs /\ Homed(doc) /\ login \in {0, 1}
      /\ job[j].streams \subseteq MayHold(j, job[j])
  BY JobFields DEF SessionInv, JobOK
<1>2. CASE Finish(j)
  BY <1>1, <1>2, NothingHeld, OneJobMoves DEF Finish, Ends
<1>3. CASE ReadKeys(j)
  <2> DEFINE p == [NoDoc EXCEPT !.proxy = doc.proxy]
             h == [job[j] EXCEPT !.at = "save", !.phys = p]
  <2>1. p \in Docs /\ Homed(p)
    <3>1. doc.proxy \in BOOLEAN
      BY <1>1 DEF Docs
    <3>2. p \in Docs
      BY <3>1, NothingHeld DEF Docs
    <3>3. p.ticket = NoTicket
      BY DEF NoDoc
    <3> QED  BY <3>2, <3>3 DEF Homed
  <2> HIDE DEF p
  <2>2. h \in JobTypes
    BY <1>1, <2>1 DEF JobTypes, Places
  <2>3. /\ h.sa = job[j].sa /\ h.phys = p /\ h.at = "save" /\ h.streams = job[j].streams
    BY <1>1 DEF JobTypes
  <2>4. Becomes(j, h) /\ UNCHANGED <<doc, login>> /\ job[j].at = "read"
    BY <1>3 DEF ReadKeys, p, At
  <2> HIDE DEF h
  <2>5. JobOK(j, h)
    BY <1>1, <2>1, <2>2, <2>3, <2>4 DEF JobOK, MayHold
  <2> QED  BY <1>1, <2>4, <2>5, OneJobMoves
<1>4. CASE Save(j)
  <2> DEFINE d == Rebuilt(j)
             h == [job[j] EXCEPT !.at = "send", !.again = TRUE, !.phys = NoDoc]
  <2>1. d \in Docs
    <3>1. NoteOf(j) \in Notes
      BY DEF NoteOf, Notes
    <3> QED  BY <1>1, <3>1 DEF Rebuilt, Docs, Copies
  <2>2. d.region = job[j].sa.region /\ d.ticket = job[j].sa.ticket
    BY DEF Rebuilt
  <2>3. Homed(d)
    BY <1>1, <2>2 DEF Homed
  <2>4. h \in JobTypes
    BY <1>1, NothingHeld DEF JobTypes, Places
  <2>5. /\ h.sa = job[j].sa /\ h.phys = NoDoc /\ h.at = "send" /\ h.again = TRUE
        /\ h.streams = job[j].streams
    BY <1>1 DEF JobTypes
  <2>6. /\ doc' \in {d, doc} /\ login' = login /\ job[j].at = "save"
        /\ Becomes(j, h) \/ Becomes(j, Idle)
    BY <1>4 DEF Save, Ends, At
  <2> HIDE DEF d, h
  <2>7. JobOK(j, h)
    BY <1>1, <2>4, <2>5, <2>6, NothingHeld DEF JobOK, MayHold
  <2>8. doc' \in Docs /\ Homed(doc')
    BY <1>1, <2>1, <2>3, <2>6
  <2> QED  BY <1>1, <2>6, <2>7, <2>8, NothingHeld, OneJobMoves
<1> QED  BY <1>2, <1>3, <1>4

(* The note: the document as it was read, with another note.                 *)
LEMMA NoteSteps ==
  ASSUME SessionInv, SyncReads \/ SyncSaves
  PROVE  SessionInv'
<1>0. "sweep" \in Jobs
  BY DEF Jobs
<1>1. /\ job["sweep"] \in JobTypes /\ job["sweep"].phys \in Docs /\ Homed(job["sweep"].phys)
      /\ JobOK("sweep", job["sweep"])
      /\ doc \in Docs /\ Homed(doc) /\ login \in {0, 1}
  BY <1>0, JobFields DEF SessionInv
<1>2. CASE SyncReads
  <2> DEFINE h == [job["sweep"] EXCEPT !.at = "sync", !.phys = doc]
  <2>1. h \in JobTypes
    BY <1>1 DEF JobTypes, Places
  <2>2. /\ h.sa = job["sweep"].sa /\ h.phys = doc /\ h.at = "sync"
        /\ h.streams = job["sweep"].streams
    BY <1>1 DEF JobTypes
  <2>3. UNCHANGED <<doc, login>> /\ (Becomes("sweep", h) \/ Becomes("sweep", Idle))
    BY <1>2 DEF SyncReads, Ends
  <2> HIDE DEF h
  <2>4. JobOK("sweep", h)
    BY <1>1, <2>1, <2>2 DEF JobOK, MayHold
  <2> QED  BY <1>0, <1>1, <2>3, <2>4, NothingHeld, OneJobMoves
<1>3. CASE SyncSaves
  <2> DEFINE d == Noted(job["sweep"].phys)
  <2>1. d \in Docs
    BY <1>1 DEF Noted, Docs, Notes
  <2>2. d.ticket = job["sweep"].phys.ticket /\ d.region = job["sweep"].phys.region
    BY <1>1 DEF Noted, Docs
  <2>3. Homed(d)
    BY <1>1, <2>2 DEF Homed
  <2>4. doc' \in {d, doc} /\ login' = login /\ Becomes("sweep", Idle)
    BY <1>3 DEF SyncSaves, Ends
  <2> HIDE DEF d
  <2> QED  BY <1>0, <1>1, <2>1, <2>3, <2>4, NothingHeld, OneJobMoves
<1> QED  BY <1>2, <1>3

(* A job begins with a copy of the document, or with rows and no ticket.     *)
LEMMA Begun ==
  ASSUME SessionInv, NEW j \in Jobs, NEW sa \in Copies, Homed(sa), NEW cands \in Seq(Regions),
         NEW h, h = [Idle EXCEPT !.at = "send", !.sa = sa]
                \/ h = [Idle EXCEPT !.at = "mint", !.sa = sa, !.cands = cands]
  PROVE  JobOK(j, h)
<1>1. Idle \in JobTypes /\ Idle.phys = NoDoc /\ Idle.streams = {}
  BY NothingHeld DEF Idle
<1>2. h \in JobTypes
  BY <1>1 DEF JobTypes, Places
<1>3. h.sa = sa /\ h.phys = NoDoc /\ h.streams = {} /\ h.at \in {"send", "mint"}
  BY <1>1 DEF JobTypes
<1> QED  BY <1>2, <1>3, NothingHeld DEF JobOK, MayHold

LEMMA RowsHomed ==
  ASSUME SessionInv, NEW r \in Regions \cup {""}
  PROVE  Rows(r) \in Copies /\ Homed(Rows(r))
<1>1. Rows(r).ticket = NoTicket
  BY DEF Rows
<1>2. Rows(r) \in Copies
  BY NothingHeld DEF Rows, Copies, SessionInv
<1> QED  BY <1>1, <1>2 DEF Homed

LEMMA BeginSteps ==
  ASSUME SessionInv, ChatBegins \/ SweepBegins \/ AdoptBegins \/ PasteBegins
  PROVE  SessionInv'
<1>1. /\ UNCHANGED <<doc, login>>
      /\ doc' \in Docs /\ Homed(doc') /\ login' \in {0, 1}
  BY DEF SessionInv, ChatBegins, SweepBegins, AdoptBegins, PasteBegins
<1>2. Jobs = {"chat", "sweep", "adopt", "paste"} /\ <<>> \in Seq(Regions)
  BY DEF Jobs
<1>3. CASE ChatBegins
  <2>1. JobOK("chat", [Idle EXCEPT !.at = "send", !.sa = CopyOf(doc)])
    BY <1>2, Begun, CopiesHomed
  <2> QED  BY <1>1, <1>2, <1>3, <2>1, OneJobMoves DEF ChatBegins
<1>4. CASE SweepBegins
  <2>1. JobOK("sweep", [Idle EXCEPT !.at = "send", !.sa = CopyOf(doc)])
    BY <1>2, Begun, CopiesHomed
  <2> QED  BY <1>1, <1>2, <1>4, <2>1, OneJobMoves DEF SweepBegins
<1>5. CASE AdoptBegins
  <2>1. JobOK("adopt", [Idle EXCEPT !.at = "mint", !.sa = Rows(""), !.cands = Candidates("")])
    BY <1>2, Begun, RowsHomed, CandidatesAreRegions
  <2> QED  BY <1>1, <1>2, <1>5, <2>1, OneJobMoves DEF AdoptBegins
<1>6. CASE PasteBegins
  <2>1. PICK r \in Regions \cup {""} :
          Becomes("paste", [Idle EXCEPT !.at = "mint", !.sa = Rows(r),
                                        !.cands = CandidatesPreferring(r, r)])
    BY <1>6 DEF PasteBegins
  <2>2. JobOK("paste", [Idle EXCEPT !.at = "mint", !.sa = Rows(r),
                                    !.cands = CandidatesPreferring(r, r)])
    BY <1>2, Begun, RowsHomed, CandidatesAreRegions
  <2> QED  BY <1>1, <1>2, <2>1, <2>2, OneJobMoves
<1> QED  BY <1>3, <1>4, <1>5, <1>6

LEMMA SessionStep == SessionInv /\ Next => SessionInv'
<1> SUFFICES ASSUME SessionInv, Next PROVE SessionInv'
  OBVIOUS
<1>1. ASSUME NEW j \in Jobs, Works(j) PROVE SessionInv'
  BY <1>1, SendStep, MintStep, SaveSteps DEF Works
<1>2. CASE Expires \/ LogsInAgain
  BY <1>2 DEF Expires, LogsInAgain, SessionInv
<1>3. CASE Operates
  <2>1. PICK d \in {[doc EXCEPT !.disabled = ~doc.disabled], [doc EXCEPT !.proxy = ~doc.proxy]} :
          doc' = d
    BY <1>3 DEF Operates
  <2>2. doc \in Docs /\ Homed(doc)
    BY DEF SessionInv
  <2>3. d \in Docs
    BY <2>1, <2>2 DEF Docs
  <2>4. d.region = doc.region /\ d.ticket = doc.ticket
    BY <2>1, <2>2 DEF Docs
  <2>5. Homed(d)
    BY <2>2, <2>4 DEF Homed
  <2>6. UNCHANGED <<job, login>>
    BY <1>3 DEF Operates
  <2> QED  BY <2>1, <2>3, <2>5, <2>6 DEF SessionInv
<1>4. CASE Sweeps
  BY <1>1, <1>4, BeginSteps, NoteSteps DEF Sweeps, Jobs
<1> QED  BY <1>1, <1>2, <1>3, <1>4, BeginSteps DEF Next

(* What the invariant says of a ticket on its way and of the streams.        *)
LEMMA SessionFits == SessionInv => TypeOK /\ TicketAtHome /\ StreamsClosed
<1> SUFFICES ASSUME SessionInv PROVE TypeOK /\ TicketAtHome /\ StreamsClosed
  OBVIOUS
<1>1. \A t \in Tickets : t.serial \in {0} \cup Serials /\ (t # NoTicket => t.region \in Regions)
  <2>1. NoTicket.serial = 0
    BY DEF NoTicket
  <2> QED  BY <2>1 DEF Tickets
<1>2. TypeOK
  <2>1. /\ doc.region \in Regions \cup {""} /\ doc.ticket \in Tickets
        /\ doc.note \in {"", "adopted", "pasted", Shown} /\ login \in {0, 1}
    BY DEF SessionInv, Docs, Notes
  <2>2. \A j \in Jobs : job[j].at \in Places
    BY JobFields DEF JobTypes
  <2>3. \A j \in Jobs : At(j, "idle") <=> job[j] = Idle
    <3>1. Idle.at = "idle"
      BY DEF Idle
    <3> QED  BY <3>1, JobFields DEF JobOK, At
  <2> QED  BY <1>1, <2>1, <2>2, <2>3 DEF TypeOK, Places
<1>3. ASSUME NEW j \in Jobs, At(j, "send"), job[j].sa.ticket # NoTicket
      PROVE  Base(job[j].sa) = job[j].sa.ticket.region
  <2>1. job[j].sa.region = job[j].sa.ticket.region /\ job[j].sa.ticket \in Tickets
    BY <1>3, JobFields DEF Homed, Copies
  <2>2. job[j].sa.ticket.region \in Regions
    BY <1>1, <1>3, <2>1
  <2> QED  BY <2>1, <2>2 DEF Base
<1>4. ASSUME NEW j \in Jobs, At(j, "finish")
      PROVE  job[j].streams \subseteq {Attempt(j)}
  BY <1>4, JobFields DEF At, JobOK, MayHold, Attempt
<1> QED  BY <1>2, <1>3, <1>4 DEF TicketAtHome, StreamsClosed

-----------------------------------------------------------------------------
(* The logins.  A channel holds nothing or the result of its own flow, whose *)
(* user granted it; a grant is not taken back.                               *)
FlowTypes == [entry : {"none", "bound", "alone", "stored", "gone"}, serves : BOOLEAN,
              result : Flows \cup {NoFlow}, late : BOOLEAN, granted : BOOLEAN]

Dialogs == {"shut", "open", "failed", "done"}

OwnResult(f) == flow[f].result # NoFlow => flow[f].result = f /\ flow[f].granted

LoginInv ==
  /\ Login!TypeOK /\ Login!OwnCredential
  /\ flow \in [Flows -> FlowTypes] /\ dialog \in [Flows -> Dialogs]
  /\ \A f \in Flows : OwnResult(f)

(* However a flow moves, it keeps its own result and its grant.              *)
Moves(f, c) ==
  /\ c \in FlowTypes
  /\ flow[f].granted => c.granted
  /\ c.result # flow[f].result => c.result = f /\ c.granted

LEMMA FlowsMove ==
  ASSUME LoginInv, flow' \in [Flows -> FlowTypes], \A f \in Flows : Moves(f, flow'[f]),
         dialog' = dialog, saved \subseteq saved', saved' \subseteq Flows,
         pasting' \in Flows \cup {NoFlow}
  PROVE  LoginInv'
<1>1. \A f \in Flows : OwnResult(f)'
  BY DEF LoginInv, OwnResult, Moves
<1>2. Login!OwnCredential'
  BY DEF LoginInv, Login!OwnCredential, Moves
<1>3. Login!TypeOK'
  BY DEF LoginInv, Login!TypeOK, FlowTypes
<1> QED  BY <1>1, <1>2, <1>3 DEF LoginInv

(* One flow moves.                                                           *)
LEMMA OneFlowMoves ==
  ASSUME LoginInv, NEW f \in Flows, NEW c, Moves(f, c), flow' = [flow EXCEPT ![f] = c]
  PROVE  flow' \in [Flows -> FlowTypes] /\ \A g \in Flows : Moves(g, flow'[g])
BY DEF LoginInv, Moves

(* Flows that end keep everything but their server.                          *)
LEMMA EndedMove ==
  ASSUME LoginInv, NEW fs
  PROVE  /\ Login!Ended(flow, fs) \in [Flows -> FlowTypes]
         /\ \A f \in Flows : /\ Moves(f, Login!Ended(flow, fs)[f])
                             /\ Login!Ended(flow, fs)[f].granted = flow[f].granted
                             /\ Login!Ended(flow, fs)[f].result = flow[f].result
<1> DEFINE e == Login!Ended(flow, fs)
<1>1. ASSUME NEW f \in Flows
      PROVE  /\ e[f] \in FlowTypes /\ e[f].granted = flow[f].granted
             /\ e[f].result = flow[f].result
  BY DEF LoginInv, FlowTypes, Login!Ended
<1>2. e \in [Flows -> FlowTypes]
  BY <1>1 DEF Login!Ended
<1> QED  BY <1>1, <1>2 DEF Moves, LoginInv

LEMMA LoginInit == Login!Init => LoginInv
<1> SUFFICES ASSUME Login!Init PROVE LoginInv
  OBVIOUS
<1>1. /\ Login!Unborn \in FlowTypes /\ Login!Unborn.result = NoFlow
      /\ Login!Unborn.entry = "none"
  BY DEF Login!Unborn, FlowTypes
<1> QED  BY <1>1 DEF Login!Init, LoginInv, Login!TypeOK, Login!OwnCredential, OwnResult, Dialogs

LEMMA HandlerSteps ==
  ASSUME LoginInv, NEW f \in Flows, Login!StartLogin(f) \/ Login!Sweep(f)
  PROVE  LoginInv'
<1>1. flow[f] \in FlowTypes /\ Login!TypeOK
  BY DEF LoginInv
<1>2. CASE Login!StartLogin(f)
  <2> DEFINE c == [flow[f] EXCEPT !.entry = "bound", !.serves = TRUE]
  <2>1. Moves(f, c)
    BY <1>1 DEF Moves, FlowTypes
  <2>2. flow' = [flow EXCEPT ![f] = c]
    BY <1>1, <1>2 DEF LoginInv, Login!StartLogin, FlowTypes
  <2>3. UNCHANGED <<dialog, saved, pasting>>
    BY <1>2 DEF Login!StartLogin
  <2> HIDE DEF c
  <2> QED  BY <1>1, <2>1, <2>2, <2>3, OneFlowMoves, FlowsMove DEF Login!TypeOK
<1>3. CASE Login!Sweep(f)
  <2> DEFINE s == Login!Swept(f)
             c == [s[f] EXCEPT !.entry = "alone"]
  <2>1. s \in [Flows -> FlowTypes] /\ \A g \in Flows : Moves(g, s[g])
    BY EndedMove DEF Login!Swept
  <2>2. flow' = [s EXCEPT ![f].entry = "alone"] /\ UNCHANGED <<dialog, saved, pasting>>
    BY <1>3 DEF Login!Sweep
  <2> HIDE DEF s
  <2>3. /\ c \in FlowTypes /\ c.granted = s[f].granted /\ c.result = s[f].result
    BY <2>1 DEF FlowTypes
  <2>4. Moves(f, c)
    BY <2>1, <2>3 DEF Moves
  <2>5. flow' = [s EXCEPT ![f] = c]
    BY <2>1, <2>2
  <2> HIDE DEF c
  <2>6. flow' \in [Flows -> FlowTypes] /\ \A g \in Flows : Moves(g, flow'[g])
    BY <2>1, <2>3, <2>4, <2>5
  <2> QED  BY <1>1, <2>2, <2>6, FlowsMove DEF Login!TypeOK
<1> QED  BY <1>2, <1>3

(* The result comes by the callback, or pasted.                              *)
LEMMA ResultComes ==
  ASSUME LoginInv, NEW f \in Flows, flow[f].granted, Login!Delivered(f, f)
  PROVE  flow' \in [Flows -> FlowTypes] /\ \A g \in Flows : Moves(g, flow'[g])
<1> DEFINE c == [flow[f] EXCEPT !.result = IF flow[f].result = NoFlow THEN f ELSE flow[f].result]
<1>1. flow[f] \in FlowTypes
  BY DEF LoginInv
<1>2. Moves(f, c)
  BY <1>1 DEF Moves, FlowTypes
<1>3. flow' = [flow EXCEPT ![f] = c]
  BY DEF Login!Delivered
<1> HIDE DEF c
<1> QED  BY <1>2, <1>3, OneFlowMoves

LEMMA LoginStep == LoginInv /\ Login!Next => LoginInv'
<1> SUFFICES ASSUME LoginInv, Login!Next PROVE LoginInv'
  OBVIOUS
<1>0. Login!TypeOK /\ saved \subseteq Flows /\ pasting \in Flows \cup {NoFlow}
  BY DEF LoginInv, Login!TypeOK
<1>1. ASSUME NEW f \in Flows, Login!Store(f) PROVE LoginInv'
  <2> DEFINE c == [flow[f] EXCEPT !.entry = "stored"]
  <2>1. c \in FlowTypes /\ c.granted = flow[f].granted /\ c.result = flow[f].result
    BY DEF LoginInv, FlowTypes
  <2>2. flow' = [flow EXCEPT ![f] = c] /\ UNCHANGED <<saved, pasting>>
        /\ dialog' = [dialog EXCEPT ![f] = "open"]
    BY <1>1 DEF Login!Store
  <2> HIDE DEF c
  <2>3. /\ flow' \in [Flows -> FlowTypes]
        /\ \A g \in Flows : flow'[g].granted = flow[g].granted /\ flow'[g].result = flow[g].result
    BY <2>1, <2>2 DEF LoginInv
  <2>4. Login!TypeOK' /\ dialog' \in [Flows -> Dialogs]
    BY <1>0, <2>2, <2>3 DEF LoginInv, Login!TypeOK, FlowTypes, Dialogs
  <2>5. Login!OwnCredential'
    BY <2>2, <2>3 DEF LoginInv, Login!TypeOK, Login!OwnCredential
  <2> QED  BY <2>3, <2>4, <2>5 DEF LoginInv, OwnResult
<1>2. ASSUME NEW f \in Flows, Login!Callback(f) PROVE LoginInv'
  BY <1>0, <1>2, ResultComes, FlowsMove DEF Login!Callback
<1>3. ASSUME NEW f \in Flows, Login!Paste(f) PROVE LoginInv'
  BY <1>0, <1>3, ResultComes, FlowsMove DEF Login!Paste, Login!Matching
<1>4. ASSUME NEW f \in Flows, Login!Poll(f) PROVE LoginInv'
  <2>1. /\ flow' \in {flow, Login!Ended(flow, {f})} /\ pasting' = pasting
        /\ \/ dialog' = [dialog EXCEPT ![f] = "failed"] /\ saved' = saved
           \/ /\ dialog' = [dialog EXCEPT ![f] = "done"] /\ flow[f].result # NoFlow
              /\ saved' = saved \cup {flow[f].result}
    BY <1>4 DEF Login!Poll, Login!PollEnds, Login!ResultOf
  <2>2. /\ flow' \in [Flows -> FlowTypes]
        /\ \A g \in Flows : flow'[g].granted = flow[g].granted /\ flow'[g].result = flow[g].result
    BY <2>1, EndedMove DEF LoginInv
  <2>3. flow[f].result # NoFlow => flow[f].result = f /\ flow[f].granted
    BY DEF LoginInv, OwnResult
  <2>4. Login!TypeOK' /\ dialog' \in [Flows -> Dialogs]
    <3>1. saved' \subseteq Flows /\ pasting' \in Flows \cup {NoFlow}
      BY <1>0, <2>1, <2>3
    <3>2. dialog' \in [Flows -> Dialogs]
      BY <2>1 DEF LoginInv, Dialogs
    <3>3. \A g \in Flows : flow'[g].entry \in {"none", "bound", "alone", "stored", "gone"}
      BY <2>2 DEF FlowTypes
    <3> QED  BY <3>1, <3>2, <3>3 DEF Login!TypeOK, Dialogs
  <2>5. ASSUME NEW g \in Flows, dialog'[g] = "done" PROVE g \in saved' /\ flow'[g].granted
    <3>1. CASE g = f
      BY <2>1, <2>2, <2>3, <2>5, <3>1 DEF LoginInv
    <3>2. CASE g # f
      <4>1. dialog[g] = "done" /\ saved \subseteq saved'
        BY <2>1, <2>5, <3>2 DEF LoginInv
      <4> QED  BY <2>2, <4>1 DEF LoginInv, Login!OwnCredential
    <3> QED  BY <3>1, <3>2
  <2>6. Login!OwnCredential'
    BY <2>5 DEF Login!OwnCredential
  <2> QED  BY <2>2, <2>4, <2>6 DEF LoginInv, OwnResult
<1>5. ASSUME NEW f \in Flows, Login!Grants(f) \/ Login!GrowsLate(f) PROVE LoginInv'
  <2>1. flow[f] \in FlowTypes
    BY DEF LoginInv
  <2>2. Moves(f, [flow[f] EXCEPT !.granted = TRUE]) /\ Moves(f, [flow[f] EXCEPT !.late = TRUE])
    BY <2>1 DEF Moves, FlowTypes
  <2>3. /\ flow' = [flow EXCEPT ![f] = [flow[f] EXCEPT !.granted = TRUE]]
           \/ flow' = [flow EXCEPT ![f] = [flow[f] EXCEPT !.late = TRUE]]
        /\ UNCHANGED <<dialog, saved, pasting>>
    BY <1>5 DEF Login!Grants, Login!GrowsLate
  <2>4. flow' \in [Flows -> FlowTypes] /\ \A g \in Flows : Moves(g, flow'[g])
    BY <2>2, <2>3, OneFlowMoves
  <2> QED  BY <1>0, <2>3, <2>4, FlowsMove
<1>6. ASSUME NEW f \in Flows, Login!Shuts(f) PROVE LoginInv'
  BY <1>6 DEF Login!Shuts, LoginInv, Dialogs, Login!TypeOK, Login!OwnCredential, OwnResult
<1>7. CASE Login!PersistPasted
  BY <1>0, <1>7 DEF Login!PersistPasted, LoginInv, Login!TypeOK, Login!OwnCredential, OwnResult
<1>8. CASE Login!Janitor
  BY <1>0, <1>8, EndedMove, FlowsMove DEF Login!Janitor
<1> QED
  BY <1>1, <1>2, <1>3, <1>4, <1>5, <1>6, <1>7, <1>8, HandlerSteps DEF Login!Next, Login!Handler

-----------------------------------------------------------------------------
(* The ledger.  A book, in memory or in the file, counts requests that have  *)
(* begun and still has by the hour all those of the hours it covers; pruning *)
(* goes by the hour of a request, which is never ahead of the clock.  Whoever*)
(* knows the file has read it, so memory has all that the file has, unless   *)
(* the reading failed.                                                       *)
Entries == [total : SUBSET Requests, hours : SUBSET Requests, id : BOOLEAN,
            quota : {Ledger!NoWindow, Ledger!Cycle}]
Covered(r) == start[r] >= clock - Retention
Exact(e) ==
  /\ e \in Entries /\ e.hours \subseteq e.total
  /\ \A r \in e.total : start[r] # Ledger!NotBegun /\ (Covered(r) => r \in e.hours)
Book(b) == b \in [Ledger!Keys -> Entries] /\ \A k \in Ledger!Keys : Exact(b[k])
Within(b, c) == \A k \in Ledger!Keys : b[k].total \subseteq c[k].total

Segments == [total : SUBSET Requests, window : SUBSET Requests]
NoteTypes == {n \in [base : Int, segs : Seq(Segments)] : Len(n.segs) <= 1}
Writers == [at : {"idle", "read", "save"}, phys : NoteTypes]

Hour == clock \in 0 .. Hours /\ start \in [Requests -> {Ledger!NotBegun} \cup 0 .. clock]
Books ==
  /\ Book(ledger) /\ Book(disk)
  /\ dir \in {"unasked", "known", "empty"} /\ loaded \in BOOLEAN
  /\ loaded <=> dir # "unasked"
  /\ ~loaded => ledger = Ledger!Empty /\ ~unread
  /\ dir = "known" => unread \/ Within(disk, ledger)
NoteOK ==
  /\ note \in NoteTypes /\ credits \in Int
  /\ writer \in [Ledger!Keys -> Writers]

LedgerInv == Hour /\ Books /\ NoteOK

LEMMA EmptyBook ==
  /\ Book(Ledger!Empty) /\ \A k \in Ledger!Keys : Ledger!Empty[k].total = {}
  /\ Ledger!NotWriting \in Writers /\ \A n \in Int : [base |-> n, segs |-> <<>>] \in NoteTypes
<1>1. /\ Ledger!Nothing \in Entries /\ Ledger!Nothing.total = {} /\ Ledger!Nothing.hours = {}
  BY DEF Ledger!Nothing, Entries
<1>2. Exact(Ledger!Nothing)
  BY <1>1 DEF Exact
<1>3. \A n \in Int : [base |-> n, segs |-> <<>>] \in NoteTypes
  <2> SUFFICES ASSUME NEW n \in Int PROVE [base |-> n, segs |-> <<>>] \in NoteTypes
    OBVIOUS
  <2>1. <<>> \in Seq(Segments) /\ Len(<<>>) = 0
    OBVIOUS
  <2> QED  BY <2>1 DEF NoteTypes
<1>4. Ledger!NotWriting \in Writers
  <2>1. Ledger!NoFigure \in Int
    BY DEF Ledger!NoFigure
  <2> QED  BY <1>3, <2>1 DEF Writers, Ledger!NotWriting
<1> QED  BY <1>1, <1>2, <1>3, <1>4 DEF Book, Ledger!Empty

LEMMA LedgerInit == Ledger!Init => LedgerInv
<1> SUFFICES ASSUME Ledger!Init PROVE LedgerInv
  OBVIOUS
<1>1. Hour
  BY MimoAndLedgerAssumption DEF Ledger!Init, Hour
<1>2. Books
  BY EmptyBook DEF Ledger!Init, Books, Within
<1>3. NoteOK
  BY EmptyBook DEF Ledger!Init, NoteOK
<1> QED  BY <1>1, <1>2, <1>3 DEF LedgerInv

(* What is loaded is a book, and has what a known file has.                  *)
LEMMA LoadedIsBook ==
  ASSUME LedgerInv, NEW answer \in Ledger!Answers, NEW read \in BOOLEAN,
         Ledger!Loads(Ledger!Dir(answer), read)
  PROVE  LET d == Ledger!Dir(answer) IN
         /\ d \in {"known", "empty"} /\ Book(Ledger!Loaded(d, read))
         /\ d = "known" => unread' \/ Within(disk, Ledger!Loaded(d, read))
<1>1. Books
  BY DEF LedgerInv
<1>2. CASE loaded
  BY <1>1, <1>2 DEF Books, Ledger!Dir, Ledger!Loaded, Ledger!Loads
<1>3. CASE ~loaded
  BY <1>1, <1>3, EmptyBook DEF Books, Within, Ledger!Dir, Ledger!Loaded, Ledger!Loads, Ledger!Answers
<1> QED  BY <1>2, <1>3

(* A book is put in memory, and maybe to the file.                           *)
LEMMA BookKept ==
  ASSUME LedgerInv, NEW d \in {"known", "empty"}, NEW b, Book(b),
         d = "known" => unread' \/ Within(disk, b),
         dir' = d, loaded' = TRUE, ledger' = b,
         disk' = disk \/ (d = "known" /\ disk' = b), UNCHANGED <<clock, start>>
  PROVE  Books' /\ Ledger!FileGrows
<1>1. Book(disk)' /\ Book(ledger)'
  BY DEF LedgerInv, Books, Book, Exact, Covered
<1>2. Ledger!FileGrows
  BY DEF Within, Ledger!FileGrows
<1>3. dir' = "known" => unread' \/ Within(disk, ledger)'
  BY DEF Within
<1> QED  BY <1>1, <1>2, <1>3 DEF Books

(* Counting a request that has begun keeps an entry exact: its hour is not   *)
(* ahead of the clock, so pruning by it drops nothing that is still covered. *)
LEMMA CountedExact ==
  ASSUME Hour, NEW e, Exact(e), NEW r \in Requests, start[r] # Ledger!NotBegun
  PROVE  Exact(Ledger!Counted(e, r, TRUE)) /\ e.total \subseteq Ledger!Counted(e, r, TRUE).total
<1> DEFINE c == Ledger!Counted(e, r, TRUE)
<1>1. e \in Entries /\ e.hours \subseteq e.total
  BY DEF Exact
<1>2. /\ c.total = e.total \cup {r} /\ c.hours = Ledger!Pruned(e.hours \cup {r}, start[r])
      /\ c.id = TRUE /\ c.quota = e.quota
  BY <1>1 DEF Ledger!Counted, Entries
<1>3. Ledger!Pruned(e.hours \cup {r}, start[r]) \in SUBSET Requests
  BY <1>1 DEF Ledger!Pruned, Entries
<1>4. c \in Entries
  BY <1>1, <1>3 DEF Ledger!Counted, Entries
<1>5. /\ clock \in Nat /\ Retention \in Nat
      /\ \A x \in Requests : start[x] \in Int /\ start[x] <= clock
  BY MimoAndLedgerAssumption DEF Hour, Ledger!NotBegun
<1> HIDE DEF c
<1>6. c.hours \subseteq c.total
  BY <1>1, <1>2 DEF Ledger!Pruned
<1>7. ASSUME NEW x \in c.total
      PROVE  start[x] # Ledger!NotBegun /\ (Covered(x) => x \in c.hours)
  <2>1. x \in Requests /\ x \in e.total \cup {r}
    BY <1>2, <1>4, <1>7 DEF Entries
  <2>2. start[x] # Ledger!NotBegun /\ (Covered(x) => x \in e.hours \cup {r})
    BY <2>1 DEF Exact
  <2>3. Covered(x) => start[x] >= start[r] - Retention
    BY <1>5, <2>1 DEF Covered
  <2> QED  BY <1>2, <2>2, <2>3 DEF Ledger!Pruned
<1> QED  BY <1>2, <1>4, <1>6, <1>7 DEF Exact, c

(* A billing snapshot touches no count.                                      *)
LEMMA StampedExact ==
  ASSUME NEW e, Exact(e)
  PROVE  LET q == [e EXCEPT !.quota = Ledger!Cycle] IN Exact(q) /\ q.total = e.total
<1> DEFINE q == [e EXCEPT !.quota = Ledger!Cycle]
<1>1. q \in Entries /\ q.total = e.total /\ q.hours = e.hours
  BY DEF Exact, Entries
<1> HIDE DEF q
<1>2. Exact(q)
  BY <1>1 DEF Exact
<1> QED  BY <1>1, <1>2 DEF q

LEMMA OneEntry ==
  ASSUME NEW b, Book(b), NEW k \in Ledger!Keys, NEW e, Exact(e), b[k].total \subseteq e.total
  PROVE  Book([b EXCEPT ![k] = e]) /\ Within(b, [b EXCEPT ![k] = e])
<1>1. e \in Entries
  BY DEF Exact
<1> QED  BY <1>1 DEF Book, Within

LEMMA AskedNote ==
  ASSUME NoteOK, NEW k \in Ledger!Keys, Ledger!AsksNote(k), UNCHANGED <<note, credits>>
  PROVE  NoteOK'
<1>1. writer' \in [Ledger!Keys -> Writers]
  <2>1. CASE writer' = writer
    BY <2>1 DEF NoteOK
  <2>2. CASE writer' = [writer EXCEPT ![k].at = "read"]
    <3>1. [writer[k] EXCEPT !.at = "read"] \in Writers
      BY DEF NoteOK, Writers
    <3>2. writer' = [writer EXCEPT ![k] = [writer[k] EXCEPT !.at = "read"]]
      BY <2>2
    <3> QED  BY <3>1, <3>2 DEF NoteOK
  <2> QED  BY <2>1, <2>2 DEF Ledger!AsksNote
<1> QED  BY <1>1 DEF NoteOK

LEMMA CompletesStep ==
  ASSUME LedgerInv, NEW r \in Requests, NEW k \in Ledger!Keys, NEW answer \in Ledger!Answers,
         NEW read \in BOOLEAN, Ledger!Completes(r, k, answer, read)
  PROVE  LedgerInv' /\ Ledger!FileGrows
<1> DEFINE d == Ledger!Dir(answer)
           old == Ledger!Loaded(d, read)
           e == Ledger!Counted(old[k], r, TRUE)
           book == [old EXCEPT ![k] = e]
<1>1. Hour /\ NoteOK /\ start[r] # Ledger!NotBegun
  BY DEF LedgerInv, Ledger!Completes, Ledger!Pending
<1>2. Book(old) /\ d \in {"known", "empty"} /\ (d = "known" => unread' \/ Within(disk, old))
  BY LoadedIsBook DEF Ledger!Completes
<1>3. /\ dir' = d /\ loaded' = TRUE /\ ledger' = book
      /\ disk' = disk \/ (d = "known" /\ disk' = book)
      /\ Ledger!AsksNote(k) /\ UNCHANGED <<clock, start, note, credits>>
  BY DEF Ledger!Completes, Ledger!Loads, Ledger!Flushed, Ledger!clockVars
<1> HIDE DEF d, old
<1>4. Exact(old[k])
  BY <1>2 DEF Book
<1>5. Exact(e) /\ old[k].total \subseteq e.total
  BY <1>1, <1>4, CountedExact
<1> HIDE DEF e
<1>6. Book(book) /\ Within(old, book)
  BY <1>2, <1>5, OneEntry
<1> HIDE DEF book
<1>7. d = "known" => unread' \/ Within(disk, book)
  BY <1>2, <1>6 DEF Within
<1>8. Books' /\ Ledger!FileGrows
  BY <1>2, <1>3, <1>6, <1>7, BookKept
<1>9. Hour' /\ NoteOK'
  BY <1>1, <1>3, AskedNote DEF Hour
<1> QED  BY <1>8, <1>9 DEF LedgerInv

LEMMA StampStep ==
  ASSUME LedgerInv, NEW answer \in Ledger!Answers, NEW read \in BOOLEAN,
         Ledger!Stamp(answer, read)
  PROVE  LedgerInv' /\ Ledger!FileGrows
<1> DEFINE d == Ledger!Dir(answer)
           old == Ledger!Loaded(d, read)
<1>1. Book(old) /\ d \in {"known", "empty"} /\ (d = "known" => unread' \/ Within(disk, old))
  BY LoadedIsBook DEF Ledger!Stamp
<1>2. /\ dir' = d /\ loaded' = TRUE
      /\ UNCHANGED <<clock, start, note, credits, writer>>
      /\ \/ ledger' = old /\ disk' = disk
         \/ \E k \in Ledger!StampTargets(old) :
              /\ ledger' = [old EXCEPT ![k].quota = Ledger!Cycle]
              /\ disk' = disk \/ (d = "known" /\ disk' = ledger')
  BY DEF Ledger!Stamp, Ledger!Loads, Ledger!Flushed, Ledger!clockVars, Ledger!noteVars
<1>3. Ledger!StampTargets(old) \subseteq Ledger!Keys
  BY DEF Ledger!StampTargets, Ledger!Keys
<1> HIDE DEF d, old
<1>4. Books' /\ Ledger!FileGrows
  <2>1. CASE ledger' = old /\ disk' = disk
    BY <1>1, <1>2, <2>1, BookKept
  <2>2. ASSUME NEW k \in Ledger!Keys, ledger' = [old EXCEPT ![k].quota = Ledger!Cycle],
               disk' = disk \/ (d = "known" /\ disk' = ledger')
        PROVE  Books' /\ Ledger!FileGrows
    <3> DEFINE e == [old[k] EXCEPT !.quota = Ledger!Cycle]
               book == [old EXCEPT ![k] = e]
    <3>1. Exact(e) /\ e.total = old[k].total
      BY <1>1, StampedExact DEF Book
    <3>2. ledger' = book /\ (disk' = disk \/ (d = "known" /\ disk' = book))
      BY <2>2
    <3> HIDE DEF e
    <3>3. Book(book) /\ Within(old, book)
      BY <1>1, <3>1, OneEntry
    <3> HIDE DEF book
    <3>4. d = "known" => unread' \/ Within(disk, book)
      BY <1>1, <3>3 DEF Within
    <3> QED  BY <1>1, <1>2, <3>2, <3>3, <3>4, BookKept
  <2> QED  BY <1>2, <1>3, <2>1, <2>2
<1>5. Hour' /\ NoteOK'
  BY <1>2 DEF LedgerInv, Hour, NoteOK
<1> QED  BY <1>4, <1>5 DEF LedgerInv

(* The note's writer: the segment of the entry, and the book to the file.    *)
LEMMA WriterSteps ==
  ASSUME LedgerInv, NEW k \in Ledger!Keys, Ledger!Writes(k)
  PROVE  LedgerInv' /\ Ledger!FileGrows
<1>1. Hour /\ Books /\ NoteOK
  BY DEF LedgerInv
<1>2. CASE Ledger!WriterReads(k)
  <2>1. /\ writer' = [writer EXCEPT ![k] = [at |-> "save", phys |-> note]]
        /\ UNCHANGED <<clock, start, ledger, loaded, disk, dir, unread, note, credits>>
    BY <1>2 DEF Ledger!WriterReads, Ledger!clockVars, Ledger!bookVars
  <2>2. NoteOK'
    BY <1>1, <2>1 DEF NoteOK, Writers
  <2>3. Hour' /\ Books' /\ Ledger!FileGrows
    BY <1>1, <2>1 DEF Hour, Books, Book, Exact, Covered, Within, Ledger!FileGrows
  <2> QED  BY <2>2, <2>3 DEF LedgerInv
<1>3. CASE Ledger!WriterSaves(k)
  <2> DEFINE next == Ledger!Replaced(writer[k].phys, ledger[k])
  <2>1. /\ note' = note \/ note' = next
        /\ disk' = disk \/ (dir = "known" /\ disk' = ledger)
        /\ writer' = [writer EXCEPT ![k] = Ledger!NotWriting]
        /\ UNCHANGED <<clock, start, ledger, loaded, dir, unread, credits>>
    BY <1>3 DEF Ledger!WriterSaves, Ledger!Flushed, Ledger!clockVars
  <2>2. Ledger!Segment(ledger[k]) \in Segments
    <3>1. ledger[k] \in Entries
      BY <1>1 DEF Books, Book
    <3>2. \A w : \A rs \in SUBSET Requests : Ledger!InWindow(rs, w) \in SUBSET Requests
      BY DEF Ledger!InWindow
    <3>3. ledger[k].total \in SUBSET Requests /\ ledger[k].hours \in SUBSET Requests
      BY <3>1 DEF Entries
    <3> QED  BY <3>2, <3>3 DEF Ledger!Segment, Segments
  <2>3. next \in NoteTypes
    <3>1. writer[k].phys \in [base : Int, segs : Seq(Segments)]
      BY <1>1 DEF NoteOK, Writers, NoteTypes
    <3>2. /\ <<Ledger!Segment(ledger[k])>> \in Seq(Segments)
          /\ Len(<<Ledger!Segment(ledger[k])>>) = 1
      BY <2>2
    <3>3. /\ next \in [base : Int, segs : Seq(Segments)]
          /\ next.segs = <<Ledger!Segment(ledger[k])>>
      BY <3>1, <3>2 DEF Ledger!Replaced
    <3>4. Len(next.segs) <= 1
      BY <3>2, <3>3
    <3> QED  BY <3>3, <3>4 DEF NoteTypes
  <2> HIDE DEF next
  <2>4. NoteOK'
    BY <1>1, <2>1, <2>3, EmptyBook DEF NoteOK
  <2>5. Hour'
    BY <1>1, <2>1 DEF Hour
  <2>6. Books'
    BY <1>1, <2>1 DEF Books, Book, Exact, Covered, Within
  <2>7. Ledger!FileGrows
    BY <1>1, <2>1 DEF Books, Within, Ledger!FileGrows
  <2> QED  BY <2>4, <2>5, <2>6, <2>7 DEF LedgerInv
<1> QED  BY <1>2, <1>3 DEF Ledger!Writes

LEMMA LedgerStep == LedgerInv /\ Ledger!Next => LedgerInv' /\ Ledger!FileGrows
<1> SUFFICES ASSUME LedgerInv, Ledger!Next PROVE LedgerInv' /\ Ledger!FileGrows
  OBVIOUS
<1>0. Hour /\ Books /\ NoteOK
  BY DEF LedgerInv
<1>1. ASSUME NEW r \in Requests, Ledger!Begins(r) PROVE LedgerInv' /\ Ledger!FileGrows
  <2>1. /\ start[r] = Ledger!NotBegun /\ start' = [start EXCEPT ![r] = clock]
        /\ UNCHANGED <<clock, ledger, loaded, disk, dir, unread, writer, note, credits>>
    BY <1>1 DEF Ledger!Begins, Ledger!bookVars, Ledger!noteVars
  <2>2. Hour'
    BY <1>0, <2>1 DEF Hour
  <2>3. \A x \in Requests : start[x] # Ledger!NotBegun => start'[x] = start[x]
    BY <1>0, <2>1 DEF Hour
  <2>4. ASSUME NEW e, Exact(e) PROVE Exact(e)'
    BY <2>1, <2>3, <2>4 DEF Exact, Covered, Entries
  <2>5. Books'
    BY <1>0, <2>1, <2>4 DEF Books, Book, Within
  <2> QED  BY <1>0, <2>1, <2>2, <2>5 DEF LedgerInv, NoteOK, Ledger!FileGrows
<1>2. CASE Ledger!HourPasses
  <2>1. /\ clock < Hours /\ clock' = clock + 1
        /\ UNCHANGED <<start, ledger, loaded, disk, dir, unread, writer, note, credits>>
    BY <1>2 DEF Ledger!HourPasses, Ledger!bookVars, Ledger!noteVars
  <2>2. Hour'
    BY <1>0, <2>1, MimoAndLedgerAssumption DEF Hour, Ledger!NotBegun
  <2>3. \A x \in Requests : start'[x] = start[x] /\ (Covered(x)' => Covered(x))
    BY <1>0, <2>1, MimoAndLedgerAssumption DEF Hour, Covered, Ledger!NotBegun
  <2>4. ASSUME NEW e, Exact(e) PROVE Exact(e)'
    BY <2>1, <2>3, <2>4 DEF Exact, Entries
  <2>5. Books'
    BY <1>0, <2>1, <2>4 DEF Books, Book, Within
  <2> QED  BY <1>0, <2>1, <2>2, <2>5 DEF LedgerInv, NoteOK, Ledger!FileGrows
<1>3. CASE Ledger!SyncsNote \/ Ledger!MemoExpires \/ Ledger!Spends
  <2>1. /\ UNCHANGED <<clock, start, ledger, loaded, disk, dir, unread, writer>>
        /\ note' = note \/ note' = [base |-> credits, segs |-> <<>>]
        /\ credits' = credits \/ credits' = credits + 1
    BY <1>3 DEF Ledger!SyncsNote, Ledger!MemoExpires, Ledger!Spends, Ledger!clockVars,
                Ledger!bookVars
  <2>2. NoteOK'
    BY <1>0, <2>1, EmptyBook DEF NoteOK
  <2>3. Hour' /\ Books' /\ Ledger!FileGrows
    BY <1>0, <2>1 DEF Hour, Books, Book, Exact, Covered, Within, Ledger!FileGrows
  <2> QED  BY <2>2, <2>3 DEF LedgerInv
<1>4. CASE Ledger!Restarts
  <2>1. /\ ledger' = Ledger!Empty /\ loaded' = FALSE /\ dir' = "unasked" /\ unread' = FALSE
        /\ writer' = [k \in Ledger!Keys |-> Ledger!NotWriting]
        /\ UNCHANGED <<clock, start, disk, note, credits>>
    BY <1>4 DEF Ledger!Restarts, Ledger!clockVars
  <2>2. Hour' /\ NoteOK' /\ Ledger!FileGrows
    BY <1>0, <2>1, EmptyBook DEF Hour, NoteOK, Ledger!FileGrows
  <2>3. Book(disk)' /\ Book(ledger)'
    BY <1>0, <2>1, EmptyBook DEF Books, Book, Exact, Covered
  <2>4. Books'
    BY <2>1, <2>3 DEF Books
  <2> QED  BY <2>2, <2>4 DEF LedgerInv
<1> QED  BY <1>1, <1>2, <1>3, <1>4, CompletesStep, StampStep, WriterSteps DEF Ledger!Next

(* A window the hours cover sums the same from them as from all requests.    *)
LEMMA WindowsExact == LedgerInv => Ledger!TypeOK /\ Ledger!WindowExact
<1> SUFFICES ASSUME LedgerInv PROVE Ledger!TypeOK /\ Ledger!WindowExact
  OBVIOUS
<1>1. Ledger!TypeOK
  <2>1. clock \in 0 .. Hours /\ start \in [Requests -> {Ledger!NotBegun} \cup 0 .. Hours]
    BY MimoAndLedgerAssumption DEF LedgerInv, Hour
  <2>2. Len(note.segs) <= 1
    BY DEF LedgerInv, NoteOK, NoteTypes
  <2> QED  BY <2>1, <2>2 DEF Ledger!TypeOK, LedgerInv, Books, Book, Exact, Ledger!Answers
<1>2. ASSUME NEW k \in Ledger!Keys, NEW w \in Ledger!Windows, w.from >= clock - Retention
      PROVE  Ledger!InWindow(ledger[k].hours, w) = Ledger!InWindow(ledger[k].total, w)
  <2>1. /\ clock \in Nat /\ Retention \in Nat /\ w.from \in Nat
        /\ \A r \in Requests : start[r] \in Int
    BY MimoAndLedgerAssumption DEF LedgerInv, Hour, Ledger!Windows, Ledger!NotBegun
  <2>2. Exact(ledger[k])
    BY DEF LedgerInv, Books, Book
  <2>3. ASSUME NEW r \in ledger[k].total, start[r] >= w.from PROVE r \in ledger[k].hours
    <3>1. r \in Requests
      BY <2>2 DEF Exact, Entries
    <3> QED  BY <1>2, <2>1, <2>2, <2>3, <3>1 DEF Exact, Covered
  <2> QED  BY <2>2, <2>3 DEF Ledger!InWindow, Exact
<1> QED  BY <1>1, <1>2 DEF Ledger!WindowExact

-----------------------------------------------------------------------------
LanesInv == SessionInv /\ LoginInv /\ LedgerInv

(* A step of one lane, seen from another: its variables are unchanged.       *)
LEMMA LanesApart ==
  /\ SessionInv /\ UNCHANGED vars => SessionInv'
  /\ LoginInv /\ UNCHANGED loginVars => LoginInv'
  /\ LedgerInv /\ UNCHANGED ledgerVars => LedgerInv' /\ Ledger!FileGrows
<1>1. SessionInv /\ UNCHANGED vars => SessionInv'
  BY DEF SessionInv, vars
<1>2. LoginInv /\ UNCHANGED loginVars => LoginInv'
  BY DEF LoginInv, loginVars, Login!TypeOK, Login!OwnCredential, OwnResult
<1>3. LedgerInv /\ UNCHANGED ledgerVars => LedgerInv' /\ Ledger!FileGrows
  BY DEF LedgerInv, ledgerVars, Hour, Books, Book, Exact, Covered, Within, NoteOK, Ledger!FileGrows
<1> QED  BY <1>1, <1>2, <1>3

LEMMA LanesInductive ==
  /\ LanesInit => LanesInv
  /\ LanesInv /\ [LanesNext]_allVars => LanesInv' /\ Ledger!FileGrows
<1>1. LanesInit => LanesInv
  BY SessionInit, LoginInit, LedgerInit DEF LanesInit, LanesInv
<1>2. ASSUME LanesInv, [LanesNext]_allVars PROVE LanesInv' /\ Ledger!FileGrows
  <2>1. CASE Next /\ InSession
    BY <1>2, <2>1, SessionStep, LanesApart DEF LanesInv, InSession
  <2>2. CASE Login!Next /\ InLogin
    BY <1>2, <2>2, LoginStep, LanesApart DEF LanesInv, InLogin
  <2>3. CASE Ledger!Next /\ InLedger
    BY <1>2, <2>3, LedgerStep, LanesApart DEF LanesInv, InLedger
  <2>4. CASE UNCHANGED allVars
    BY <1>2, <2>4, LanesApart DEF LanesInv, allVars
  <2> QED  BY <1>2, <2>1, <2>2, <2>3, <2>4 DEF LanesNext
<1> QED  BY <1>1, <1>2

(* Whatever expires, whoever overwrites the document with an older copy and  *)
(* wherever a mint moves the account, a ticket is sent to its own region     *)
(* only; a chat is left with the stream it reads; and a dialog that ends     *)
(* well has saved what its own user granted (executor.go, management.go).    *)
THEOREM CredentialsAlwaysFit == LanesSpec => []CredentialsFit
<1>1. LanesInv => CredentialsFit
  BY SessionFits, WindowsExact DEF LanesInv, CredentialsFit, LanesTypeOK, LoginInv
<1> QED  BY <1>1, LanesInductive, PTL DEF LanesSpec

(* In whichever order requests end and whenever the plugin restarts, a       *)
(* window the hours still cover is summed exactly, and the file forgets a    *)
(* request only under a process whose read of it failed (usage_note.go).     *)
THEOREM LedgerAlwaysExact == LanesSpec => LedgerExact
<1>1. LanesInv => Ledger!WindowExact
  BY WindowsExact DEF LanesInv
<1>2. LanesInv /\ [LanesNext]_allVars => [Ledger!FileGrows]_Ledger!vars
  BY LanesInductive
<1> QED  BY <1>1, <1>2, LanesInductive, PTL DEF LanesSpec, LedgerExact, Ledger!LedgerExact
=============================================================================
