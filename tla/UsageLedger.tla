------------------------------ MODULE UsageLedger ------------------------------
(***************************************************************************)
(* The usage ledger of the plugins and the note it shares with the         *)
(* lifecycle (plugins/workbuddy: usage_note.go, usage.go, lifecycle.go).   *)
(* A completed request is counted under the hour it began in; the ledger   *)
(* goes to its file at most every 30 s, or with a billing snapshot or a    *)
(* note.  The note has two writers, each of which reads, merges and saves. *)
(***************************************************************************)
EXTENDS Integers, Sequences

CONSTANTS Requests,  \* the requests of one credential
          Hours,     \* the last hour
          Retention, \* usageHourRetention, in hours
          Changes    \* bound of new credit figures and of crashes, together

VARIABLES clock, start,            \* the hour, and the hour each request began in
          ledger, loaded,          \* usageLedgerState
          disk,                    \* the ledger's file
          dir,                     \* usageDataDirOnce
          unread,                  \* the ledger in memory began although the file could
                                   \* not be read (not state of the program)
          writer,                  \* the goroutines of usageNoteRefreshSoon
          note, credits, memo,     \* the note, and the lifecycle that writes its base
          events

clockVars == <<clock, start>>
bookVars == <<ledger, loaded, disk, dir, unread>>
noteVars == <<writer, note, credits, memo>>
vars == <<clockVars, bookVars, noteVars, events>>

Keys == {"index", "id"}   \* auth_index, and auth_id when the host omits it
NotBegun == -1
Windows == {[from |-> f, to |-> t] : f \in 0 .. Hours, t \in 1 .. Hours + 1}
NoWindow == [from |-> 0, to |-> 0]
Cycle == [from |-> 1, to |-> Hours + 1]   \* the account's billing cycle
Nothing == [total |-> {}, hours |-> {}, id |-> FALSE, quota |-> NoWindow]
Empty == [k \in Keys |-> Nothing]
NoFigure == -1
NotWriting == [at |-> "idle", phys |-> [base |-> NoFigure, segs |-> <<>>]]

Init ==
  /\ clock = 0 /\ start = [r \in Requests |-> NotBegun]
  /\ ledger = Empty /\ loaded = FALSE
  /\ disk = Empty /\ dir = "unasked" /\ unread = FALSE
  /\ writer = [k \in Keys |-> NotWriting]
  /\ note = [base |-> 0, segs |-> <<>>] /\ credits = 0 /\ memo = NoFigure
  /\ events = 0

-----------------------------------------------------------------------------
\* usageDataDir: the host is asked once, whatever it answers.
Dir(answer) == IF dir = "unasked" THEN answer ELSE dir
\* usageLedgerLocked: the first use loads, once.  The file's ledger when there is a
\* directory and the file is read and parsed, or brought from its old place, else an
\* empty one: which is then what memory holds and what the next flush writes.
Loaded(d, read) == IF loaded THEN ledger ELSE IF d = "known" /\ read THEN disk ELSE Empty
Loads(d, read) ==
  /\ dir' = d /\ loaded' = TRUE
  /\ unread' = IF loaded THEN unread ELSE d = "known" /\ ~ read /\ disk # Empty

\* usageLedgerFlushIfDue: to the file, unless it is too soon, there is no
\* directory, or the write fails.
Flushed(book, d) == (d = "known" /\ disk' = book) \/ UNCHANGED disk

\* usagePruneBuckets, with the hour of the request and not of the clock.
PrunedTight(hours, at) == {r \in hours : start[r] > at - Retention}
Pruned(hours, at) == {r \in hours : start[r] >= at - Retention}
Counted(e, r, id) ==
  [e EXCEPT !.total = @ \cup {r}, !.hours = Pruned(@ \cup {r}, start[r]), !.id = @ \/ id]

Begins(r) ==
  /\ start[r] = NotBegun
  /\ start' = [start EXCEPT ![r] = clock]
  /\ UNCHANGED <<clock, bookVars, noteVars, events>>

\* usageNoteRefreshSoon: a note less than 60 s old is not written again.
AsksNote(k) == writer' = writer \/ (writer[k] = NotWriting /\ writer' = [writer EXCEPT ![k].at = "read"])

\* handleUsage: usageLedgerObserve, then the note.  A request whose count was
\* lost with the memory stands for another that began with it and ends later.
All(book) == book["index"].total \cup book["id"].total
Pending == {r \in Requests : start[r] # NotBegun /\ r \notin All(ledger) \cup All(disk)}
Completes(r, k, answer, read) ==
  LET d == Dir(answer)
      book == [Loaded(d, read) EXCEPT ![k] = Counted(@, r, TRUE)] IN
  /\ r \in Pending
  /\ Loads(d, read) /\ ledger' = book
  /\ Flushed(book, d)
  /\ AsksNote(k)
  /\ UNCHANGED <<clockVars, note, credits, memo, events>>

\* usageQuotaStamp, called with the auth_id: its own entry, or the one whose
\* requests carried it; a credential without requests has none.
StampTargets(book) ==
  IF book["id"] # Nothing THEN {"id"} ELSE {k \in Keys : book[k].id}
Stamp(answer, read) ==
  LET d == Dir(answer)
      book == Loaded(d, read) IN
  /\ Loads(d, read)
  /\ \/ /\ StampTargets(book) = {} /\ ledger' = book /\ UNCHANGED disk
     \/ \E k \in StampTargets(book) :
          /\ ledger' = [book EXCEPT ![k].quota = Cycle]
          /\ Flushed(ledger', d)
  /\ UNCHANGED <<clockVars, noteVars, events>>

-----------------------------------------------------------------------------
\* usageNoteSegmentFor: everything counted, and the window when there is one.
InWindow(rs, w) == {r \in rs : start[r] >= w.from /\ start[r] < w.to}
Current(w) == w.to > w.from /\ clock >= w.from /\ clock <= w.to
Segment(e) ==
  [total |-> e.total, window |-> IF Current(e.quota) THEN InWindow(e.hours, e.quota) ELSE {}]

\* usageNoteWrite: the document is read, the segment replaced, and the whole saved.
WriterReads(k) ==
  /\ writer[k].at = "read"
  /\ writer' = [writer EXCEPT ![k] = [at |-> "save", phys |-> note]]
  /\ UNCHANGED <<clockVars, bookVars, note, credits, memo, events>>
Replaced(n, e) == [n EXCEPT !.segs = <<Segment(e)>>]
WriterSaves(k) ==
  LET next == Replaced(writer[k].phys, ledger[k]) IN
  /\ writer[k].at = "save"
  /\ IF next = writer[k].phys THEN UNCHANGED <<note, disk>>
     ELSE \/ note' = next /\ Flushed(ledger, dir)
          \/ UNCHANGED <<note, disk>>
  /\ writer' = [writer EXCEPT ![k] = NotWriting]
  /\ UNCHANGED <<clockVars, ledger, loaded, dir, unread, credits, memo, events>>

\* syncAuthNote: nothing to do while lifecycleState says the base is written.
\* Of the note it reads, creditSegmentFromNote keeps what stands before the marker.
MemoStays == memo # NoFigure /\ UNCHANGED memo
MemoForgets == memo # NoFigure /\ memo' = NoFigure
SyncsNote ==
  /\ memo # credits
  /\ note' = [base |-> credits, segs |-> <<>>] /\ memo' = credits
  /\ UNCHANGED <<clockVars, bookVars, writer, credits, events>>

-----------------------------------------------------------------------------
\* Time passes: the hour, the memo's 30 s.
HourPasses == clock < Hours /\ clock' = clock + 1 /\ UNCHANGED <<start, bookVars, noteVars, events>>
MemoExpires ==
  /\ MemoForgets
  /\ UNCHANGED <<clockVars, bookVars, writer, note, credits, events>>

\* The account's credits change, or the plugin is restarted.
Spends ==
  /\ events < Changes /\ events' = events + 1
  /\ credits' = credits + 1
  /\ UNCHANGED <<clockVars, bookVars, writer, note, memo>>
Restarts ==
  /\ events < Changes /\ events' = events + 1
  /\ ledger' = Empty /\ loaded' = FALSE /\ dir' = "unasked" /\ unread' = FALSE
  /\ writer' = [k \in Keys |-> NotWriting] /\ memo' = NoFigure
  /\ UNCHANGED <<clockVars, disk, note, credits>>

Writes(k) == WriterReads(k) \/ WriterSaves(k)
Answers == {"known", "empty"}
Next ==
  \/ \E r \in Requests : Begins(r) \/ \E k \in Keys, a \in Answers, read \in BOOLEAN : Completes(r, k, a, read)
  \/ \E a \in Answers, read \in BOOLEAN : Stamp(a, read)
  \/ \E k \in Keys : Writes(k)
  \/ SyncsNote \/ HourPasses \/ MemoExpires
  \/ Spends \/ Restarts

\* Goroutines and the lifecycle's loop get their turn; 30 s pass.
Spec ==
  /\ Init /\ [][Next]_vars
  /\ \A k \in Keys : WF_vars(Writes(k))
  /\ WF_vars(SyncsNote) /\ WF_vars(MemoExpires)

-----------------------------------------------------------------------------
\* The variables have their types; a note has at most one segment.
TypeOK ==
  /\ clock \in 0 .. Hours /\ start \in [Requests -> {NotBegun} \cup 0 .. Hours]
  /\ dir \in {"unasked"} \cup Answers /\ ~ loaded => ledger = Empty /\ ~ unread
  /\ \A k \in Keys : ledger[k].hours \subseteq ledger[k].total
  /\ Len(note.segs) <= 1

\* In whichever order requests end, every window the hours still cover is summed
\* exactly (usage_note.go:15-18, 300-314).
WindowExact ==
  \A k \in Keys, w \in Windows :
    w.from >= clock - Retention => InWindow(ledger[k].hours, w) = InWindow(ledger[k].total, w)

\* The file forgets a request only under a process whose one read of it failed and
\* which writes over it; a restart by itself, or a host that does not say at first
\* where the file is, loses nothing of it (usage_note.go:125-128, 205-218, 242-244).
FileGrows == \A k \in Keys : unread' \/ disk[k].total \subseteq disk'[k].total

\* Both, along every step.
LedgerExact == [][WindowExact' /\ FileGrows]_vars

\* Whatever the two writers overwrite, the base ends as the lifecycle wants it.
NoteSettles == <>[](note.base = credits)

\* The lifecycle preserves the usage segment (usage_note.go:35-36).
SegmentKept == [][note.segs # <<>> => note'.segs # <<>>]_vars
=============================================================================
