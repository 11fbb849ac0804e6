----------------------------- MODULE QoderStream -----------------------------
(***************************************************************************)
(* One streamed chat call of the qoder plugin (plugins/qoder/stream.go,    *)
(* pumpUpstreamStream and streamHeadGate; queue_retry.go; the hand-off of  *)
(* main.go's handleExecStream): the pump goroutine that reads the upstream *)
(* and re-issues the request when it is given a queue ticket, the hand-off *)
(* that waits at the head gate for the pump's one-slot verdict or for its  *)
(* timer, and a client that may leave at any time.                         *)
(***************************************************************************)
EXTENDS Naturals

CONSTANTS MaxAttempts,   \* queueMaxAttempts
          FastAttempts,  \* queueFastAttempts, for tickets of an empty queue
          FastWait,      \* queueFastRetryBackoff
          Waits,         \* the intervals a ticket with a queue depth asks for
          Budget,        \* queueWaitBudget
          MaxFrames      \* bound of a round's frames, for TLC only

ASSUME QoderStreamAssumption ==
  /\ MaxAttempts \in Nat \ {0} /\ FastAttempts \in Nat /\ FastAttempts <= MaxAttempts
  /\ FastWait \in Nat \ {0} /\ Waits \subseteq Nat \ {0}
  /\ Budget \in Nat /\ MaxFrames \in Nat

VARIABLES gated,    \* stream_head_timeout is set
          hand,     \* the hand-off: waiting, its timer fired, stream or error returned
          slot,     \* the gate's verdict channel
          handedOff,\* the timed-out hand-off claimed the stream
          pump,     \* where the pump is
          attempt,  \* queue retries so far
          waited,   \* what they waited
          ticket,   \* the ticket being waited for
          seen,     \* seenPayload of this round
          ended,    \* sawFinish or sawTerminator of this round
          released, \* this round let the gate go
          head,     \* outgoing frames held back
          got,      \* outgoing frames the upstream sent, in all rounds
          out,      \* frames the host took
          inband,   \* in-band terminal errors
          recorded, \* calls of recordUpstreamFailure
          result,   \* what publishUsage was told
          client    \* the client still listens

round == <<seen, ended, released, head>>
retry == <<attempt, waited, ticket>>
report == <<inband, recorded, result>>
gate == <<slot, handedOff>>
flow == <<got, out, client>>
vars == <<gated, hand, gate, pump, retry, round, flow, report>>

Tickets == [empty : {TRUE}, wait : {FastWait}] \cup [empty : {FALSE}, wait : Waits]
NoTicket == [empty |-> FALSE, wait |-> 0]

Init ==
  /\ gated \in BOOLEAN
  /\ hand = "before" /\ slot = "none" /\ handedOff = FALSE
  /\ pump = "before"
  /\ attempt = 0 /\ waited = 0 /\ ticket = NoTicket
  /\ seen = FALSE /\ ended = FALSE /\ released = ~ gated /\ head = 0
  /\ got = 0 /\ out = 0 /\ client = TRUE
  /\ inband = 0 /\ recorded = 0 /\ result = "none"

-----------------------------------------------------------------------------
\* The gate's operations. Each runs under the gate's mutex and sends without
\* blocking: a full slot keeps the verdict it has.

Releases == slot' = IF slot = "none" /\ gated THEN "live" ELSE slot
Listening == gated /\ ~ handedOff /\ slot = "none"

\* The host takes frames until the client leaves.
Delivers(n) ==
  \E k \in 0 .. n :
    /\ ~ client => k = 0
    /\ out' = out + k
    /\ client' = (client /\ k = n)

\* release: the gate is let go and the head goes out.
ReleasesHead ==
  /\ released' = TRUE
  /\ head' = 0
  /\ IF released THEN UNCHANGED slot ELSE Releases
  /\ Delivers(head)

\* An emit failed: only usage is published.
Leaves == pump' = "done" /\ result' = "left" /\ UNCHANGED <<inband, recorded>>

\* fail, after the failure was published and perhaps recorded: it goes back as
\* an envelope while the hand-off listens, otherwise into the stream.
FailDropped == slot' = "failed" /\ UNCHANGED <<handedOff, inband, released, head, got, out, client>>
Fail ==
  \/ ~ released /\ Listening /\ FailDropped
  \/ /\ released \/ ~ Listening
     /\ ReleasesHead /\ inband' = inband + 1 /\ UNCHANGED <<handedOff, got>>

\* queueRetryAllowedFor.
WithinBudget(t, max) == attempt + 1 < max /\ waited + t.wait <= Budget

\* queueRetryContinue; the ladder's window belongs to all calls of the model,
\* so a first ticket of an empty queue may also be refused.
MayRetry(t) == WithinBudget(t, IF t.empty THEN FastAttempts ELSE MaxAttempts)
MayGiveUp(t) == ~ MayRetry(t) \/ (t.empty /\ attempt = 0)

-----------------------------------------------------------------------------
\* The handler fails before it has a request to send.
PrepareFails ==
  /\ pump = "before"
  /\ pump' = "done"
  /\ \/ hand' = "refused" /\ UNCHANGED inband
     \/ hand' = "open" /\ inband' = inband + 1
  /\ result' = "failed"
  /\ UNCHANGED <<gated, gate, retry, round, flow, recorded>>

\* The pump starts; without a gate the stream is handed over at once.
Start ==
  /\ pump = "before"
  /\ pump' = "send"
  /\ hand' = IF gated THEN "wait" ELSE "open"
  /\ UNCHANGED <<gated, gate, retry, round, flow, report>>

\* host.http.do_stream fails: the gate is released, the error is in-band and
\* the credential is not cooled.
SendFails ==
  /\ pump = "send"
  /\ pump' = "done" /\ result' = "failed"
  /\ Releases /\ inband' = inband + 1
  /\ UNCHANGED <<gated, hand, handedOff, retry, round, flow, recorded>>

\* An HTTP error that is no ticket.
Rejected ==
  /\ pump = "send"
  /\ pump' = "done" /\ result' = "failed" /\ recorded' = recorded + 1
  /\ Fail
  /\ UNCHANGED <<gated, hand, retry, seen, ended>>

Accepted ==
  /\ pump = "send"
  /\ pump' = "read"
  /\ UNCHANGED <<gated, hand, gate, retry, round, flow, report>>

\* A ticket is a signal to retry as the HTTP status, and as a frame while the
\* round has seen no payload.
TicketCounts == pump = "send" \/ (pump = "read" /\ ~ seen)

Queued(t) ==
  /\ TicketCounts /\ MayRetry(t)
  /\ pump' = "queue" /\ ticket' = t
  /\ UNCHANGED <<gated, hand, gate, attempt, waited, round, flow, report>>

\* reportQueueExhausted.
QueueExhausted(t) ==
  /\ TicketCounts /\ MayGiveUp(t)
  /\ pump' = "done" /\ result' = "failed" /\ recorded' = recorded + 1
  /\ Fail
  /\ UNCHANGED <<gated, hand, retry, seen, ended>>

\* The wait ends and the next round starts with its own witnesses. The wait
\* hears nothing of the client: only the pump itself cancels its context.
Requeued ==
  /\ pump = "queue"
  /\ pump' = "send"
  /\ attempt' = attempt + 1 /\ waited' = waited + ticket.wait
  /\ ticket' = NoTicket
  /\ seen' = FALSE /\ ended' = FALSE /\ released' = ~ gated /\ head' = 0
  /\ UNCHANGED <<gated, hand, gate, flow, report>>

RebuildFails ==
  /\ pump = "queue"
  /\ pump' = "done" /\ result' = "failed"
  /\ waited' = waited + ticket.wait /\ ticket' = NoTicket
  /\ Releases /\ inband' = inband + 1
  /\ UNCHANGED <<gated, hand, handedOff, attempt, round, flow, recorded>>

-----------------------------------------------------------------------------
\* A payload the filter leaves nothing of.
ReadsBlank ==
  /\ pump = "read"
  /\ seen' = TRUE
  /\ UNCHANGED <<gated, hand, gate, pump, retry, ended, released, head, flow, report>>

ReadsTerminator ==
  /\ pump = "read"
  /\ ended' = TRUE
  /\ UNCHANGED <<gated, hand, gate, pump, retry, seen, released, head, flow, report>>

\* A chunk that starts no answer is held back while the gate is closed.
Holds(finish) ==
  /\ pump = "read" /\ ~ released /\ got < MaxFrames
  /\ seen' = TRUE /\ ended' = (ended \/ finish)
  /\ got' = got + 1 /\ head' = head + 1
  /\ UNCHANGED <<gated, hand, gate, pump, retry, released, out, client, report>>

\* The first answer releases the head with it; later chunks go straight out.
Emits(finish) ==
  /\ pump = "read" /\ got < MaxFrames
  /\ seen' = TRUE /\ ended' = (ended \/ finish)
  /\ got' = got + 1 /\ head' = 0
  /\ released' = TRUE
  /\ IF released THEN UNCHANGED slot ELSE Releases
  /\ Delivers(head + 1)
  /\ IF out' = out + head + 1 THEN UNCHANGED <<pump, report>> ELSE Leaves
  /\ UNCHANGED <<gated, hand, handedOff, retry>>

\* A frame that carries an error, a ticket that comes too late included.
FrameFails ==
  /\ pump = "read"
  /\ pump' = "done" /\ result' = "failed" /\ recorded' = recorded + 1
  /\ Fail
  /\ UNCHANGED <<gated, hand, retry, seen, ended>>

\* The body ends or breaks off: the head is flushed first. A broken or empty
\* body is recorded, a truncated answer is not, and none goes to the gate.
BodyEnds(broken) ==
  /\ pump = "read"
  /\ ReleasesHead
  /\ IF out' # out + head THEN Leaves
     ELSE /\ pump' = "done"
          /\ IF ~ broken /\ seen /\ ended
             THEN result' = "ok" /\ UNCHANGED <<inband, recorded>>
             ELSE /\ result' = "failed"
                  /\ inband' = inband + 1
                  /\ recorded' = IF broken \/ ~ seen THEN recorded + 1 ELSE recorded
  /\ UNCHANGED <<gated, hand, handedOff, retry, seen, ended, got>>

ClientLeaves ==
  /\ pump \notin {"before", "done"} /\ client
  /\ client' = FALSE
  /\ UNCHANGED <<gated, hand, gate, pump, retry, round, got, out, report>>

-----------------------------------------------------------------------------
\* awaitHandoff: a verdict in time, or the timer and then, under the mutex,
\* the claim of the stream and a last look at the slot.
HandHears ==
  /\ hand = "wait" /\ slot # "none"
  /\ hand' = IF slot = "failed" THEN "refused" ELSE "open"
  /\ slot' = "none"
  /\ UNCHANGED <<gated, handedOff, pump, retry, round, flow, report>>

HandTimesOut ==
  /\ hand = "wait"
  /\ hand' = "claim"
  /\ UNCHANGED <<gated, gate, pump, retry, round, flow, report>>

HandClaimsBlindly ==
  /\ hand = "claim"
  /\ handedOff' = TRUE
  /\ hand' = "open" /\ slot' = "none"
  /\ UNCHANGED <<gated, pump, retry, round, flow, report>>
HandClaims ==
  /\ hand = "claim"
  /\ handedOff' = TRUE
  /\ hand' = IF slot = "failed" THEN "refused" ELSE "open"
  /\ slot' = "none"
  /\ UNCHANGED <<gated, pump, retry, round, flow, report>>

Reader == \/ ReadsBlank \/ ReadsTerminator \/ FrameFails
          \/ \E b \in BOOLEAN : Holds(b) \/ Emits(b) \/ BodyEnds(b)
Sender == \/ PrepareFails \/ Start \/ SendFails \/ Rejected \/ Accepted
          \/ Requeued \/ RebuildFails
          \/ \E t \in Tickets : Queued(t) \/ QueueExhausted(t)
Handoff == HandHears \/ HandTimesOut \/ HandClaims

Next == Reader \/ Sender \/ Handoff \/ ClientLeaves

Spec == Init /\ [][Next]_vars

-----------------------------------------------------------------------------
\* The variables have their types.
TypeOK ==
  /\ gated \in BOOLEAN /\ handedOff \in BOOLEAN /\ client \in BOOLEAN
  /\ seen \in BOOLEAN /\ ended \in BOOLEAN /\ released \in BOOLEAN
  /\ hand \in {"before", "wait", "claim", "open", "refused"}
  /\ slot \in {"none", "live", "failed"}
  /\ pump \in {"before", "send", "read", "queue", "done"}
  /\ attempt \in Nat /\ waited \in Nat /\ ticket \in Tickets \cup {NoTicket}
  /\ head \in Nat /\ got \in Nat /\ out \in Nat
  /\ inband \in Nat /\ recorded \in Nat
  /\ result \in {"none", "failed", "left", "ok"}

\* A call is refused as a whole, so the host may rotate to another credential:
\* nothing of it ever reached the stream ("Nothing was delivered, so the host
\* can rotate/cool on a real status", main.go:975).
RefusedUntouched ==
  hand = "refused" \/ slot = "failed" => out = 0 /\ inband = 0

\* Who reports a failure is exclusive, and somebody does (stream.go:149-151,
\* 387-390): once both goroutines are through, a failed call was reported
\* exactly once, as an envelope or in the stream, and any other not at all; the
\* credential is blamed at most once, and never for a client that left.
FailureToldOnce ==
  pump = "done" /\ hand \in {"open", "refused"} =>
    /\ inband + (IF hand = "refused" THEN 1 ELSE 0) = (IF result = "failed" THEN 1 ELSE 0)
    /\ recorded <= (IF result = "failed" THEN 1 ELSE 0)

\* The gate changes no byte of the stream ("the client sees the same bytes in
\* the same order as the ungated pump", stream.go:366): while the client is
\* there and the call is not refused, what the upstream sent is delivered or held.
NothingSkipped ==
  client /\ hand # "refused" /\ slot # "failed" => got = out + head

\* A call waits for queue tickets within its attempts and its budget, however
\* tickets with and without a queue depth alternate (queue_retry.go:24).
QueueBounded ==
  attempt < MaxAttempts /\ waited <= Budget

\* A queue retry is invisible to the consumer: the request is re-issued only
\* when the stream carries nothing and the verdict is still open (stream.go:327).
RetriesInvisible ==
  [][attempt' # attempt =>
       out = 0 /\ inband = 0 /\ got = 0 /\ slot = "none" /\ hand # "refused"]_vars

\* What the host sees of the call.
Verdict == IF hand \in {"open", "refused"} THEN hand ELSE "none"
Contract == INSTANCE StreamedCall WITH
  verdict <- Verdict, shown <- out, told <- inband > 0, credited <- result = "ok"
=============================================================================
