--------------------------- MODULE WorkbuddyStream ---------------------------
(***************************************************************************)
(* One chat call of the workbuddy plugin past its gates                    *)
(* (plugins/workbuddy/stream.go; main.go, handleExecStream and             *)
(* handleExecExecute): the asynchronous pump with or without a head gate,  *)
(* the synchronous collector, and the fold of the non-stream executor. The *)
(* gate is two one-slot channels: the pump's outcome and the hand-off's    *)
(* token, which a pump that reports a failure waits for.                   *)
(***************************************************************************)
EXTENDS Naturals

CONSTANTS MaxFrames  \* bound of the upstream's chunks, for TLC only

VARIABLES mode,     \* gated, async, collect or execute
          hand,     \* the hand-off: before, waiting, open or refused
          outcome,  \* the gate's outcome channel
          token,    \* the gate's proceed channel
          pump,     \* before, sending, reading, asking the hand-off, or done
          attempts, \* requests sent
          gating,   \* the head is held back
          seen,     \* a completion payload arrived
          ended,    \* a finish reason or [DONE] arrived
          held,     \* chunks held back or collected
          out,      \* chunks the host took
          inband,   \* error frames emitted
          result    \* what publishUsage was told

gate == <<outcome, token>>
body == <<gating, seen, ended, held>>
report == <<out, inband, result>>
vars == <<mode, hand, gate, pump, attempts, body, report>>

Async == mode \in {"gated", "async"}

Init ==
  /\ mode \in {"gated", "async", "collect", "execute"}
  /\ hand = "before" /\ outcome = "none" /\ token = "none"
  /\ pump = "before" /\ attempts = 1
  /\ gating = (mode = "gated")
  /\ seen = FALSE /\ ended = FALSE /\ held = 0
  /\ out = 0 /\ inband = 0 /\ result = "none"

-----------------------------------------------------------------------------
\* streamHeadGate.release: the slot keeps what it has.
Releases == outcome' = IF gating /\ outcome = "none" THEN "answered" ELSE outcome

\* An error is the answer of a synchronous call; a pump asks the hand-off
\* while its gate g is armed, and otherwise tells the stream.
FailsInBand ==
  result' = "failed" /\ pump' = "done" /\ inband' = inband + 1 /\ UNCHANGED hand
FailsThrough(g) ==
  /\ result' = "failed"
  /\ IF ~ Async
     THEN hand' = "refused" /\ pump' = "done" /\ UNCHANGED <<outcome, inband>>
     ELSE IF g
     THEN /\ outcome' = IF outcome = "none" THEN "failure" ELSE outcome
          /\ pump' = "ask" /\ UNCHANGED <<hand, inband>>
     ELSE FailsInBand /\ UNCHANGED outcome

\* The pump's last word: the call succeeded.
Succeeds ==
  /\ result' = "ok" /\ pump' = "done" /\ UNCHANGED inband
  /\ hand' = IF Async THEN hand ELSE "open"

Start ==
  /\ pump = "before" /\ pump' = "send"
  /\ hand' = CASE mode = "gated" -> "wait"
               [] mode = "async" -> "open"
               [] OTHER -> hand
  /\ UNCHANGED <<mode, gate, attempts, body, report>>

\* No request can be built for the stream.
PrepareFails ==
  /\ pump = "before" /\ pump' = "done" /\ result' = "failed"
  /\ IF Async THEN hand' = "open" /\ inband' = inband + 1
     ELSE hand' = "refused" /\ UNCHANGED inband
  /\ UNCHANGED <<mode, gate, attempts, body, out>>

\* The bridge fails, or the upstream answers with an error status.
SendFails ==
  /\ pump = "send"
  /\ FailsThrough(mode = "gated")
  /\ UNCHANGED <<mode, token, attempts, body, out>>

\* A first 401 is healed: the token was renewed and the request is sent again.
Resend ==
  /\ pump = "send" /\ attempts = 1
  /\ attempts' = 2
  /\ UNCHANGED <<mode, hand, gate, pump, body, report>>

Accepted ==
  /\ pump = "send" /\ pump' = "read"
  /\ UNCHANGED <<mode, hand, gate, attempts, body, report>>

-----------------------------------------------------------------------------
\* What a line of the body says: a completion payload or a mere fragment, and
\* whether it ends the answer.
Says(payload, ends) == seen' = (seen \/ payload) /\ ended' = (ended \/ ends)

\* A line that becomes no chunk: a payload the filters empty, the terminator.
ReadsQuiet(payload, ends) ==
  /\ pump = "read" /\ Says(payload, ends)
  /\ UNCHANGED <<mode, hand, gate, pump, attempts, gating, held, report>>

\* A leading chunk waits behind the gate; a synchronous call keeps them all.
Holds(payload, ends) ==
  /\ pump = "read" /\ held + out < MaxFrames
  /\ gating \/ ~ Async
  /\ ends => payload
  /\ Says(payload, ends)
  /\ held' = held + 1
  /\ UNCHANGED <<mode, hand, gate, pump, attempts, gating, report>>

\* emitChunks: the host takes n chunks, or fewer and the pump returns.
Flushes(n) ==
  \E k \in 0 .. n :
    /\ out' = out + k
    /\ held' = 0
    /\ IF k = n THEN UNCHANGED <<pump, result>> ELSE pump' = "done" /\ result' = "left"

\* The first answer lets the gate go and flushes the head; later chunks go on.
Emits(payload, ends) ==
  /\ pump = "read" /\ Async /\ held + out < MaxFrames
  /\ ends \/ gating => payload
  /\ Says(payload, ends)
  /\ Releases /\ gating' = FALSE
  /\ Flushes(held + 1)
  /\ UNCHANGED <<mode, hand, token, attempts, inband>>

\* An error frame: while the gate holds, the held chunks are dropped with it.
FrameFails ==
  /\ pump = "read"
  /\ FailsThrough(gating)
  /\ held' = 0
  /\ UNCHANGED <<mode, token, attempts, gating, seen, ended, out>>

\* The body ends or breaks off. The gate is let go with what it held and what
\* the scrubbers still hold; an empty, broken or cut answer is a failure.
Whole(broken) == ~ broken /\ seen /\ ended

\* A synchronous call answers with all of it, as chunks or folded, or with the
\* failure.
Answers(broken, tail) ==
  /\ IF Whole(broken)
     THEN Succeeds /\ out' = held + tail /\ UNCHANGED outcome
     ELSE FailsThrough(FALSE) /\ UNCHANGED out
  /\ UNCHANGED gating

BodyEnds(broken, tail) ==
  /\ pump = "read"
  /\ IF Async
     THEN /\ Releases /\ gating' = FALSE
          /\ \E k \in 0 .. held + tail :
               /\ out' = out + k
               /\ IF k < held + tail
                  THEN pump' = "done" /\ result' = "left" /\ UNCHANGED <<hand, inband>>
                  ELSE IF Whole(broken) THEN Succeeds
                  ELSE FailsInBand
     ELSE Answers(broken, tail)
  /\ held' = 0
  /\ UNCHANGED <<mode, token, attempts, seen, ended>>

\* fail: the token decides whether the failure is the response or goes in-band.
AskAnswered ==
  /\ pump = "ask" /\ token # "none"
  /\ pump' = "done" /\ token' = "none"
  /\ inband' = IF token = "go" THEN inband + 1 ELSE inband
  /\ UNCHANGED <<mode, hand, outcome, attempts, body, out, result>>

-----------------------------------------------------------------------------
\* awaitStreamHead: a verdict or the timer, and exactly one token for the pump.
HandHearsAndLetsGo ==
  /\ hand = "wait" /\ outcome # "none"
  /\ outcome' = "none"
  /\ hand' = IF outcome = "failure" THEN "refused" ELSE "open"
  /\ token' = "go"
  /\ UNCHANGED <<mode, pump, attempts, body, report>>
HandHears ==
  /\ hand = "wait" /\ outcome # "none"
  /\ outcome' = "none"
  /\ hand' = IF outcome = "failure" THEN "refused" ELSE "open"
  /\ token' = IF outcome = "failure" THEN "stop" ELSE "go"
  /\ UNCHANGED <<mode, pump, attempts, body, report>>

HandTimesOutSilently ==
  /\ hand = "wait"
  /\ hand' = "open"
  /\ UNCHANGED <<mode, gate, pump, attempts, body, report>>
HandTimesOut ==
  /\ hand = "wait"
  /\ hand' = "open" /\ token' = "go"
  /\ UNCHANGED <<mode, outcome, pump, attempts, body, report>>

Sender == Start \/ PrepareFails \/ SendFails \/ Resend \/ Accepted \/ AskAnswered
Ends == \E b \in BOOLEAN, tail \in 0 .. 1 : BodyEnds(b, tail)
Reader == \/ FrameFails \/ Ends
          \/ \E p, b \in BOOLEAN : Holds(p, b) \/ Emits(p, b) \/ ReadsQuiet(p, b)
Handoff == HandHears \/ HandTimesOut

Next == Sender \/ Reader \/ Handoff

Spec == Init /\ [][Next]_vars

-----------------------------------------------------------------------------
\* The variables have their types.
TypeOK ==
  /\ mode \in {"gated", "async", "collect", "execute"}
  /\ hand \in {"before", "wait", "open", "refused"}
  /\ outcome \in {"none", "answered", "failure"} /\ token \in {"none", "go", "stop"}
  /\ pump \in {"before", "send", "read", "ask", "done"} /\ attempts \in 1 .. 2
  /\ gating \in BOOLEAN /\ seen \in BOOLEAN /\ ended \in BOOLEAN
  /\ held \in Nat /\ out \in Nat /\ inband \in Nat
  /\ result \in {"none", "failed", "left", "ok"}

Over == pump = "done" /\ hand \in {"open", "refused"}

\* "Neither side can deadlock on the other" (stream.go:110-113) and nothing is
\* told twice: a call that is over and failed was told of once, as the response
\* or in the stream, and any other not at all.
FaultTold ==
  Over => inband + (IF hand = "refused" THEN 1 ELSE 0) = (IF result = "failed" THEN 1 ELSE 0)

\* A success is an answer that came whole: payload, and a deliberate end.
WholeOnly == result = "ok" => seen /\ ended
=============================================================================
