----------------------------- MODULE PlainStream -----------------------------
(***************************************************************************)
(* One streamed chat call of the plugins without a head gate: zcode        *)
(* (stream.go; signing.go's ladder; plane.go's fallback to the JWT plane), *)
(* mimo (stream.go; executor.go's cookie ladder) and trae's international  *)
(* lane (intl_main.go). Each runs as a pump behind a stream that is open   *)
(* from the start, or collects the chunks for a synchronous answer.        *)
(***************************************************************************)
EXTENDS Naturals

CONSTANTS MaxFrames  \* bound of the upstream's chunks, for TLC only

VARIABLES plugin,   \* zcode, mimo or intl
          mode,     \* async or collect
          wire,     \* openai or anthropic: zcode's coding and start planes
          at,       \* before, send, read, pump, done
          sends,    \* requests sent
          memo,     \* zcode: the model is noted as one of the start plane
          cooled,   \* zcode: failures recorded against the pair
          seen,     \* the upstream sent a payload
          finished, \* zcode's translation has its finish chunk
          kept,     \* chunks collected
          out,      \* chunks the host took
          verdict,  \* none, open or refused
          inband,   \* error frames emitted
          result    \* none, failed, left or ok

call == <<plugin, mode>>
body == <<seen, finished, kept>>
vars == <<call, wire, at, sends, memo, cooled, body, out, verdict, inband, result>>

Init ==
  /\ plugin \in {"zcode", "mimo", "intl"} /\ mode \in {"async", "collect"}
  /\ wire \in {"openai", "anthropic"} /\ (wire = "anthropic" => plugin = "zcode")
  /\ at = "before" /\ sends = 0 /\ memo = FALSE /\ cooled = 0
  /\ seen = FALSE /\ finished = FALSE /\ kept = 0
  /\ out = 0 /\ verdict = "none" /\ inband = 0 /\ result = "none"

\* Only zcode and mimo open the stream before they send.
Pumps == mode = "async" /\ plugin # "intl"

\* The call fails: the stream is told, or the call is refused.
Fails ==
  /\ at' = "done" /\ result' = "failed"
  /\ IF Pumps THEN inband' = inband + 1 /\ UNCHANGED verdict
     ELSE verdict' = "refused" /\ UNCHANGED inband

\* recordUpstreamFailure of the call's pair.
Cools == cooled' = IF plugin = "zcode" THEN cooled + 1 ELSE cooled

Start ==
  /\ at = "before"
  /\ at' = "send" /\ verdict' = IF Pumps THEN "open" ELSE verdict
  /\ sends' = 1
  /\ UNCHANGED <<call, wire, memo, cooled, body, out, inband, result>>

\* The body cannot be built, or the renewal before an intl call fails.
PrepareFails ==
  /\ at = "before"
  /\ at' = "done" /\ verdict' = "refused" /\ result' = "failed"
  /\ UNCHANGED <<call, wire, sends, memo, cooled, body, out, inband>>

SendFails ==
  /\ at = "send"
  /\ Fails
  /\ UNCHANGED <<call, wire, sends, memo, cooled, body, out>>

\* sendChatWithSigning: a VERIFY rejection is signed anew, then sent unsigned.
\* sendChatWithCookieRetry: a session fault is re-minted and sent again once.
Resends ==
  /\ at = "send"
  /\ \/ plugin = "zcode" /\ wire = "openai" /\ sends < 3
     \/ plugin = "mimo" /\ sends < 2
  /\ sends' = sends + 1
  /\ UNCHANGED <<call, wire, at, memo, cooled, body, out, verdict, inband, result>>

\* An error status. A coding-plane refusal for want of a package is tried on
\* the JWT plane first; what that plane answers wins.
Rejected ==
  /\ at = "send"
  /\ Fails /\ Cools
  /\ UNCHANGED <<call, wire, sends, memo, body, out>>

FallsBack ==
  /\ at = "send" /\ plugin = "zcode" /\ wire = "openai"
  /\ wire' = "anthropic" /\ memo' = TRUE /\ at' = "read"
  /\ UNCHANGED <<call, sends, cooled, body, out, verdict, inband, result>>

Accepted ==
  /\ at = "send"
  /\ at' = "read"
  /\ UNCHANGED <<call, wire, sends, memo, cooled, body, out, verdict, inband, result>>

-----------------------------------------------------------------------------
\* A translated anthropic answer has one finish chunk: of the first stop
\* reason, or of message_stop.
MayFinish == wire = "anthropic" /\ ~ finished

\* A chunk: the pump emits it, and returns when the host takes no more.
Reads(ends) ==
  /\ at = "read" /\ kept + out < MaxFrames
  /\ ends => MayFinish
  /\ seen' = TRUE /\ finished' = (finished \/ ends)
  /\ IF ~ Pumps THEN kept' = kept + 1 /\ UNCHANGED <<at, out, result>>
     ELSE /\ UNCHANGED kept
          /\ \/ out' = out + 1 /\ UNCHANGED <<at, result>>
             \/ at' = "done" /\ result' = "left" /\ UNCHANGED out
  /\ UNCHANGED <<call, wire, sends, memo, cooled, verdict, inband>>

\* A payload that becomes no chunk.
ReadsQuiet ==
  /\ at = "read"
  /\ seen' = TRUE
  /\ UNCHANGED <<call, wire, at, sends, memo, cooled, finished, kept, out, verdict, inband, result>>

\* An error frame; the international lane looks at none.
FrameFails ==
  /\ at = "read" /\ plugin # "intl"
  /\ Fails /\ Cools
  /\ UNCHANGED <<call, wire, sends, memo, body, out>>

\* flushFinal gives the collected anthropic stream the finish it lacks.
Flushed == IF mode = "collect" /\ wire = "anthropic" /\ ~ finished THEN 1 ELSE 0

\* seenPayload at the end of the body, the flushed finish included.
SeenPayload == seen \/ Flushed = 1

Empty == plugin # "intl" /\ ~ SeenPayload

BodyEnds(broken) ==
  /\ at = "read"
  /\ IF broken \/ Empty
     THEN Fails /\ Cools /\ UNCHANGED <<kept, out>>
     ELSE /\ UNCHANGED <<cooled, inband>>
          /\ IF plugin = "intl" /\ mode = "async"
             THEN at' = "pump" /\ verdict' = "open" /\ UNCHANGED <<kept, out, result>>
             ELSE /\ at' = "done" /\ result' = "ok" /\ verdict' = "open"
                  /\ IF mode = "collect" THEN out' = kept + Flushed ELSE UNCHANGED out
                  /\ kept' = 0
  /\ UNCHANGED <<call, wire, sends, memo, seen, finished>>

\* The international lane opens the stream once it has read everything.
IntlEmits ==
  /\ at = "pump"
  /\ \E k \in 0 .. kept :
       /\ out' = k /\ kept' = 0
       /\ result' = IF k = kept THEN "ok" ELSE "left"
  /\ at' = "done"
  /\ UNCHANGED <<call, wire, sends, memo, cooled, seen, finished, verdict, inband>>

Sender == \/ Start \/ PrepareFails \/ SendFails \/ Resends
          \/ Rejected \/ FallsBack \/ Accepted \/ IntlEmits
Ends == \E b \in BOOLEAN : BodyEnds(b)
Next == Sender \/ ReadsQuiet \/ FrameFails \/ Ends \/ \E b \in BOOLEAN : Reads(b)

Spec == Init /\ [][Next]_vars

-----------------------------------------------------------------------------
\* The variables have their types.
TypeOK ==
  /\ plugin \in {"zcode", "mimo", "intl"} /\ mode \in {"async", "collect"}
  /\ wire \in {"openai", "anthropic"} /\ at \in {"before", "send", "read", "pump", "done"}
  /\ sends \in 0 .. 3 /\ memo \in BOOLEAN /\ cooled \in 0 .. 1
  /\ seen \in BOOLEAN /\ finished \in BOOLEAN
  /\ kept \in Nat /\ out \in Nat /\ inband \in Nat
  /\ verdict \in {"none", "open", "refused"} /\ result \in {"none", "failed", "left", "ok"}

\* A call that is over and failed was told of once: in the stream or as the
\* answer; nobody is told of a failure of a call that did not fail.
FaultTold ==
  at = "done" =>
    inband + (IF verdict = "refused" THEN 1 ELSE 0) = (IF result = "failed" THEN 1 ELSE 0)

\* "A 200 envelope stream with zero payload is an upstream failure, not a silent
\* success (all three paths symmetric)" (zcode/stream.go:272-273).
\* The code does not keep this; see the README, section 7.
EmptyNeverSucceeds == result = "ok" /\ plugin # "intl" => seen

=============================================================================
