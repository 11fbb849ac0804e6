------------------------------ MODULE TraeStream ------------------------------
(***************************************************************************)
(* One streamed chat call of the trae plugin once the upstream accepted    *)
(* it (plugins/trae/main.go, handleExecStream; sse_convert.go): the        *)
(* converter goroutine that turns SOLO events into chunks, the buffered    *)
(* channel between them, the head gate that waits for an answer before the *)
(* host is told of a stream, and the pump that delivers it.                *)
(***************************************************************************)
EXTENDS Naturals, Sequences

CONSTANTS Cap,       \* capacity of the chunk channel
          MaxFrames  \* bound of the upstream's events, for TLC only

VARIABLES async,  \* the host gave a stream id; without one chunks are collected
          made,   \* every chunk the converter has made, the one in hand included
          conv,   \* the converter: emitting a chunk, reading, or done
          ch,     \* the channel's buffer; it is closed when conv is done
          fault,  \* soloFaultTracker: a fault not yet taken
          seen,   \* soloFaultTracker: the call has faulted
          hand,   \* the handler: head gate, failed, pump, over, or client gone
          head,   \* chunks held back by the gate and not delivered yet
          sent,   \* chunks delivered to the host
          noted   \* NoteSuccess was called

vars == <<async, made, conv, ch, fault, seen, hand, head, sent, noted>>

\* The opening frame, frames without text (tool calls, usage, done), text,
\* and converted error events.
Frames == {"role", "quiet", "answer", "error"}

InHand == made[Len(made)]

Has(s, k) == \E i \in 1 .. Len(s) : s[i] = k

\* streamChunkFaults, and a test of the tracker instead of the frame.
ChunkFaultsBySeen(c) == seen
ChunkFaults(c) == c = "error"

Init ==
  /\ async \in BOOLEAN
  /\ made = <<"role">> /\ conv = "emit"
  /\ ch = <<>> /\ fault = FALSE /\ seen = FALSE
  /\ hand = "head" /\ head = <<>> /\ sent = <<>> /\ noted = FALSE

-----------------------------------------------------------------------------
\* The converter reads an event; an error is recorded before its frame is made.
Reads(k) ==
  /\ conv = "read" /\ Len(made) < MaxFrames
  /\ made' = Append(made, k)
  /\ conv' = "emit"
  /\ fault' = (fault \/ k = "error")
  /\ seen' = (seen \/ k = "error")
  /\ UNCHANGED <<async, ch, hand, head, sent, noted>>

\* The chunk in hand goes to the channel once there is room.
Emits ==
  /\ conv = "emit" /\ Len(ch) < Cap
  /\ ch' = Append(ch, InHand)
  /\ conv' = "read"
  /\ UNCHANGED <<async, made, fault, seen, hand, head, sent, noted>>

\* The body ends or fails: the channel is closed.
ReadEnds ==
  /\ conv = "read"
  /\ conv' = "done"
  /\ UNCHANGED <<async, made, ch, fault, seen, hand, head, sent, noted>>

Drained == ch = <<>> /\ conv = "done"

\* soloStreamHead takes a chunk: a fault before any answer fails the call and
\* closes the body, an answer opens the gate, the rest is held back.
HeadFails ==
  /\ hand = "head" /\ ch # <<>>
  /\ ChunkFaults(Head(ch)) /\ fault
  /\ fault' = FALSE
  /\ ch' = Tail(ch)
  /\ hand' = "failed" /\ head' = <<>>
  /\ UNCHANGED <<async, made, conv, seen, sent, noted>>

HeadHoldsAnswers ==
  /\ hand = "head" /\ ch # <<>>
  /\ ~ (ChunkFaults(Head(ch)) /\ fault)
  /\ head' = IF Head(ch) = "answer" THEN Append(head, Head(ch)) ELSE head
  /\ ch' = Tail(ch)
  /\ hand' = IF Head(ch) = "answer" THEN "pump" ELSE "head"
  /\ UNCHANGED <<async, made, conv, fault, seen, sent, noted>>
HeadHolds ==
  /\ hand = "head" /\ ch # <<>>
  /\ ~ (ChunkFaults(Head(ch)) /\ fault)
  /\ head' = Append(head, Head(ch))
  /\ ch' = Tail(ch)
  /\ hand' = IF Head(ch) = "answer" THEN "pump" ELSE "head"
  /\ UNCHANGED <<async, made, conv, fault, seen, sent, noted>>

HeadDrained ==
  /\ hand = "head" /\ Drained
  /\ hand' = "pump"
  /\ UNCHANGED <<async, made, conv, ch, fault, seen, head, sent, noted>>

\* The pump delivers the held-back chunks, then the channel's.
PumpsHead ==
  /\ hand = "pump" /\ head # <<>>
  /\ sent' = Append(sent, Head(head))
  /\ head' = Tail(head)
  /\ UNCHANGED <<async, made, conv, ch, fault, seen, hand, noted>>

Pumps ==
  /\ hand = "pump" /\ head = <<>> /\ ch # <<>>
  /\ sent' = Append(sent, Head(ch))
  /\ ch' = Tail(ch)
  /\ UNCHANGED <<async, made, conv, fault, seen, hand, head, noted>>

\* host.stream.emit refuses a chunk: the client is gone, the pump returns.
ClientGone ==
  /\ hand = "pump" /\ async /\ (head # <<>> \/ ch # <<>>)
  /\ hand' = "gone"
  /\ IF head # <<>> THEN UNCHANGED ch ELSE ch' = Tail(ch)
  /\ head' = <<>>
  /\ UNCHANGED <<async, made, conv, fault, seen, sent, noted>>

\* Everything was delivered: success is noted unless a fault was seen.
PumpEnds ==
  /\ hand = "pump" /\ head = <<>> /\ Drained
  /\ noted' = ~ seen
  /\ hand' = "over"
  /\ UNCHANGED <<async, made, conv, ch, fault, seen, head, sent>>

Converter == (\E k \in Frames \ {"role"} : Reads(k)) \/ Emits \/ ReadEnds
Handler == \/ HeadFails \/ HeadHolds \/ HeadDrained
           \/ PumpsHead \/ Pumps \/ ClientGone \/ PumpEnds

Next == Converter \/ Handler

Spec == Init /\ [][Next]_vars

-----------------------------------------------------------------------------
\* The variables have their types.
TypeOK ==
  /\ async \in BOOLEAN /\ fault \in BOOLEAN /\ seen \in BOOLEAN /\ noted \in BOOLEAN
  /\ made \in Seq(Frames) /\ ch \in Seq(Frames) /\ Len(ch) <= Cap
  /\ head \in Seq(Frames) /\ sent \in Seq(Frames)
  /\ conv \in {"emit", "read", "done"}
  /\ hand \in {"head", "failed", "pump", "over", "gone"}

\* "The returned frames are re-sent by the caller, so the opening frame is not
\* lost" (main.go:2218): what was delivered, what the gate holds, what the
\* channel holds and the chunk in hand are at every moment the converter's
\* chunks in order; when the call is over all of them were delivered.
NothingLost ==
  hand \in {"head", "pump", "over"} =>
    LET inHand == IF conv = "emit" THEN <<InHand>> ELSE <<>>
    IN  made = sent \o head \o ch \o inHand

\* A frame of kind k came before any of kind other.
CameFirst(k, other) ==
  \E i \in 1 .. Len(made) : made[i] = k /\ \A j \in 1 .. i - 1 : made[j] # other

\* "Judge by the frame, not by whether an error is recorded: the converter is
\* its own goroutine and the channel is buffered" (main.go:2203): however far
\* the converter runs ahead, the call fails exactly when an error came before
\* any answer, and a failed call has delivered nothing.
FailsOnlyUnanswered ==
  /\ hand = "failed" => CameFirst("error", "answer") /\ sent = <<>>
  /\ hand \in {"pump", "over", "gone"} => ~ CameFirst("error", "answer")

\* "NoteSuccess after an in-stream error kept exhausted accounts in the pool"
\* (main.go:2335): a call with an error frame anywhere is never a success.
FaultBlocksSuccess ==
  noted => ~ Has(made, "error")

\* What the host sees of the call: its verdict, and errors only as frames.
Verdict == CASE hand = "head" -> "none" [] hand = "failed" -> "refused" [] OTHER -> "open"
Contract == INSTANCE StreamedCall WITH
  verdict <- Verdict, shown <- Len(sent), told <- FALSE, credited <- noted

\* The converter ends too, but for one case: the handler left early and the
\* channel is full, so that the converter waits for a reader forever.
ConverterEndsUnlessAbandoned ==
  <>[](\/ conv = "done"
       \/ hand \in {"failed", "gone"} /\ conv = "emit" /\ Len(ch) = Cap)
=============================================================================
