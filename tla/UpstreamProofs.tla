---------------------------- MODULE UpstreamProofs ----------------------------
(***************************************************************************)
(* The streams and the catalog, for all attempt limits, budgets, waits,    *)
(* frame counts, channel capacities and sets of credential files: each     *)
(* lane's inductive invariant, the step of its call as the host sees it,   *)
(* and at the end the four properties of MCUpstream they give together.    *)
(***************************************************************************)
EXTENDS MCUpstream, SequenceTheorems, TLAPS

\* qoder: the head gate of a stream.

Live == {"send", "read", "queue"}

\* Both goroutines start together; without a gate there is no verdict.
Together ==
  /\ pump = "before" <=> hand = "before"
  /\ ~ gated => hand \notin {"wait", "claim"} /\ slot = "none"
  /\ pump = "before" => slot = "none" /\ ~ handedOff
  /\ hand \in {"wait", "claim"} => ~ handedOff

\* A running pump has reported nothing.
Unreported ==
  pump \in Live \cup {"before"} =>
    inband = 0 /\ recorded = 0 /\ result = "none" /\ hand # "refused" /\ slot # "failed"

\* Before a round has seen a payload nothing was taken, held or delivered.
Fresh ==
  /\ pump \in {"before", "send", "queue"} => ~ seen
  /\ ~ seen => got = 0 /\ out = 0 /\ head = 0
  /\ ~ gated => released
  /\ pump \in Live \cup {"before"} /\ ~ seen /\ gated => ~ released

\* While a round holds the gate the verdict is open, and a hand-off that is
\* through by then has claimed the stream; a round that let it go filed one.
Open ==
  pump \in Live =>
    /\ ~ released => out = 0 /\ slot = "none"
    /\ ~ released /\ hand \in {"open", "refused"} => handedOff
    /\ released /\ hand \in {"wait", "claim"} => slot # "none"

\* A failure in the slot waits for a hand-off that will still look.
Pending ==
  slot = "failed" =>
    /\ pump = "done" /\ result = "failed" /\ hand \in {"wait", "claim"}
    /\ inband = 0 /\ out = 0

Failures == IF result = "failed" THEN 1 ELSE 0

\* What a finished pump leaves behind for each state of the hand-off.
Told ==
  pump = "done" =>
    /\ recorded <= Failures
    /\ hand \in {"wait", "claim"} => slot # "none"
    /\ slot # "failed" /\ hand # "refused" => inband = Failures
    /\ hand = "refused" => result = "failed" /\ inband = 0 /\ out = 0

IInv == TypeOK /\ Together /\ Unreported /\ Fresh /\ Open /\ Pending /\ Told

LEMMA InitIInv == Init => IInv
<1> SUFFICES ASSUME Init PROVE IInv
  OBVIOUS
<1>1. TypeOK
  BY DEF Init, TypeOK
<1>2. Together /\ Unreported /\ Open /\ Pending /\ Told
  BY DEF Init, Together, Unreported, Open, Pending, Told, Live
<1>3. Fresh
  BY DEF Init, Fresh
<1> QED  BY <1>1, <1>2, <1>3 DEF IInv

LEMMA TicketWaits == \A t \in Tickets \cup {NoTicket} : t.wait \in Nat
<1> SUFFICES ASSUME NEW t \in Tickets \cup {NoTicket} PROVE t.wait \in Nat
  OBVIOUS
<1>1. CASE t \in [empty : {TRUE}, wait : {FastWait}]
  BY <1>1, QoderStreamAssumption
<1>2. CASE t \in [empty : {FALSE}, wait : Waits]
  <2>1. t.wait \in Waits
    BY <1>2
  <2> QED  BY <2>1, QoderStreamAssumption
<1>3. CASE t = NoTicket
  BY <1>3 DEF NoTicket
<1> QED  BY <1>1, <1>2, <1>3 DEF Tickets

\* Delivering counts frames and at most loses the client.
LEMMA DeliversTypes ==
  ASSUME NEW n \in Nat, out \in Nat, client \in BOOLEAN, Delivers(n)
  PROVE  out' \in Nat /\ client' \in BOOLEAN /\ (n = 0 => out' = out)
BY DEF Delivers

\* fail closes a running pump's call with everything the invariant asks.
LEMMA FailKeeps ==
  ASSUME IInv, pump \in {"send", "read"}, Fail,
         pump' = "done", result' = "failed", recorded' = recorded + 1,
         UNCHANGED <<gated, hand, retry, seen, ended>>
  PROVE  IInv'
<1> USE DEF IInv, TypeOK, Live, Failures, retry
<1>1. CASE ~ released /\ Listening /\ FailDropped
  BY <1>1 DEF Listening, FailDropped, Together, Unreported, Fresh, Open, Pending, Told
<1>2. CASE (released \/ ~ Listening) /\ ReleasesHead
           /\ inband' = inband + 1 /\ UNCHANGED <<handedOff, got>>
  <2>1. out' \in Nat /\ client' \in BOOLEAN /\ (head = 0 => out' = out)
    BY <1>2, DeliversTypes DEF ReleasesHead
  <2>2. released' /\ head' = 0 /\ slot' \in {"none", "live"} /\ (~ gated => slot' = "none")
    BY <1>2 DEF ReleasesHead, Releases, Unreported, Together
  <2>3. hand \in {"wait", "claim"} => slot' # "none"
    BY <1>2 DEF ReleasesHead, Releases, Together, Listening, Open
  <2>4. seen \/ (got' = 0 /\ out' = 0 /\ head' = 0)
    BY <1>2, <2>1, <2>2 DEF Fresh
  <2> QED
    BY <1>2, <2>1, <2>2, <2>3, <2>4
    DEF Together, Unreported, Fresh, Open, Pending, Told
<1> QED  BY <1>1, <1>2 DEF Fail

\* The two endings that release the gate and speak in-band.
LEMMA InbandKeeps ==
  ASSUME IInv, SendFails \/ RebuildFails
  PROVE  IInv'
<1>1. /\ slot' \in {"none", "live"} /\ (hand \in {"wait", "claim"} => slot' # "none")
      /\ ~ gated => slot' = "none"
  BY DEF SendFails, RebuildFails, Releases, IInv, TypeOK, Unreported, Together, Live
<1>2. waited' \in Nat /\ ticket' \in Tickets \cup {NoTicket} /\ attempt' \in Nat
  BY TicketWaits DEF SendFails, RebuildFails, IInv, TypeOK, retry
<1>3. TypeOK'
  BY <1>1, <1>2 DEF SendFails, RebuildFails, IInv, TypeOK, round, flow
<1>4. Together' /\ Unreported' /\ Fresh' /\ Open' /\ Pending' /\ Told'
  BY <1>1 DEF SendFails, RebuildFails, IInv, TypeOK, round, flow,
     Together, Unreported, Fresh, Open, Pending, Told, Live, Failures
<1> QED  BY <1>3, <1>4 DEF IInv

\* Frames that are taken: held, sent on, or counted as payload or ending.
LEMMA ReadsKeep ==
  ASSUME IInv, ReadsBlank \/ ReadsTerminator \/ (\E b \in BOOLEAN : Holds(b) \/ Emits(b))
  PROVE  IInv'
<1> USE DEF IInv, TypeOK, Live, Failures
<1>1. CASE ReadsBlank
  BY <1>1 DEF ReadsBlank, gate, retry, flow, report, Together, Unreported, Fresh,
     Open, Pending, Told
<1>4. CASE ReadsTerminator
  BY <1>4 DEF ReadsTerminator, gate, retry, flow, report, Together, Unreported, Fresh,
     Open, Pending, Told
<1>2. ASSUME NEW b \in BOOLEAN, Holds(b) PROVE IInv'
  BY <1>2 DEF Holds, gate, retry, report, Together, Unreported, Fresh, Open, Pending, Told
<1>3. ASSUME NEW b \in BOOLEAN, Emits(b) PROVE IInv'
  <2>1. out' \in Nat /\ client' \in BOOLEAN
    BY <1>3, DeliversTypes DEF Emits
  <2>2. /\ slot' \in {"none", "live"} /\ (hand \in {"wait", "claim"} => slot' # "none")
        /\ ~ gated => slot' = "none"
    BY <1>3 DEF Emits, Releases, Unreported, Open, Together
  <2>3. \/ pump' = "read" /\ UNCHANGED report
        \/ pump' = "done" /\ result' = "left" /\ UNCHANGED <<inband, recorded>>
    BY <1>3 DEF Emits, Leaves
  <2> QED
    BY <1>3, <2>1, <2>2, <2>3
    DEF Emits, retry, report, Together, Unreported, Fresh, Open, Pending, Told
<1> QED  BY <1>1, <1>2, <1>3, <1>4

LEMMA BodyEndsKeeps ==
  ASSUME IInv, NEW b \in BOOLEAN, BodyEnds(b)
  PROVE  IInv'
<1> USE DEF IInv, TypeOK, Live, Failures
<1>1. out' \in Nat /\ client' \in BOOLEAN /\ (head = 0 => out' = out)
  BY DeliversTypes DEF BodyEnds, ReleasesHead
<1>2. released' /\ head' = 0 /\ slot' \in {"none", "live"}
      /\ (hand \in {"wait", "claim"} => slot' # "none")
      /\ (~ gated => slot' = "none")
  BY DEF BodyEnds, ReleasesHead, Releases, Unreported, Open, Together
<1>3. /\ pump' = "done"
      /\ \/ result' \in {"left", "ok"} /\ inband' = inband /\ recorded' = recorded
         \/ /\ result' = "failed" /\ inband' = inband + 1
            /\ recorded' \in {recorded, recorded + 1}
  BY DEF BodyEnds, Leaves
<1> QED
  BY <1>1, <1>2, <1>3
  DEF BodyEnds, retry, Together, Unreported, Fresh, Open, Pending, Told

\* The steps of the hand-off and of the client.
LEMMA HandoffKeeps ==
  ASSUME IInv, Handoff \/ ClientLeaves
  PROVE  IInv'
<1> USE DEF IInv, TypeOK, Live, Failures, retry, round, flow, report, gate
<1>1. CASE HandHears
  BY <1>1 DEF HandHears, Together, Unreported, Fresh, Open, Pending, Told
<1>2. CASE HandTimesOut
  BY <1>2 DEF HandTimesOut, Together, Unreported, Fresh, Open, Pending, Told
<1>3. CASE HandClaims
  BY <1>3 DEF HandClaims, Together, Unreported, Fresh, Open, Pending, Told
<1>4. CASE ClientLeaves
  BY <1>4 DEF ClientLeaves, Together, Unreported, Fresh, Open, Pending, Told
<1> QED  BY <1>1, <1>2, <1>3, <1>4 DEF Handoff

\* The steps of the pump that end nothing, and the handler's own failure.
LEMMA RoundsKeep ==
  ASSUME IInv,
         \/ PrepareFails \/ Start \/ Accepted \/ Requeued
         \/ \E t \in Tickets : Queued(t)
  PROVE  IInv'
<1> USE DEF IInv, TypeOK, Live, Failures, retry, round, flow, report, gate
<1>1. CASE PrepareFails
  BY <1>1 DEF PrepareFails, Together, Unreported, Fresh, Open, Pending, Told
<1>2. CASE Start
  BY <1>2 DEF Start, Together, Unreported, Fresh, Open, Pending, Told
<1>3. CASE Accepted
  BY <1>3 DEF Accepted, Together, Unreported, Fresh, Open, Pending, Told
<1>4. CASE Requeued
  <2>1. waited' \in Nat /\ attempt' \in Nat /\ ticket' \in Tickets \cup {NoTicket}
    BY <1>4, TicketWaits DEF Requeued
  <2> QED
    BY <1>4, <2>1 DEF Requeued, Together, Unreported, Fresh, Open, Pending, Told
<1>5. ASSUME NEW t \in Tickets, Queued(t) PROVE IInv'
  BY <1>5 DEF Queued, TicketCounts, Together, Unreported, Fresh, Open, Pending, Told
<1> QED  BY <1>1, <1>2, <1>3, <1>4, <1>5

LEMMA StepIInv == IInv /\ [Next]_vars => IInv'
<1> SUFFICES ASSUME IInv, [Next]_vars PROVE IInv'
  OBVIOUS
<1>1. CASE Rejected \/ FrameFails \/ \E t \in Tickets : QueueExhausted(t)
  BY <1>1, FailKeeps DEF Rejected, FrameFails, QueueExhausted, TicketCounts
<1>2. CASE SendFails \/ RebuildFails
  BY <1>2, InbandKeeps
<1>3. CASE ReadsBlank \/ ReadsTerminator \/ (\E b \in BOOLEAN : Holds(b) \/ Emits(b))
  BY <1>3, ReadsKeep
<1>4. CASE \E b \in BOOLEAN : BodyEnds(b)
  BY <1>4, BodyEndsKeeps
<1>5. CASE Handoff \/ ClientLeaves
  BY <1>5, HandoffKeeps
<1>6. CASE \/ PrepareFails \/ Start \/ Accepted \/ Requeued
           \/ \E t \in Tickets : Queued(t)
  BY <1>6, RoundsKeep
<1>7. CASE UNCHANGED vars
  BY <1>7 DEF vars, gate, retry, round, flow, report, IInv, TypeOK, Together,
     Unreported, Fresh, Open, Pending, Told, Live, Failures
<1> QED
  BY <1>1, <1>2, <1>3, <1>4, <1>5, <1>6, <1>7 DEF Next, Sender, Reader

\* The gate's contract (stream.go:149-151, 387-390; main.go:975): exactly one
\* of the two goroutines tells a failure, and a refused call delivered nothing.
THEOREM HeadGateExact == Spec => [](FailureToldOnce /\ RefusedUntouched)
<1>1. IInv => FailureToldOnce /\ RefusedUntouched
  <2> SUFFICES ASSUME IInv PROVE FailureToldOnce /\ RefusedUntouched
    OBVIOUS
  <2>1. FailureToldOnce
    BY DEF FailureToldOnce, IInv, TypeOK, Told, Pending, Failures
  <2>2. RefusedUntouched
    BY DEF RefusedUntouched, IInv, TypeOK, Told, Pending, Unreported, Together, Live
  <2> QED  BY <2>1, <2>2
<1> QED  BY InitIInv, StepIInv, <1>1, PTL DEF Spec

\* "Both are recognised before anything was delivered to the client, so the
\* retry is invisible to the consumer" (stream.go:326-329).
THEOREM QueueRetriesInvisible == Spec => RetriesInvisible
<1>1. IInv /\ [Next]_vars =>
        [attempt' # attempt =>
           out = 0 /\ inband = 0 /\ got = 0 /\ slot = "none" /\ hand # "refused"]_vars
  <2> SUFFICES ASSUME IInv, [Next]_vars, attempt' # attempt
               PROVE  out = 0 /\ inband = 0 /\ got = 0 /\ slot = "none" /\ hand # "refused"
    BY DEF vars
  <2>1. Requeued
    BY DEF Next, vars, gate, retry, Sender, Reader, Handoff, PrepareFails, Start, SendFails,
       Rejected, Accepted, RebuildFails, Queued, QueueExhausted, ReadsBlank,
       ReadsTerminator, FrameFails, Holds, Emits, BodyEnds, HandHears, HandTimesOut,
       HandClaims, ClientLeaves
  <2>2. pump = "queue" /\ ~ seen
    BY <2>1 DEF Requeued, IInv, Fresh
  <2> QED
    BY <2>2 DEF IInv, TypeOK, Together, Fresh, Open, Unreported, Live
<1> QED  BY InitIInv, StepIInv, <1>1, PTL DEF Spec, RetriesInvisible

\* The granted wait still fits: what queueRetryAllowedFor checked when the
\* ticket came holds until the wait is added.
Fits ==
  /\ QueueBounded
  /\ pump = "queue" => attempt + 1 < MaxAttempts /\ waited + ticket.wait <= Budget

\* "Bounded by the constants below" (queue_retry.go:24), whatever tickets come.
THEOREM QueueRetriesBounded == Spec => []QueueBounded
<1>1. Init => Fits
  BY QoderStreamAssumption DEF Init, Fits, QueueBounded
<1>2. IInv /\ Fits /\ [Next]_vars => Fits'
  <2> SUFFICES ASSUME IInv, Fits, [Next]_vars PROVE Fits'
    OBVIOUS
  <2> USE DEF Fits, QueueBounded
  <2>1. ASSUME NEW t \in Tickets, Queued(t) PROVE Fits'
    BY <2>1, TicketWaits, QoderStreamAssumption
    DEF Queued, MayRetry, WithinBudget, IInv, TypeOK
  <2>2. CASE Requeued
    BY <2>2 DEF Requeued
  <2>3. CASE RebuildFails
    BY <2>3 DEF RebuildFails
  <2>4. CASE UNCHANGED <<attempt, waited>> /\ (pump' = "queue" => UNCHANGED <<pump, ticket>>)
    BY <2>4
  <2> QED
    BY <2>1, <2>2, <2>3, <2>4
    DEF Next, vars, gate, retry, Sender, Reader, Handoff, PrepareFails, Start, SendFails,
       Rejected, Accepted, QueueExhausted, ReadsBlank, ReadsTerminator, FrameFails, Holds,
       Emits, Leaves, BodyEnds, HandHears, HandTimesOut, HandClaims, ClientLeaves
<1>3. Fits => QueueBounded
  BY DEF Fits
<1> QED  BY InitIInv, StepIInv, <1>1, <1>2, <1>3, PTL DEF Spec

\* What a step does to the host's view of the call.
LEMMA ContractStep ==
  ASSUME IInv, IInv', [Next]_vars
  PROVE  [Contract!Next]_(Contract!vars)
<1> USE DEF IInv, TypeOK
<1>1. CASE pump \in {"send", "read", "queue"} /\ hand' = hand /\ out' >= out
           /\ ~ (inband' > 0 /\ result' = "ok")
  BY <1>1 DEF Contract!Next, Contract!Proceed, Verdict, Unreported, Live
<1>2. CASE PrepareFails \/ Start
  <2>1. out = 0 /\ inband = 0 /\ result = "none" /\ hand = "before" /\ out' = out
    BY <1>2 DEF PrepareFails, Start, Together, Unreported, Fresh, flow
  <2>2. CASE hand' = "refused"
    BY <1>2, <2>1, <2>2 DEF PrepareFails, Start, Contract!Next, Contract!Refuse, Verdict
  <2>3. CASE hand' = "open"
    BY <1>2, <2>1, <2>3 DEF PrepareFails, Start, Contract!Next, Contract!Proceed, Verdict, report
  <2>4. CASE hand' = "wait"
    BY <1>2, <2>1, <2>4 DEF PrepareFails, Start, Contract!vars, Verdict, report
  <2> QED  BY <1>2, <2>2, <2>3, <2>4 DEF PrepareFails, Start
<1>3. CASE HandHears \/ HandTimesOut \/ HandClaims
  <2>1. out' = out /\ inband' = inband /\ result' = result /\ hand \in {"wait", "claim"}
    BY <1>3 DEF HandHears, HandTimesOut, HandClaims, flow, report
  <2>2. CASE hand' = "refused"
    <3>1. slot = "failed"
      BY <1>3, <2>2 DEF HandHears, HandTimesOut, HandClaims
    <3>2. out = 0 /\ inband = 0 /\ result = "failed"
      BY <3>1 DEF Pending
    <3> QED  BY <2>1, <2>2, <3>2 DEF Contract!Next, Contract!Refuse, Verdict
  <2>3. CASE hand' = "open"
    BY <2>1, <2>3 DEF Contract!Next, Contract!Open, Verdict
  <2>4. CASE hand' \in {"wait", "claim"}
    BY <2>1, <2>4 DEF Contract!vars, Verdict
  <2> QED  BY <1>3, <2>2, <2>3, <2>4 DEF HandHears, HandTimesOut, HandClaims
<1>4. CASE ClientLeaves \/ UNCHANGED vars
  BY <1>4 DEF ClientLeaves, vars, report, flow, Contract!vars, Verdict
<1>5. CASE SendFails \/ RebuildFails \/ Accepted \/ Requeued \/ (\E t \in Tickets : Queued(t))
  <2>1. pump \in {"send", "read", "queue"} /\ hand' = hand /\ out' = out
    BY <1>5 DEF SendFails, RebuildFails, Accepted, Requeued, Queued, TicketCounts, flow
  <2>2. result' # "ok"
    BY <1>5, <2>1 DEF SendFails, RebuildFails, Accepted, Requeued, Queued, report, Unreported, Live
  <2> QED  BY <1>1, <2>1, <2>2
<1>6. CASE Rejected \/ FrameFails \/ (\E t \in Tickets : QueueExhausted(t))
  <2>1. /\ pump \in {"send", "read"} /\ hand' = hand /\ result' = "failed"
        /\ Fail
    BY <1>6 DEF Rejected, FrameFails, QueueExhausted, TicketCounts
  <2>2. out' >= out
    BY <2>1 DEF Fail, FailDropped, ReleasesHead, Delivers
  <2> QED  BY <1>1, <2>1, <2>2
<1>7. CASE ReadsBlank \/ ReadsTerminator \/ (\E b \in BOOLEAN : Holds(b) \/ Emits(b))
  <2>1. pump = "read" /\ hand' = hand /\ out' >= out
    BY <1>7 DEF ReadsBlank, ReadsTerminator, Holds, Emits, Delivers, flow
  <2>2. result' # "ok"
    BY <1>7, <2>1 DEF ReadsBlank, ReadsTerminator, Holds, Emits, Leaves, report, Unreported, Live
  <2> QED  BY <1>1, <2>1, <2>2
<1>8. ASSUME NEW b \in BOOLEAN, BodyEnds(b) PROVE [Contract!Next]_(Contract!vars)
  <2>1. pump = "read" /\ hand' = hand /\ out' >= out /\ inband = 0
    BY <1>8 DEF BodyEnds, ReleasesHead, Delivers, Unreported, Live
  <2>2. result' = "ok" => inband' = inband
    BY <1>8 DEF BodyEnds, Leaves
  <2> QED  BY <1>1, <2>1, <2>2
<1> QED
  BY <1>2, <1>3, <1>4, <1>5, <1>6, <1>7, <1>8 DEF Next, Sender, Reader, Handoff

\* Pump, hand-off and client together keep the contract with the host: the call
\* is opened or refused once, a refused one has shown and told nothing, and a
\* success is never also told as a failure.
THEOREM QoderKeepsContract == Spec => Contract!Spec
<1>1. Init => Contract!Init
  BY DEF Init, Contract!Init, Verdict
<1>2. IInv /\ IInv' /\ [Next]_vars => [Contract!Next]_(Contract!vars)
  BY ContractStep
<1> QED  BY InitIInv, StepIInv, <1>1, <1>2, PTL DEF Spec, Contract!Spec

\* The gate skips nothing: a frame the client did not take is held, or it left.
LEMMA StepSkips == IInv /\ NothingSkipped /\ [Next]_vars => NothingSkipped'
<1> SUFFICES ASSUME IInv, NothingSkipped, [Next]_vars PROVE NothingSkipped'
  OBVIOUS
<1> USE DEF NothingSkipped
<1>1. CASE ReleasesHead /\ UNCHANGED <<hand, got>>
  <2>1. slot = "failed" => slot' = "failed"
    BY <1>1 DEF ReleasesHead, Releases
  <2>2. client' => client /\ out' = out + head /\ head' = 0
    BY <1>1 DEF ReleasesHead, Delivers, IInv, TypeOK
  <2>3. out' \in Nat
    BY <1>1, DeliversTypes DEF ReleasesHead, IInv, TypeOK
  <2> QED  BY <1>1, <2>1, <2>2, <2>3 DEF IInv, TypeOK
<1>2. CASE FailDropped
  BY <1>2 DEF FailDropped
<1>3. CASE Fail /\ UNCHANGED hand
  BY <1>1, <1>2, <1>3 DEF Fail
<1>4. CASE Rejected \/ FrameFails \/ \E t \in Tickets : QueueExhausted(t)
  BY <1>3, <1>4 DEF Rejected, FrameFails, QueueExhausted
<1>5. ASSUME NEW b \in BOOLEAN, BodyEnds(b) PROVE NothingSkipped'
  BY <1>1, <1>5 DEF BodyEnds
<1>6. ASSUME NEW b \in BOOLEAN, Emits(b) PROVE NothingSkipped'
  <2>1. slot = "failed" => slot' = "failed"
    BY <1>6 DEF Emits, Releases
  <2>2. client' => client /\ out' = out + (head + 1)
    BY <1>6 DEF Emits, Delivers, IInv, TypeOK
  <2>3. hand' = hand /\ got' = got + 1 /\ head' = 0
    BY <1>6 DEF Emits
  <2>4. out' \in Nat
    BY <1>6, DeliversTypes DEF Emits, IInv, TypeOK
  <2> QED  BY <2>1, <2>2, <2>3, <2>4 DEF IInv, TypeOK
<1>7. ASSUME NEW b \in BOOLEAN, Holds(b) PROVE NothingSkipped'
  BY <1>7 DEF Holds, gate, IInv, TypeOK
<1>8. CASE Requeued
  BY <1>8 DEF Requeued, gate, flow, IInv, TypeOK, Fresh
<1>9. CASE SendFails \/ RebuildFails
  BY <1>9 DEF SendFails, RebuildFails, Releases, round, flow
<1>10. CASE HandHears \/ HandTimesOut \/ HandClaims
  BY <1>10 DEF HandHears, HandTimesOut, HandClaims, gate, round, flow
<1>11. CASE \/ PrepareFails \/ Start \/ Accepted \/ ClientLeaves \/ UNCHANGED vars
            \/ ReadsBlank \/ ReadsTerminator \/ \E t \in Tickets : Queued(t)
  BY <1>11 DEF PrepareFails, Start, Accepted, ClientLeaves, vars, ReadsBlank, ReadsTerminator,
     Queued, gate, round, flow, IInv, Together
<1> QED
  BY <1>4, <1>5, <1>6, <1>7, <1>8, <1>9, <1>10, <1>11 DEF Next, Sender, Reader, Handoff

QoderInv == IInv /\ NothingSkipped

LEMMA QoderInit == Init => QoderInv
BY InitIInv DEF QoderInv, Init, NothingSkipped

LEMMA QoderStep == QoderInv /\ [Next]_vars => QoderInv'
BY StepIInv, StepSkips DEF QoderInv

LEMMA QoderDecides == QoderInv => FailureToldOnce /\ RefusedUntouched
BY DEF QoderInv, FailureToldOnce, RefusedUntouched, IInv, TypeOK, Told, Pending, Unreported,
   Together, Live, Failures

-----------------------------------------------------------------------------
\* trae: the converter, the channel and the handler.

TraeRecorded ==
  /\ traeSeen <=> Trae!Has(made, "error")
  /\ noted => conv = "done" /\ ~ traeSeen

TraeGate ==
  /\ made # <<>>
  /\ traeHand \in {"head", "failed"} => sent = <<>> /\ ~ noted
  /\ traeHand = "pump" => ~ noted
  /\ traeHand = "head" => (fault <=> traeSeen) /\ \A i \in 1 .. Len(traeHead) : traeHead[i] \notin {"answer", "error"}

TraeFirst ==
  /\ traeHand = "failed" => Trae!CameFirst("error", "answer")
  /\ traeHand \in {"pump", "over", "gone"} =>
       \/ Trae!CameFirst("answer", "error")
       \/ conv = "done" /\ ~ traeSeen

TraeInv == Trae!TypeOK /\ TraeRecorded /\ TraeGate /\ TraeFirst /\ Trae!NothingLost

LEMMA TraeInit == Trae!Init => TraeInv
<1> SUFFICES ASSUME Trae!Init PROVE TraeInv
  OBVIOUS
<1>1. made \in Seq(Trae!Frames) /\ Len(made) = 1 /\ made[1] = "role" /\ made # <<>>
  BY DEF Trae!Init, Trae!Frames
<1>2. Trae!TypeOK
  <2>1. <<>> \in Seq(Trae!Frames) /\ Len(<<>>) <= Cap
    BY UpstreamAssumption
  <2> QED  BY <1>1, <2>1 DEF Trae!Init, Trae!TypeOK
<1>3. ~ Trae!Has(made, "error")
  BY <1>1 DEF Trae!Has
<1>4. Trae!NothingLost
  <2>1. Trae!InHand = "role"
    BY <1>1 DEF Trae!InHand
  <2> QED  BY <2>1 DEF Trae!Init, Trae!NothingLost
<1> QED  BY <1>1, <1>2, <1>3, <1>4 DEF Trae!Init, TraeInv, TraeRecorded, TraeGate, TraeFirst

\* Moving the first element of a queue to the end of the one before it.
LEMMA MoveHead ==
  ASSUME NEW S, NEW s \in Seq(S), NEW t \in Seq(S), t # <<>>
  PROVE  Append(s, Head(t)) \o Tail(t) = s \o t
<1>1. Append(s, Head(t)) = s \o <<Head(t)>>
  BY HeadTailProperties, AppendIsConcat
<1>2. <<Head(t)>> \in Seq(S) /\ Tail(t) \in Seq(S)
  BY HeadTailProperties
<1>3. t = <<Head(t)>> \o Tail(t)
  <2>1. /\ Len(<<Head(t)>>) = 1 /\ <<Head(t)>>[1] = t[1] /\ Len(t) \in Nat \ {0}
    BY EmptySeq
  <2>2. /\ <<Head(t)>> \o Tail(t) \in Seq(S) /\ Len(<<Head(t)>> \o Tail(t)) = Len(t)
        /\ \A i \in 1 .. Len(t) : (<<Head(t)>> \o Tail(t))[i] = t[i]
    BY <1>2, <2>1, ConcatProperties, HeadTailProperties
  <2> QED  BY <2>2, SeqEqual
<1> QED  BY <1>1, <1>2, <1>3, ConcatAssociative

\* Appending to the last of two queues appends to both.
LEMMA AppendLast ==
  ASSUME NEW S, NEW s \in Seq(S), NEW t \in Seq(S), NEW e \in S
  PROVE  s \o Append(t, e) = (s \o t) \o <<e>> /\ s \o Append(t, e) = Append(s \o t, e)
<1>1. s \o t \in Seq(S) /\ <<e>> \in Seq(S)
  BY ConcatProperties
<1>2. Append(t, e) = t \o <<e>> /\ Append(s \o t, e) = (s \o t) \o <<e>>
  BY <1>1, AppendIsConcat
<1> QED  BY <1>1, <1>2, ConcatAssociative

InOrder == (sent \o traeHead) \o ch

TraeWhole == made = IF conv = "emit" THEN Append(InOrder, Trae!InHand) ELSE InOrder

LEMMA TraeQueues ==
  Trae!TypeOK /\ made # <<>> =>
    /\ sent \o traeHead \in Seq(Trae!Frames) /\ InOrder \in Seq(Trae!Frames)
    /\ Trae!InHand \in Trae!Frames
    /\ traeHand \in {"head", "pump", "over"} => (Trae!NothingLost <=> TraeWhole)
<1> SUFFICES ASSUME Trae!TypeOK, made # <<>>
             PROVE  /\ sent \o traeHead \in Seq(Trae!Frames) /\ InOrder \in Seq(Trae!Frames)
                    /\ Trae!InHand \in Trae!Frames
                    /\ traeHand \in {"head", "pump", "over"} => (Trae!NothingLost <=> TraeWhole)
  OBVIOUS
<1>1. sent \o traeHead \in Seq(Trae!Frames) /\ InOrder \in Seq(Trae!Frames)
  BY ConcatProperties DEF Trae!TypeOK, InOrder
<1>2. Trae!InHand \in Trae!Frames
  BY EmptySeq DEF Trae!TypeOK, Trae!InHand
<1>3. InOrder \o <<>> = InOrder /\ InOrder \o <<Trae!InHand>> = Append(InOrder, Trae!InHand)
  BY <1>1, <1>2, ConcatEmptySeq, AppendIsConcat
<1> QED  BY <1>1, <1>2, <1>3 DEF Trae!NothingLost, TraeWhole, InOrder

\* While the gate waits, the next chunk of the channel is the first frame that
\* it has not held back.
LEMMA TraeNextFrame ==
  ASSUME TraeInv, traeHand = "head", ch # <<>>
  PROVE  /\ Len(traeHead) + 1 \in 1 .. Len(made)
         /\ made[Len(traeHead) + 1] = Head(ch)
         /\ \A i \in 1 .. Len(traeHead) : made[i] = traeHead[i]
<1> USE DEF TraeInv, Trae!TypeOK, TraeGate
<1>1. sent \o traeHead = traeHead /\ InOrder = traeHead \o ch
  BY ConcatEmptySeq DEF InOrder
<1>2. /\ Len(ch) \in Nat \ {0} /\ Len(traeHead) \in Nat /\ Len(InOrder) = Len(traeHead) + Len(ch)
      /\ \A i \in 1 .. Len(traeHead) : InOrder[i] = traeHead[i]
      /\ InOrder[Len(traeHead) + 1] = Head(ch)
  BY <1>1, ConcatProperties, EmptySeq
<1>3. made = InOrder \/ made = Append(InOrder, Trae!InHand)
  BY TraeQueues DEF TraeWhole
<1>4. /\ Len(made) >= Len(InOrder)
      /\ \A i \in 1 .. Len(InOrder) : made[i] = InOrder[i]
  <2>1. InOrder \in Seq(Trae!Frames) /\ Trae!InHand \in Trae!Frames
    BY TraeQueues
  <2>2. CASE made = InOrder
    BY <1>2, <2>2
  <2>3. CASE made = Append(InOrder, Trae!InHand)
    BY <1>2, <2>1, <2>3, AppendProperties
  <2> QED  BY <1>3, <2>2, <2>3
<1> QED  BY <1>2, <1>4

\* What came first stays first.
LEMMA TraeStaysFirst ==
  ASSUME NEW x, NEW y, Trae!CameFirst(x, y), Trae!TypeOK, Trae!TypeOK',
         made' = made \/ \E k \in Trae!Frames : made' = Append(made, k)
  PROVE  Trae!CameFirst(x, y)'
<1>1. PICK i \in 1 .. Len(made) : made[i] = x /\ \A j \in 1 .. i - 1 : made[j] # y
  BY DEF Trae!CameFirst
<1>2. Len(made) \in Nat /\ i \in 1 .. Len(made') /\ \A j \in 1 .. i : made'[j] = made[j]
  <2>1. Len(made) \in Nat /\ made \in Seq(Trae!Frames)
    BY DEF Trae!TypeOK
  <2>2. ASSUME NEW k \in Trae!Frames, made' = Append(made, k)
        PROVE  Len(made') = Len(made) + 1 /\ \A j \in 1 .. Len(made) : made'[j] = made[j]
    BY <2>1, <2>2, AppendProperties
  <2> QED  BY <2>1, <2>2
<1> QED  BY <1>1, <1>2 DEF Trae!CameFirst

LEMMA TraeStepTypes == TraeInv /\ [Trae!Next]_traeVars => Trae!TypeOK' /\ (made # <<>>)'
<1> SUFFICES ASSUME TraeInv, [Trae!Next]_traeVars PROVE Trae!TypeOK' /\ (made # <<>>)'
  OBVIOUS
<1> USE DEF TraeInv, Trae!TypeOK, TraeGate
<1>1. /\ ch # <<>> => Head(ch) \in Trae!Frames /\ Tail(ch) \in Seq(Trae!Frames) /\ Len(Tail(ch)) <= Cap
      /\ traeHead # <<>> => Head(traeHead) \in Trae!Frames /\ Tail(traeHead) \in Seq(Trae!Frames)
      /\ Len(ch) \in Nat /\ Cap \in Nat
  BY UpstreamAssumption, HeadTailProperties, EmptySeq
<1>2. ASSUME NEW k \in Trae!Frames \ {"role"}, Trae!Reads(k) PROVE Trae!TypeOK' /\ (made # <<>>)'
  BY <1>2, AppendProperties DEF Trae!Reads
<1>3. CASE Trae!Emits
  BY <1>1, <1>3, TraeQueues, AppendProperties DEF Trae!Emits
<1>4. CASE Trae!ReadEnds \/ Trae!HeadDrained \/ UNCHANGED traeVars
  BY <1>4 DEF Trae!ReadEnds, Trae!HeadDrained, traeVars
<1>5. CASE Trae!HeadFails
  BY <1>1, <1>5 DEF Trae!HeadFails
<1>6. CASE Trae!HeadHolds
  BY <1>1, <1>6, AppendProperties DEF Trae!HeadHolds
<1>7. CASE Trae!PumpsHead
  BY <1>1, <1>7, AppendProperties DEF Trae!PumpsHead
<1>8. CASE Trae!Pumps
  BY <1>1, <1>8, AppendProperties DEF Trae!Pumps
<1>9. CASE Trae!ClientGone
  <2>1. ch' \in Seq(Trae!Frames) /\ Len(ch') <= Cap
    BY <1>1, <1>9 DEF Trae!ClientGone
  <2> QED  BY <2>1, <1>9 DEF Trae!ClientGone
<1>10. CASE Trae!PumpEnds
  <2>1. noted' \in BOOLEAN
    BY <1>10, Zenon DEF Trae!PumpEnds
  <2> QED  BY <2>1, <1>10 DEF Trae!PumpEnds
<1> QED
  BY <1>2, <1>3, <1>4, <1>5, <1>6, <1>7, <1>8, <1>9, <1>10
  DEF Trae!Next, Trae!Converter, Trae!Handler

LEMMA TraeStepRecorded == TraeInv /\ [Trae!Next]_traeVars => TraeRecorded'
<1> SUFFICES ASSUME TraeInv, [Trae!Next]_traeVars PROVE TraeRecorded'
  OBVIOUS
<1> USE DEF TraeInv, TraeRecorded
<1>1. ASSUME NEW k \in Trae!Frames \ {"role"}, Trae!Reads(k) PROVE TraeRecorded'
  <2>1. /\ Len(made') = Len(made) + 1 /\ Len(made) \in Nat
        /\ \A i \in 1 .. Len(made) : made'[i] = made[i]
        /\ made'[Len(made) + 1] = k
    BY <1>1 DEF Trae!Reads, Trae!TypeOK
  <2>2. Trae!Has(made, "error")' <=> Trae!Has(made, "error") \/ k = "error"
    BY <2>1 DEF Trae!Has
  <2>3. ~ noted /\ noted' = noted /\ traeSeen' = (traeSeen \/ k = "error")
    BY <1>1 DEF Trae!Reads
  <2> QED  BY <2>2, <2>3
<1>2. CASE made' = made /\ traeSeen' = traeSeen /\ noted' = noted /\ (conv = "done" => conv' = "done")
  BY <1>2 DEF Trae!Has
<1>3. CASE Trae!PumpEnds
  BY <1>3 DEF Trae!PumpEnds, Trae!Drained, Trae!Has
<1> QED
  BY <1>1, <1>2, <1>3
  DEF Trae!Next, Trae!Converter, Trae!Handler, Trae!Emits, Trae!ReadEnds, Trae!HeadFails,
      Trae!HeadHolds, Trae!HeadDrained, Trae!PumpsHead, Trae!Pumps, Trae!ClientGone, traeVars

LEMMA TraeStepNothingLost == TraeInv /\ [Trae!Next]_traeVars => Trae!NothingLost'
<1> SUFFICES ASSUME TraeInv, [Trae!Next]_traeVars, (traeHand \in {"head", "pump", "over"})'
             PROVE  Trae!NothingLost'
  BY DEF Trae!NothingLost
<1>1. Trae!TypeOK' /\ (made # <<>>)'
  BY TraeStepTypes
<1>2. traeHand \in {"head", "pump", "over"} => TraeWhole
  BY TraeQueues DEF TraeInv, TraeGate
<1>3. TraeWhole' => Trae!NothingLost'
  BY <1>1, TraeQueues, PTL
<1>4. sent \o traeHead \in Seq(Trae!Frames) /\ InOrder \in Seq(Trae!Frames) /\ Trae!InHand \in Trae!Frames
  BY TraeQueues DEF TraeInv, TraeGate
<1> SUFFICES TraeWhole'
  BY <1>3
<1> USE DEF TraeInv, Trae!TypeOK, TraeGate
<1>5. ASSUME NEW k \in Trae!Frames \ {"role"}, Trae!Reads(k) PROVE TraeWhole'
  <2>1. made' = Append(made, k) /\ Trae!InHand' = k
    BY <1>5, AppendProperties DEF Trae!Reads, Trae!InHand
  <2> QED  BY <1>2, <1>5, <2>1 DEF Trae!Reads, TraeWhole, InOrder
<1>6. CASE Trae!Emits
  <2>1. InOrder' = Append(InOrder, Trae!InHand)
    BY <1>4, <1>6, AppendLast DEF Trae!Emits, InOrder
  <2> QED  BY <1>2, <1>6, <2>1 DEF Trae!Emits, TraeWhole
<1>7. CASE Trae!ReadEnds \/ Trae!HeadDrained \/ Trae!PumpEnds \/ UNCHANGED traeVars
  BY <1>2, <1>7
  DEF Trae!ReadEnds, Trae!HeadDrained, Trae!PumpEnds, traeVars, TraeWhole, InOrder, Trae!InHand
<1>8. CASE Trae!HeadHolds
  <2>1. InOrder' = InOrder
    <3>1. sent \o traeHead = traeHead /\ (sent \o traeHead)' = traeHead'
      BY <1>1, <1>8, ConcatEmptySeq DEF Trae!HeadHolds
    <3>2. Append(traeHead, Head(ch)) \o Tail(ch) = traeHead \o ch
      BY <1>8, MoveHead DEF Trae!HeadHolds
    <3> QED  BY <1>8, <3>1, <3>2 DEF Trae!HeadHolds, InOrder
  <2> QED  BY <1>2, <1>8, <2>1 DEF Trae!HeadHolds, TraeWhole, Trae!InHand
<1>9. CASE Trae!PumpsHead
  <2>1. InOrder' = InOrder
    BY <1>9, MoveHead DEF Trae!PumpsHead, InOrder
  <2> QED  BY <1>2, <1>9, <2>1 DEF Trae!PumpsHead, TraeWhole, Trae!InHand
<1>10. CASE Trae!Pumps
  <2>1. InOrder' = InOrder
    <3>1. sent \o traeHead = sent /\ (sent \o traeHead)' = sent'
      BY <1>1, <1>10, ConcatEmptySeq DEF Trae!Pumps
    <3> QED  BY <1>10, <3>1, MoveHead DEF Trae!Pumps, InOrder
  <2> QED  BY <1>2, <1>10, <2>1 DEF Trae!Pumps, TraeWhole, Trae!InHand
<1>11. CASE Trae!HeadFails \/ Trae!ClientGone
  BY <1>11 DEF Trae!HeadFails, Trae!ClientGone
<1> QED
  BY <1>5, <1>6, <1>7, <1>8, <1>9, <1>10, <1>11
  DEF Trae!Next, Trae!Converter, Trae!Handler

LEMMA TraeStepGate == TraeInv /\ [Trae!Next]_traeVars => TraeGate'
<1> SUFFICES ASSUME TraeInv, [Trae!Next]_traeVars PROVE TraeGate'
  OBVIOUS
<1>1. Trae!TypeOK' /\ (made # <<>>)'
  BY TraeStepTypes
<1> USE DEF TraeInv, TraeGate
<1>2. ASSUME NEW k \in Trae!Frames \ {"role"}, Trae!Reads(k) PROVE TraeGate'
  BY <1>1, <1>2 DEF Trae!Reads, Trae!TypeOK
<1>3. CASE Trae!Emits \/ Trae!ReadEnds \/ Trae!HeadDrained \/ Trae!PumpsHead \/ Trae!Pumps \/ UNCHANGED traeVars
  BY <1>1, <1>3 DEF Trae!Emits, Trae!ReadEnds, Trae!HeadDrained, Trae!PumpsHead, Trae!Pumps, traeVars
<1>4. CASE Trae!HeadFails \/ Trae!ClientGone \/ Trae!PumpEnds
  BY <1>1, <1>4 DEF Trae!HeadFails, Trae!ClientGone, Trae!PumpEnds
<1>5. CASE Trae!HeadHolds
  <2>1. CASE Head(ch) = "answer"
    BY <1>1, <1>5, <2>1 DEF Trae!HeadHolds
  <2>2. CASE Head(ch) # "answer"
    <3>1. Head(ch) # "error"
      BY <1>5, TraeNextFrame DEF Trae!HeadHolds, Trae!ChunkFaults, TraeRecorded, Trae!Has
    <3>2. /\ Head(ch) \in Trae!Frames /\ Len(traeHead) \in Nat /\ Len(traeHead') = Len(traeHead) + 1
          /\ \A i \in 1 .. Len(traeHead) : traeHead'[i] = traeHead[i]
          /\ traeHead'[Len(traeHead) + 1] = Head(ch)
      BY <1>5, HeadTailProperties, AppendProperties DEF Trae!HeadHolds, Trae!TypeOK
    <3> QED  BY <1>1, <1>5, <2>2, <3>1, <3>2 DEF Trae!HeadHolds
  <2> QED  BY <2>1, <2>2
<1> QED
  BY <1>2, <1>3, <1>4, <1>5 DEF Trae!Next, Trae!Converter, Trae!Handler

LEMMA TraeStepFirst == TraeInv /\ [Trae!Next]_traeVars => TraeFirst'
<1> SUFFICES ASSUME TraeInv, [Trae!Next]_traeVars PROVE TraeFirst'
  OBVIOUS
<1>1. Trae!TypeOK /\ Trae!TypeOK'
  BY TraeStepTypes DEF TraeInv
<1> USE DEF TraeInv, TraeFirst
<1>2. ASSUME NEW k \in Trae!Frames \ {"role"}, Trae!Reads(k) PROVE TraeFirst'
  <2>1. \A x, y : Trae!CameFirst(x, y) => Trae!CameFirst(x, y)'
    BY <1>1, <1>2, TraeStaysFirst DEF Trae!Reads
  <2> QED  BY <1>2, <2>1 DEF Trae!Reads
<1>3. CASE Trae!Emits \/ Trae!ReadEnds \/ Trae!PumpsHead \/ Trae!Pumps \/ Trae!ClientGone \/ Trae!PumpEnds \/ UNCHANGED traeVars
  BY <1>3 DEF Trae!Emits, Trae!ReadEnds, Trae!PumpsHead, Trae!Pumps, Trae!ClientGone,
     Trae!PumpEnds, traeVars, Trae!CameFirst
<1>4. CASE Trae!HeadFails
  <2>1. Trae!CameFirst("error", "answer")
    <3>1. \A j \in 1 .. Len(traeHead) : made[j] # "answer"
      BY <1>4, TraeNextFrame DEF Trae!HeadFails, TraeGate
    <3> QED
      BY <1>4, <3>1, TraeNextFrame DEF Trae!HeadFails, Trae!ChunkFaults, Trae!CameFirst, Trae!TypeOK
  <2> QED  BY <1>4, <2>1 DEF Trae!HeadFails, Trae!CameFirst
<1>5. CASE Trae!HeadHolds
  <2>1. Head(ch) = "answer" => Trae!CameFirst("answer", "error")
    <3>1. \A j \in 1 .. Len(traeHead) : made[j] # "error"
      BY <1>5, TraeNextFrame DEF Trae!HeadHolds, TraeGate
    <3> QED
      BY <1>5, <3>1, TraeNextFrame DEF Trae!HeadHolds, Trae!CameFirst, Trae!TypeOK
  <2> QED  BY <1>5, <2>1 DEF Trae!HeadHolds, Trae!CameFirst
<1>6. CASE Trae!HeadDrained
  <2>1. made = traeHead
    <3>1. sent \o traeHead = traeHead /\ traeHead \o ch = traeHead /\ conv = "done"
      BY <1>1, <1>6, ConcatEmptySeq DEF Trae!HeadDrained, Trae!Drained, TraeGate, Trae!TypeOK
    <3> QED  BY <3>1, <1>6, TraeQueues DEF TraeWhole, InOrder, TraeGate, Trae!HeadDrained
  <2>2. ~ traeSeen
    BY <1>6, <2>1 DEF TraeRecorded, Trae!Has, TraeGate, Trae!HeadDrained
  <2> QED  BY <1>6, <2>2 DEF Trae!HeadDrained, Trae!Drained
<1> QED
  BY <1>2, <1>3, <1>4, <1>5, <1>6 DEF Trae!Next, Trae!Converter, Trae!Handler

LEMMA TraeStep == TraeInv /\ [Trae!Next]_traeVars => TraeInv'
BY TraeStepTypes, TraeStepRecorded, TraeStepGate, TraeStepFirst, TraeStepNothingLost DEF TraeInv

\* What the invariant says of the gate's decision and of success.
LEMMA TraeDecides ==
  TraeInv => Trae!FailsOnlyUnanswered /\ Trae!FaultBlocksSuccess
<1> SUFFICES ASSUME TraeInv PROVE Trae!FailsOnlyUnanswered /\ Trae!FaultBlocksSuccess
  OBVIOUS
<1> USE DEF TraeInv
<1>1. ~ (Trae!CameFirst("answer", "error") /\ Trae!CameFirst("error", "answer"))
  <2> SUFFICES ASSUME NEW i \in 1 .. Len(made), NEW k \in 1 .. Len(made),
                      made[i] = "answer", \A j \in 1 .. i - 1 : made[j] # "error",
                      made[k] = "error", \A j \in 1 .. k - 1 : made[j] # "answer"
               PROVE  FALSE
    BY DEF Trae!CameFirst
  <2>1. Len(made) \in Nat /\ ~ (k < i) /\ ~ (i < k) /\ i # k
    BY DEF Trae!TypeOK
  <2> QED  BY <2>1
<1>2. Trae!FailsOnlyUnanswered
  BY <1>1 DEF Trae!FailsOnlyUnanswered, TraeFirst, TraeGate, TraeRecorded, Trae!CameFirst, Trae!Has
<1> QED  BY <1>2 DEF TraeRecorded, Trae!FaultBlocksSuccess

\* What a step of the lane is to the host.
LEMMA TraeContractStep ==
  ASSUME TraeInv, TraeInv', [Trae!Next]_traeVars
  PROVE  [Trae!Contract!Next]_(Trae!Contract!vars)
<1> USE DEF TraeInv, Trae!TypeOK, TraeGate
<1>1. CASE UNCHANGED <<traeHand, sent, noted>>
  BY <1>1 DEF Trae!Contract!vars, Trae!Verdict
<1>2. CASE Trae!HeadFails
  BY <1>2 DEF Trae!HeadFails, Trae!Contract!Next, Trae!Contract!Refuse, Trae!Verdict
<1>3. CASE Trae!HeadHolds \/ Trae!HeadDrained
  BY <1>3 DEF Trae!HeadHolds, Trae!HeadDrained, Trae!Contract!Next, Trae!Contract!Open, Trae!Contract!vars, Trae!Verdict
<1>4. CASE Trae!PumpsHead \/ Trae!Pumps \/ Trae!ClientGone \/ Trae!PumpEnds
  <2>1. Len(sent) \in Nat /\ Len(sent') \in Nat /\ Len(sent') >= Len(sent)
    BY <1>4 DEF Trae!PumpsHead, Trae!Pumps, Trae!ClientGone, Trae!PumpEnds
  <2>2. traeHand = "pump" /\ traeHand' \in {"pump", "over", "gone"} /\ ~ noted /\ noted' \in BOOLEAN
    BY <1>4 DEF Trae!PumpsHead, Trae!Pumps, Trae!ClientGone, Trae!PumpEnds
  <2> QED  BY <2>1, <2>2 DEF Trae!Contract!Next, Trae!Contract!Proceed, Trae!Verdict
<1>5. CASE (\E k \in Trae!Frames \ {"role"} : Trae!Reads(k)) \/ Trae!Emits \/ Trae!ReadEnds
  BY <1>1, <1>5 DEF Trae!Reads, Trae!Emits, Trae!ReadEnds
<1> QED
  BY <1>1, <1>2, <1>3, <1>4, <1>5 DEF Trae!Next, Trae!Converter, Trae!Handler, traeVars

-----------------------------------------------------------------------------
\* workbuddy: the gate, the pump and the answer.

WbFailures == IF wbResult = "failed" THEN 1 ELSE 0

\* Where the hand-off is while the pump runs, and what the gate then holds.
WbTogether ==
  /\ Workbuddy!Async => (wbPump = "before" <=> wbHand = "before")
  /\ ~ Workbuddy!Async => (wbPump = "done" <=> wbHand # "before") /\ wbHand # "wait" /\ wbPump # "ask"
  /\ mode = "async" => wbHand # "wait" /\ wbHand # "refused"
  /\ gating => mode = "gated" /\ wbOut = 0
  /\ mode = "gated" /\ wbPump \in {"before", "send"} => gating
  /\ wbPump = "ask" => gating
  /\ ~ Workbuddy!Async /\ wbPump # "done" => wbOut = 0
  /\ wbPump \in {"before", "send"} => wbOut = 0

\* Exactly one of the two leaves the other a message.
WbHandshake ==
  /\ wbHand \in {"before", "wait"} => token = "none"
  /\ wbHand = "wait" /\ ~ gating => outcome = "answered"
  /\ gating /\ wbPump \in {"before", "send", "read"} => outcome = "none"
  /\ wbPump = "ask" =>
       /\ wbHand = "wait" => outcome = "failure"
       /\ wbHand = "refused" => token = "stop"
  /\ gating /\ wbHand = "open" /\ wbPump # "done" => token = "go"
  /\ outcome = "failure" => gating /\ wbPump \in {"ask", "done"} /\ wbHand \in {"wait", "open"}

WbTold ==
  /\ wbPump \in {"before", "send", "read"} => wbResult = "none" /\ wbInband = 0 /\ wbHand # "refused"
  /\ wbPump = "ask" => wbResult = "failed" /\ wbInband = 0
  /\ wbHand = "refused" => wbResult = "failed" /\ wbInband = 0 /\ wbOut = 0
  /\ wbPump = "done" /\ wbHand # "refused" => wbInband = WbFailures
  /\ wbPump = "done" /\ wbHand = "wait" => ~ gating
  /\ wbResult = "ok" => wbSeen /\ wbEnded

WbInv == Workbuddy!TypeOK /\ WbTogether /\ WbHandshake /\ WbTold

LEMMA WbInit == Workbuddy!Init => WbInv
<1> SUFFICES ASSUME Workbuddy!Init PROVE WbInv
  OBVIOUS
<1>1. Workbuddy!TypeOK
  <2>1. gating \in BOOLEAN /\ wbSeen \in BOOLEAN /\ wbEnded \in BOOLEAN
    BY Zenon DEF Workbuddy!Init
  <2>2. /\ mode \in {"gated", "async", "collect", "execute"}
        /\ wbHand = "before" /\ outcome = "none" /\ token = "none" /\ wbPump = "before"
        /\ attempts = 1 /\ held = 0 /\ wbOut = 0 /\ wbInband = 0 /\ wbResult = "none"
    BY DEF Workbuddy!Init
  <2> QED  BY <2>1, <2>2 DEF Workbuddy!TypeOK
<1>2. WbTogether /\ WbHandshake /\ WbTold
  BY DEF Workbuddy!Init, WbTogether, WbHandshake, WbTold, WbFailures, Workbuddy!Async
<1> QED  BY <1>1, <1>2 DEF WbInv

\* A call fails through an armed gate, as the answer, or in the stream.
LEMMA WbFails ==
  ASSUME WbInv, wbPump \in {"send", "read"}, NEW g \in BOOLEAN, Workbuddy!FailsThrough(g),
         Workbuddy!Async => (g <=> gating),
         UNCHANGED <<mode, token, attempts, gating, wbSeen, wbEnded, wbOut>>, held' \in Nat
  PROVE  WbInv'
<1> USE DEF WbInv, Workbuddy!TypeOK, WbFailures, Workbuddy!Async
<1>1. CASE ~ Workbuddy!Async
  <2>1. /\ wbResult' = "failed" /\ wbPump' = "done" /\ wbHand' = "refused"
        /\ outcome' = outcome /\ wbInband' = wbInband
    BY <1>1 DEF Workbuddy!FailsThrough
  <2>2. Workbuddy!TypeOK'
    BY <2>1
  <2>3. WbTogether'
    BY <1>1, <2>1 DEF WbTogether
  <2>4. WbHandshake'
    BY <1>1, <2>1 DEF WbTogether, WbHandshake, WbTold
  <2>5. WbTold'
    BY <1>1, <2>1 DEF WbTogether, WbHandshake, WbTold
  <2> QED  BY <2>2, <2>3, <2>4, <2>5
<1>2. CASE Workbuddy!Async /\ g
  <2>1. /\ wbResult' = "failed" /\ wbPump' = "ask" /\ wbHand' = wbHand
        /\ outcome' = "failure" /\ wbInband' = wbInband /\ gating
    BY <1>2 DEF Workbuddy!FailsThrough, WbHandshake
  <2>2. Workbuddy!TypeOK'
    BY <2>1
  <2>3. WbTogether'
    BY <1>2, <2>1 DEF WbTogether
  <2>4. WbHandshake'
    BY <1>2, <2>1 DEF WbTogether, WbHandshake, WbTold
  <2>5. WbTold'
    BY <1>2, <2>1 DEF WbTogether, WbHandshake, WbTold
  <2> QED  BY <2>2, <2>3, <2>4, <2>5
<1>3. CASE Workbuddy!Async /\ ~ g
  <2>1. /\ wbResult' = "failed" /\ wbPump' = "done" /\ wbInband' = wbInband + 1
        /\ wbHand' = wbHand /\ outcome' = outcome /\ ~ gating
    BY <1>3 DEF Workbuddy!FailsThrough, Workbuddy!FailsInBand
  <2> QED  BY <1>3, <2>1 DEF WbTogether, WbHandshake, WbTold
<1> QED  BY <1>1, <1>2, <1>3

LEMMA WbEnds ==
  ASSUME WbInv, NEW broken \in BOOLEAN, NEW tail \in 0 .. 1, Workbuddy!BodyEnds(broken, tail)
  PROVE  WbInv'
<1> USE DEF WbInv, Workbuddy!TypeOK, WbFailures, Workbuddy!Async
<1>1. CASE Workbuddy!Async
  <2>1. /\ wbPump = "read" /\ held' = 0 /\ gating' = FALSE /\ wbPump' = "done" /\ wbHand' = wbHand
        /\ outcome' = IF gating /\ outcome = "none" THEN "answered" ELSE outcome
        /\ UNCHANGED <<mode, token, attempts, wbSeen, wbEnded>>
    BY <1>1 DEF Workbuddy!BodyEnds, Workbuddy!Releases, Workbuddy!Succeeds, Workbuddy!FailsInBand
  <2>2. wbOut' \in Nat
    BY <1>1 DEF Workbuddy!BodyEnds
  <2>3. \/ wbResult' = "left" /\ wbInband' = wbInband
        \/ wbResult' = "ok" /\ wbInband' = wbInband /\ wbSeen /\ wbEnded
        \/ wbResult' = "failed" /\ wbInband' = wbInband + 1
    BY <1>1 DEF Workbuddy!BodyEnds, Workbuddy!Succeeds, Workbuddy!FailsInBand, Workbuddy!Whole
  <2>4. Workbuddy!TypeOK'
    <3>1. gating' \in BOOLEAN /\ outcome' \in {"none", "answered", "failure"}
      BY <2>1
    <3> QED  BY <2>1, <2>2, <2>3, <3>1
  <2>5. WbTogether'
    BY <1>1, <2>1, <2>2, <2>3 DEF WbTogether, WbHandshake, WbTold
  <2>6. WbHandshake'
    BY <1>1, <2>1, <2>2, <2>3 DEF WbTogether, WbHandshake, WbTold
  <2>7. WbTold'
    BY <1>1, <2>1, <2>2, <2>3 DEF WbTogether, WbHandshake, WbTold
  <2> QED  BY <2>4, <2>5, <2>6, <2>7
<1>2. CASE ~ Workbuddy!Async
  <2>1. /\ wbPump = "read" /\ held' = 0 /\ wbPump' = "done"
        /\ UNCHANGED <<mode, token, attempts, wbSeen, wbEnded, gating, outcome, wbInband>>
    BY <1>2 DEF Workbuddy!BodyEnds, Workbuddy!Answers, Workbuddy!Succeeds, Workbuddy!FailsThrough
  <2>2. \/ wbResult' = "ok" /\ wbHand' = "open" /\ wbOut' \in Nat /\ wbSeen /\ wbEnded
        \/ wbResult' = "failed" /\ wbHand' = "refused" /\ wbOut' = wbOut
    BY <1>2 DEF Workbuddy!BodyEnds, Workbuddy!Answers, Workbuddy!Succeeds, Workbuddy!FailsThrough,
       Workbuddy!Whole
  <2> QED  BY <1>2, <2>1, <2>2 DEF WbTogether, WbHandshake, WbTold
<1> QED  BY <1>1, <1>2

LEMMA WbReads ==
  ASSUME WbInv, NEW p \in BOOLEAN, NEW b \in BOOLEAN,
         Workbuddy!Holds(p, b) \/ Workbuddy!Emits(p, b) \/ Workbuddy!ReadsQuiet(p, b)
  PROVE  WbInv'
<1> USE DEF WbInv, Workbuddy!TypeOK, WbFailures, Workbuddy!Async, Workbuddy!Says
<1>1. CASE Workbuddy!Holds(p, b)
  BY <1>1 DEF Workbuddy!Holds, Workbuddy!gate, Workbuddy!report, WbTogether, WbHandshake, WbTold
<1>2. CASE Workbuddy!Emits(p, b)
  <2>1. /\ wbOut' \in Nat /\ held' = 0 /\ wbInband' = wbInband
        /\ \/ wbPump' = wbPump /\ wbResult' = wbResult
           \/ wbPump' = "done" /\ wbResult' = "left"
    BY <1>2 DEF Workbuddy!Emits, Workbuddy!Flushes
  <2> QED  BY <1>2, <2>1 DEF Workbuddy!Emits, Workbuddy!Releases, WbTogether, WbHandshake, WbTold
<1>3. CASE Workbuddy!ReadsQuiet(p, b)
  BY <1>3 DEF Workbuddy!ReadsQuiet, Workbuddy!gate, Workbuddy!report, WbTogether, WbHandshake, WbTold
<1> QED  BY <1>1, <1>2, <1>3

LEMMA WbStep == WbInv /\ [Workbuddy!Next]_wbVars => WbInv'
<1> SUFFICES ASSUME WbInv, [Workbuddy!Next]_wbVars PROVE WbInv'
  OBVIOUS
<1>1. ASSUME NEW p \in BOOLEAN, NEW b \in BOOLEAN,
             Workbuddy!Holds(p, b) \/ Workbuddy!Emits(p, b) \/ Workbuddy!ReadsQuiet(p, b)
      PROVE  WbInv'
  BY <1>1, WbReads
<1>2. ASSUME NEW b \in BOOLEAN, NEW tail \in 0 .. 1, Workbuddy!BodyEnds(b, tail) PROVE WbInv'
  BY <1>2, WbEnds
<1>3. CASE Workbuddy!SendFails
  <2>1. (mode = "gated") \in BOOLEAN /\ (Workbuddy!Async => (mode = "gated" <=> gating))
    BY <1>3 DEF Workbuddy!SendFails, WbInv, WbTogether, Workbuddy!TypeOK
  <2> QED
    BY <1>3, <2>1, WbFails DEF Workbuddy!SendFails, Workbuddy!body, WbInv, Workbuddy!TypeOK
<1>4. CASE Workbuddy!FrameFails
  BY <1>4, WbFails DEF Workbuddy!FrameFails, WbInv, Workbuddy!TypeOK
<1> USE DEF WbInv, Workbuddy!TypeOK, WbFailures, Workbuddy!Async, Workbuddy!gate, Workbuddy!body, Workbuddy!report
<1>5. CASE Workbuddy!Start
  BY <1>5 DEF Workbuddy!Start, WbTogether, WbHandshake, WbTold
<1>6. CASE Workbuddy!PrepareFails
  BY <1>6 DEF Workbuddy!PrepareFails, WbTogether, WbHandshake, WbTold
<1>7. CASE Workbuddy!Resend \/ Workbuddy!Accepted
  BY <1>7 DEF Workbuddy!Resend, Workbuddy!Accepted, WbTogether, WbHandshake, WbTold
<1>8. CASE Workbuddy!AskAnswered
  BY <1>8 DEF Workbuddy!AskAnswered, WbTogether, WbHandshake, WbTold
<1>9. CASE Workbuddy!HandHears
  BY <1>9 DEF Workbuddy!HandHears, WbTogether, WbHandshake, WbTold
<1>10. CASE Workbuddy!HandTimesOut
  BY <1>10 DEF Workbuddy!HandTimesOut, WbTogether, WbHandshake, WbTold
<1>11. CASE UNCHANGED wbVars
  BY <1>11 DEF wbVars, WbTogether, WbHandshake, WbTold
<1> QED
  BY <1>1, <1>2, <1>3, <1>4, <1>5, <1>6, <1>7, <1>8, <1>9, <1>10, <1>11
  DEF Workbuddy!Next, Workbuddy!Sender, Workbuddy!Reader, Workbuddy!Ends, Workbuddy!Handoff

LEMMA WbDecides == WbInv => Workbuddy!FaultTold /\ Workbuddy!WholeOnly
BY DEF WbInv, WbTold, WbFailures, Workbuddy!FaultTold, Workbuddy!Over, Workbuddy!WholeOnly

WbCall == INSTANCE StreamedCall WITH
  verdict <- Opened(wbHand), shown <- wbOut, told <- wbInband > 0, credited <- wbResult = "ok"

LEMMA WbContractStep ==
  ASSUME WbInv, WbInv', [Workbuddy!Next]_wbVars
  PROVE  [WbCall!Next]_(WbCall!vars)
<1> USE DEF WbInv, Workbuddy!TypeOK, Opened
<1>1. CASE Opened(wbHand') = Opened(wbHand) /\ UNCHANGED <<wbOut, wbInband, wbResult>>
  BY <1>1 DEF WbCall!vars
<1>2. CASE wbHand # "refused" /\ wbHand' # "refused" /\ wbInband = 0 /\ wbResult # "ok" /\ wbOut' >= wbOut
           /\ (wbHand = "open" => wbHand' = "open")
           /\ (wbResult' = "ok" => wbInband' = 0)
  BY <1>2 DEF WbCall!Next, WbCall!Proceed
<1>3. CASE wbHand' = "refused" /\ wbHand # "refused" /\ wbHand # "open"
           /\ wbOut = 0 /\ wbInband = 0 /\ wbResult # "ok" /\ wbResult' # "ok"
           /\ UNCHANGED <<wbOut, wbInband>>
  BY <1>3 DEF WbCall!Next, WbCall!Refuse
<1>4. CASE wbHand \in {"before", "wait"} /\ wbHand' = "open" /\ UNCHANGED <<wbOut, wbInband, wbResult>>
  BY <1>4 DEF WbCall!Next, WbCall!Open
<1> USE DEF WbTogether, WbTold
<1>5. CASE Workbuddy!Start
  BY <1>1, <1>4, <1>5 DEF Workbuddy!Start, Workbuddy!report, Workbuddy!Async
<1>6. CASE Workbuddy!PrepareFails
  BY <1>2, <1>3, <1>6 DEF Workbuddy!PrepareFails, Workbuddy!Async
<1>7. CASE Workbuddy!SendFails \/ Workbuddy!FrameFails
  <2>1. /\ wbPump \in {"send", "read"} /\ wbOut' = wbOut /\ wbResult' = "failed"
        /\ Workbuddy!FailsThrough(gating) \/ Workbuddy!FailsThrough(mode = "gated")
    BY <1>7 DEF Workbuddy!SendFails, Workbuddy!FrameFails, Workbuddy!FailsThrough, Workbuddy!FailsInBand
  <2>2. CASE Workbuddy!Async
    <3>1. wbHand' = wbHand
      BY <2>1, <2>2 DEF Workbuddy!FailsThrough, Workbuddy!FailsInBand
    <3> QED  BY <1>2, <2>1, <3>1
  <2>3. CASE ~ Workbuddy!Async
    <3>1. wbHand' = "refused" /\ wbInband' = wbInband /\ wbHand # "open"
      BY <2>1, <2>3 DEF Workbuddy!FailsThrough
    <3> QED  BY <1>3, <2>1, <2>3, <3>1
  <2> QED  BY <2>2, <2>3
<1>8. CASE Workbuddy!AskAnswered
  BY <1>1, <1>2, <1>8 DEF Workbuddy!AskAnswered, WbHandshake
<1>9. CASE Workbuddy!HandHears
  <2>1. /\ wbHand = "wait" /\ UNCHANGED <<wbOut, wbInband, wbResult>>
        /\ wbHand' = IF outcome = "failure" THEN "refused" ELSE "open"
    BY <1>9 DEF Workbuddy!HandHears, Workbuddy!report
  <2>2. outcome = "failure" => wbOut = 0 /\ wbInband = 0 /\ wbResult = "failed"
    BY <2>1 DEF WbHandshake
  <2> QED  BY <1>3, <1>4, <2>1, <2>2
<1>10. CASE Workbuddy!HandTimesOut
  BY <1>4, <1>10 DEF Workbuddy!HandTimesOut, Workbuddy!report
<1>11. CASE Workbuddy!Resend \/ Workbuddy!Accepted \/ UNCHANGED wbVars
  BY <1>1, <1>11 DEF Workbuddy!Resend, Workbuddy!Accepted, Workbuddy!report, wbVars
<1>12. ASSUME NEW p \in BOOLEAN, NEW b \in BOOLEAN,
              Workbuddy!Holds(p, b) \/ Workbuddy!Emits(p, b) \/ Workbuddy!ReadsQuiet(p, b)
       PROVE  [WbCall!Next]_(WbCall!vars)
  <2>1. CASE Workbuddy!Holds(p, b) \/ Workbuddy!ReadsQuiet(p, b)
    BY <1>1, <2>1 DEF Workbuddy!Holds, Workbuddy!ReadsQuiet, Workbuddy!report
  <2>2. CASE Workbuddy!Emits(p, b)
    <3>1. /\ wbPump = "read" /\ wbHand' = wbHand /\ wbInband' = wbInband /\ wbOut' >= wbOut
          /\ wbResult' \in {wbResult, "left"}
      BY <2>2 DEF Workbuddy!Emits, Workbuddy!Flushes
    <3> QED  BY <1>2, <3>1
  <2> QED  BY <1>12, <2>1, <2>2
<1>13. ASSUME NEW b \in BOOLEAN, NEW tail \in 0 .. 1, Workbuddy!BodyEnds(b, tail)
       PROVE  [WbCall!Next]_(WbCall!vars)
  <2>1. CASE Workbuddy!Async
    <3>1. /\ wbPump = "read" /\ wbHand' = wbHand /\ wbOut' >= wbOut
          /\ wbResult' = "ok" => wbInband' = wbInband
      BY <1>13, <2>1 DEF Workbuddy!BodyEnds, Workbuddy!Succeeds, Workbuddy!FailsInBand
    <3> QED  BY <1>2, <3>1
  <2>2. CASE ~ Workbuddy!Async
    <3>1. /\ wbPump = "read" /\ wbInband' = wbInband /\ wbOut = 0 /\ wbHand = "before"
          /\ \/ wbResult' = "ok" /\ wbHand' = "open" /\ wbOut' >= wbOut
             \/ wbResult' = "failed" /\ wbHand' = "refused" /\ wbOut' = wbOut
      BY <1>13, <2>2 DEF Workbuddy!BodyEnds, Workbuddy!Answers, Workbuddy!Succeeds, Workbuddy!FailsThrough
    <3> QED  BY <1>2, <1>3, <3>1
  <2> QED  BY <2>1, <2>2
<1> QED
  BY <1>5, <1>6, <1>7, <1>8, <1>9, <1>10, <1>11, <1>12, <1>13
  DEF Workbuddy!Next, Workbuddy!Sender, Workbuddy!Reader, Workbuddy!Ends, Workbuddy!Handoff

-----------------------------------------------------------------------------
\* zcode, mimo and trae international: streams without a gate.

PlainFailures == IF plResult = "failed" THEN 1 ELSE 0

\* Only a stream that was opened first is told of a failure in the stream.
PlainShape ==
  /\ at = "before" => verdict = "none" /\ plOut = 0 /\ kept = 0
  /\ at \in {"send", "read"} =>
       /\ verdict = IF Plain!Pumps THEN "open" ELSE "none"
       /\ ~ Plain!Pumps => plOut = 0
  /\ at = "pump" => verdict = "open" /\ plOut = 0
  /\ at # "done" => plInband = 0 /\ plResult = "none" /\ cooled = 0
  /\ at = "done" => plInband + (IF verdict = "refused" THEN 1 ELSE 0) = PlainFailures
  /\ verdict = "refused" => at = "done" /\ plOut = 0

PlainInv == Plain!TypeOK /\ PlainShape

LEMMA PlainInit == Plain!Init => PlainInv
<1> SUFFICES ASSUME Plain!Init PROVE PlainInv
  OBVIOUS
<1>1. memo \in BOOLEAN /\ plSeen \in BOOLEAN /\ finished \in BOOLEAN
  BY Zenon DEF Plain!Init
<1>2. Plain!TypeOK
  BY <1>1 DEF Plain!Init, Plain!TypeOK
<1>3. PlainShape
  BY DEF Plain!Init, PlainShape
<1> QED  BY <1>2, <1>3 DEF PlainInv

LEMMA PlainFails ==
  ASSUME PlainInv, at \in {"send", "read"}, Plain!Fails, cooled' \in 0 .. 1, kept' \in Nat,
         UNCHANGED <<plugin, plMode, wire, sends, memo, plSeen, finished, plOut>>
  PROVE  PlainInv'
<1> USE DEF PlainInv, Plain!TypeOK, PlainFailures
<1>1. Plain!Pumps' = Plain!Pumps /\ at' = "done" /\ plResult' = "failed"
  BY DEF Plain!Pumps, Plain!Fails
<1>2. CASE Plain!Pumps
  BY <1>1, <1>2 DEF Plain!Fails, PlainShape
<1>3. CASE ~ Plain!Pumps
  BY <1>1, <1>3 DEF Plain!Fails, PlainShape
<1> QED  BY <1>2, <1>3

LEMMA PlainEnds ==
  ASSUME PlainInv, NEW broken \in BOOLEAN, Plain!BodyEnds(broken)
  PROVE  PlainInv'
<1> USE DEF PlainInv, Plain!TypeOK, PlainFailures
<1>1. CASE broken \/ Plain!Empty
  BY <1>1, PlainFails DEF Plain!BodyEnds, Plain!Cools, Plain!call, PlainShape
<1>2. CASE ~ (broken \/ Plain!Empty)
  <2>1. /\ at = "read" /\ Plain!Flushed \in {0, 1} /\ verdict' = "open"
        /\ UNCHANGED <<plugin, plMode, wire, sends, memo, plSeen, finished, cooled, plInband>>
    BY <1>2 DEF Plain!BodyEnds, Plain!Flushed, Plain!call
  <2>2. \/ /\ at' = "pump" /\ ~ Plain!Pumps /\ UNCHANGED <<kept, plOut, plResult>>
        \/ at' = "done" /\ plResult' = "ok" /\ plOut' \in Nat /\ kept' = 0
    BY <1>2, <2>1 DEF Plain!BodyEnds, Plain!Pumps
  <2> QED  BY <2>1, <2>2 DEF PlainShape, Plain!Pumps
<1> QED  BY <1>1, <1>2

LEMMA PlainStep == PlainInv /\ [Plain!Next]_plainVars => PlainInv'
<1> SUFFICES ASSUME PlainInv, [Plain!Next]_plainVars PROVE PlainInv'
  OBVIOUS
<1>1. ASSUME NEW b \in BOOLEAN, Plain!BodyEnds(b) PROVE PlainInv'
  BY <1>1, PlainEnds
<1> USE DEF PlainInv, Plain!TypeOK, PlainFailures, Plain!call, Plain!body
<1>2. CASE Plain!SendFails \/ Plain!Rejected \/ Plain!FrameFails
  BY <1>2, PlainFails DEF Plain!SendFails, Plain!Rejected, Plain!FrameFails, Plain!Cools, PlainShape
<1>3. CASE Plain!Start
  <2>1. /\ at = "before" /\ at' = "send" /\ sends' = 1 /\ verdict' \in {"none", "open"}
        /\ verdict' = IF Plain!Pumps' THEN "open" ELSE "none"
        /\ UNCHANGED <<plugin, plMode, wire, memo, cooled, plSeen, finished, kept, plOut, plInband, plResult>>
    BY <1>3 DEF Plain!Start, PlainShape, Plain!Pumps
  <2> QED  BY <2>1 DEF PlainShape
<1>4. CASE Plain!PrepareFails
  BY <1>4 DEF Plain!PrepareFails, PlainShape
<1>5. CASE Plain!Resends
  BY <1>5 DEF Plain!Resends, PlainShape, Plain!Pumps
<1>6. CASE Plain!FallsBack \/ Plain!Accepted
  BY <1>6 DEF Plain!FallsBack, Plain!Accepted, PlainShape, Plain!Pumps
<1>7. CASE Plain!IntlEmits
  BY <1>7 DEF Plain!IntlEmits, PlainShape
<1>8. CASE Plain!ReadsQuiet
  BY <1>8 DEF Plain!ReadsQuiet, PlainShape, Plain!Pumps
<1>9. ASSUME NEW b \in BOOLEAN, Plain!Reads(b) PROVE PlainInv'
  <2>1. /\ at = "read" /\ plSeen' = TRUE /\ finished' \in BOOLEAN
        /\ UNCHANGED <<plugin, plMode, wire, sends, memo, cooled, verdict, plInband>>
    BY <1>9 DEF Plain!Reads
  <2>2. \/ ~ Plain!Pumps /\ kept' = kept + 1 /\ UNCHANGED <<at, plOut, plResult>>
        \/ Plain!Pumps /\ plOut' = plOut + 1 /\ UNCHANGED <<at, kept, plResult>>
        \/ Plain!Pumps /\ at' = "done" /\ plResult' = "left" /\ UNCHANGED <<kept, plOut>>
    BY <1>9 DEF Plain!Reads
  <2> QED  BY <2>1, <2>2 DEF PlainShape, Plain!Pumps
<1>10. CASE UNCHANGED plainVars
  BY <1>10 DEF plainVars, PlainShape, Plain!Pumps
<1> QED
  BY <1>1, <1>2, <1>3, <1>4, <1>5, <1>6, <1>7, <1>8, <1>9, <1>10
  DEF Plain!Next, Plain!Sender, Plain!Ends

PlainCall == INSTANCE StreamedCall WITH
  verdict <- verdict, shown <- plOut, told <- plInband > 0, credited <- plResult = "ok"

LEMMA PlainContractStep ==
  ASSUME PlainInv, PlainInv', [Plain!Next]_plainVars
  PROVE  [PlainCall!Next]_(PlainCall!vars)
<1> USE DEF PlainInv, Plain!TypeOK, PlainShape, PlainFailures, Plain!call, Plain!body
<1>1. CASE UNCHANGED <<verdict, plOut, plInband, plResult>>
  BY <1>1 DEF PlainCall!vars
<1>2. CASE /\ verdict # "refused" /\ verdict' \in {verdict, "open"} /\ at # "done" /\ plOut' >= plOut
           /\ plResult' = "ok" => plInband' = 0
  BY <1>2 DEF PlainCall!Next, PlainCall!Proceed
<1>3. CASE verdict = "none" /\ verdict' = "refused" /\ at # "done" /\ plOut = 0
           /\ plResult' = "failed" /\ UNCHANGED <<plOut, plInband>>
  BY <1>3 DEF PlainCall!Next, PlainCall!Refuse
<1>4. ASSUME at \in {"send", "read"}, Plain!Fails, plOut' = plOut PROVE [PlainCall!Next]_(PlainCall!vars)
  BY <1>2, <1>3, <1>4 DEF Plain!Fails
<1>5. CASE Plain!SendFails \/ Plain!Rejected \/ Plain!FrameFails
  BY <1>4, <1>5 DEF Plain!SendFails, Plain!Rejected, Plain!FrameFails
<1>6. ASSUME NEW b \in BOOLEAN, Plain!BodyEnds(b) PROVE [PlainCall!Next]_(PlainCall!vars)
  <2>1. CASE b \/ Plain!Empty
    BY <1>4, <1>6, <2>1 DEF Plain!BodyEnds
  <2>2. CASE ~ (b \/ Plain!Empty)
    <3>1. at = "read" /\ verdict' = "open" /\ plInband' = plInband
      BY <1>6, <2>2 DEF Plain!BodyEnds
    <3>2. plOut' >= plOut
      <4>1. Plain!Flushed \in {0, 1} /\ (plMode = "collect" => ~ Plain!Pumps)
        BY DEF Plain!Flushed, Plain!Pumps
      <4> QED  BY <1>6, <2>2, <4>1 DEF Plain!BodyEnds
    <3> QED  BY <1>2, <3>1, <3>2
  <2> QED  BY <2>1, <2>2
<1>7. CASE Plain!Start
  BY <1>2, <1>7 DEF Plain!Start
<1>8. CASE Plain!PrepareFails
  BY <1>3, <1>8 DEF Plain!PrepareFails
<1>9. CASE Plain!Resends \/ Plain!FallsBack \/ Plain!Accepted \/ Plain!ReadsQuiet \/ UNCHANGED plainVars
  BY <1>1, <1>9 DEF Plain!Resends, Plain!FallsBack, Plain!Accepted, Plain!ReadsQuiet, plainVars
<1>10. CASE Plain!IntlEmits
  BY <1>2, <1>10 DEF Plain!IntlEmits
<1>11. ASSUME NEW b \in BOOLEAN, Plain!Reads(b) PROVE [PlainCall!Next]_(PlainCall!vars)
  <2>1. at = "read" /\ verdict' = verdict /\ plInband' = plInband /\ plOut' >= plOut
    BY <1>11 DEF Plain!Reads
  <2> QED  BY <1>2, <2>1
<1> QED
  BY <1>5, <1>6, <1>7, <1>8, <1>9, <1>10, <1>11 DEF Plain!Next, Plain!Sender, Plain!Ends

LEMMA PlainDecides == PlainInv => Plain!FaultTold
BY DEF PlainInv, PlainShape, PlainFailures, Plain!FaultTold

-----------------------------------------------------------------------------
\* workbuddy: the model catalog.

OrNone == Catalog!Realms \cup {"none"}
Parts == [probe : Catalog!Probes, catalog : Nat]
Lists == [realm : OrNone, got : SUBSET Parts]
Snaps == [realm : OrNone, list : Lists, at : Nat]
Stores == [realm : OrNone, token : Nat, cache : Snaps]
Asked == [at : {"rest", "probing", "located", "saving"}, store : Stores,
          left : SUBSET Catalog!Probes, list : Lists]

CatalogTypes ==
  /\ upstream \in [Catalog!Realms -> Nat] /\ down \in BOOLEAN /\ clock \in 0 .. Horizon
  /\ cache \in [Catalog!Realms -> [list : Lists, fresh : BOOLEAN]]
  /\ docs \in [Creds -> Stores]
  /\ query \in [Creds -> Asked]
  /\ rewrite \in [Creds -> [writes : BOOLEAN, doc : Stores]]

\* Wherever a snapshot is written, its label is the realm of its list.
Labelled(doc) == doc.cache.realm = doc.cache.list.realm
InRealm(q) ==
  /\ Labelled(q.store)
  /\ q.at # "rest" => q.store.realm \in Catalog!Realms
  /\ q.at \in {"probing", "located"} => q.list.realm = q.store.realm

CatalogLabels ==
  /\ \A c \in Creds :
       /\ Labelled(docs[c]) /\ Labelled(rewrite[c].doc) /\ InRealm(query[c])
       /\ docs[c].realm \in Catalog!Realms
       /\ rewrite[c].writes => rewrite[c].doc.realm \in Catalog!Realms
  /\ \A r \in Catalog!Realms : cache[r].list # Catalog!Nothing => cache[r].list.realm = r

CatalogInv == CatalogTypes /\ CatalogLabels

LEMMA CatalogInit == Catalog!Init => CatalogInv
<1> SUFFICES ASSUME Catalog!Init PROVE CatalogInv
  OBVIOUS
<1> USE DEF Catalog!Realms, Catalog!Probes
<1>1. /\ Catalog!Nothing \in Lists /\ Catalog!NoSnapshot \in Snaps
      /\ Catalog!NoSnapshot.realm = Catalog!NoSnapshot.list.realm
  BY DEF Lists, Snaps, OrNone, Catalog!Nothing, Catalog!NoSnapshot
<1>2. ASSUME NEW r \in Catalog!Realms
      PROVE  /\ Catalog!Earlier(r) \in Snaps
             /\ Catalog!Earlier(r).realm = Catalog!Earlier(r).list.realm
  <2>1. Catalog!Blank(r) = [realm |-> r, got |-> {}]
    BY DEF Catalog!Blank, Catalog!Nothing
  <2>2. Catalog!Part("enterprise", 0) \in Parts
    BY DEF Parts, Catalog!Part
  <2>3. [Catalog!Blank(r) EXCEPT !.got = {Catalog!Part("enterprise", 0)}]
          = [realm |-> r, got |-> {Catalog!Part("enterprise", 0)}]
    BY <2>1
  <2> QED  BY <2>2, <2>3 DEF Lists, Snaps, OrNone, Catalog!Earlier
<1>3. Catalog!Resting.store \in Stores /\ Labelled(Catalog!Resting.store)
  BY <1>1 DEF Stores, OrNone, Catalog!Resting, Labelled
<1>4. /\ docs \in [Creds -> Stores]
      /\ \A c \in Creds : Labelled(docs[c]) /\ docs[c].realm \in Catalog!Realms
  BY <1>1, <1>2, UpstreamAssumption DEF Catalog!Init, Stores, OrNone, Labelled
<1>5. /\ query \in [Creds -> Asked]
      /\ \A c \in Creds : Labelled(query[c].store) /\ query[c].at = "rest"
  BY <1>1, <1>3 DEF Catalog!Init, Catalog!Resting, Asked
<1>6. /\ rewrite \in [Creds -> [writes : BOOLEAN, doc : Stores]]
      /\ \A c \in Creds : Labelled(rewrite[c].doc) /\ ~ rewrite[c].writes
  BY <1>3 DEF Catalog!Init, Catalog!NotWriting
<1>7. /\ upstream \in [Catalog!Realms -> Nat] /\ clock \in 0 .. Horizon
      /\ cache \in [Catalog!Realms -> [list : Lists, fresh : BOOLEAN]]
      /\ \A r \in Catalog!Realms : cache[r].list = Catalog!Nothing
  BY <1>1, UpstreamAssumption DEF Catalog!Init
<1>8. down \in BOOLEAN
  BY DEF Catalog!Init
<1> QED  BY <1>4, <1>5, <1>6, <1>7, <1>8 DEF CatalogInv, CatalogTypes, CatalogLabels, InRealm

LEMMA MergedList ==
  ASSUME NEW l \in Lists, NEW parts \in SUBSET Parts
  PROVE  Catalog!Merged(l, parts) \in Lists /\ Catalog!Merged(l, parts).realm = l.realm
BY DEF Lists, Parts, Catalog!Merged

LEMMA NewSnapshot ==
  ASSUME NEW doc \in Stores, NEW s \in Snaps
  PROVE  /\ [doc EXCEPT !.cache = s] \in Stores
         /\ [doc EXCEPT !.cache = s].cache = s /\ [doc EXCEPT !.cache = s].realm = doc.realm
BY DEF Stores

LEMMA CatalogQuery ==
  ASSUME CatalogInv, NEW c \in Creds, Catalog!Queries(c)
  PROVE  CatalogInv'
<1> USE DEF Catalog!At
<1>1. Catalog!Resting \in Asked /\ InRealm(Catalog!Resting)
  BY DEF Asked, Stores, Lists, Snaps, OrNone, Catalog!Resting, Catalog!NoSnapshot, Catalog!Nothing,
     Labelled, InRealm
<1>2. ASSUME NEW q \in Asked, InRealm(q), query' = [query EXCEPT ![c] = q],
             UNCHANGED <<upstream, down, cache, docs, rewrite, clock>>
      PROVE  CatalogInv'
  BY <1>2 DEF CatalogInv, CatalogTypes, CatalogLabels
<1>3. /\ query[c] \in Asked /\ InRealm(query[c]) /\ docs[c] \in Stores /\ Labelled(docs[c])
      /\ docs[c].realm \in Catalog!Realms
      /\ query \in [Creds -> Asked]
  BY DEF CatalogInv, CatalogTypes, CatalogLabels
<1>4. CASE Catalog!Asks(c)
  <2> DEFINE blank == Catalog!Blank(docs[c].realm)
             q == [at |-> "probing", store |-> docs[c], left |-> Catalog!Probes, list |-> blank]
  <2>1. blank \in Lists /\ blank.realm = docs[c].realm
    BY <1>3 DEF Catalog!Blank, Catalog!Nothing, Lists, OrNone
  <2>2. q \in Asked /\ InRealm(q)
    BY <1>3, <2>1 DEF Asked, InRealm
  <2>3. query' = [query EXCEPT ![c] = Catalog!Resting] \/ query' = [query EXCEPT ![c] = q]
    BY <1>4 DEF Catalog!Asks, Catalog!Answers
  <2> QED  BY <1>1, <1>2, <1>4, <2>2, <2>3 DEF Catalog!Asks
<1>5. ASSUME NEW p \in Catalog!Probes, Catalog!ProbeReturns(c, p) PROVE CatalogInv'
  <2> DEFINE r == query[c].store.realm
             parts == IF p = "enterprise" THEN Catalog!Table(r) ELSE Catalog!Roster(r)
             list == Catalog!Merged(query[c].list, parts)
             q == [query[c] EXCEPT !.left = @ \ {p}, !.list = list]
  <2>1. parts \in SUBSET Parts
    <3>1. upstream[r] \in Nat
      BY <1>3, <1>5 DEF Catalog!ProbeReturns, InRealm, CatalogInv, CatalogTypes
    <3>2. \A x \in Catalog!Probes : Catalog!Part(x, upstream[r]) \in Parts
      BY <3>1 DEF Catalog!Part, Parts
    <3> QED  BY <3>2 DEF Catalog!Table, Catalog!Roster, Catalog!Probes
  <2>2. query' = [query EXCEPT ![c] = q]
    BY <1>3, <1>5 DEF Catalog!ProbeReturns
  <2> HIDE DEF parts
  <2>3. list \in Lists /\ list.realm = query[c].list.realm
    BY <1>3, <2>1, MergedList DEF Asked
  <2> HIDE DEF list
  <2>4. q \in Asked /\ InRealm(q)
    BY <1>3, <2>3 DEF Asked, InRealm
  <2> QED  BY <1>2, <1>5, <2>2, <2>4 DEF Catalog!ProbeReturns
<1>6. CASE Catalog!Discovers(c)
  <2>1. query' = [query EXCEPT ![c] = [query[c] EXCEPT !.at = "located"]]
    BY <1>3, <1>6 DEF Catalog!Discovers
  <2>2. [query[c] EXCEPT !.at = "located"] \in Asked /\ InRealm([query[c] EXCEPT !.at = "located"])
    BY <1>3, <1>6 DEF Catalog!Discovers, Catalog!Probed, Asked, InRealm
  <2>3. /\ query[c].store.realm \in Catalog!Realms /\ query[c].list \in Lists
        /\ query[c].list.realm = query[c].store.realm
    BY <1>3, <1>6 DEF Catalog!Discovers, Catalog!Probed, Asked, InRealm
  <2> QED
    BY <1>6, <2>1, <2>2, <2>3 DEF Catalog!Discovers, CatalogInv, CatalogTypes, CatalogLabels
<1>7. CASE Catalog!Fails(c)
  BY <1>1, <1>2, <1>7 DEF Catalog!Fails, Catalog!Answers
<1>8. CASE Catalog!Locates(c)
  <2> DEFINE new == [realm |-> query[c].store.realm, list |-> query[c].list, at |-> clock]
             store == [docs[c] EXCEPT !.cache = new]
             q == [query[c] EXCEPT !.at = "saving", !.store = store]
  <2>1. query' = [query EXCEPT ![c] = Catalog!Resting] \/ query' = [query EXCEPT ![c] = q]
    BY <1>3, <1>8 DEF Catalog!Locates, Catalog!Answers
  <2>2. new \in Snaps /\ query[c].list.realm = query[c].store.realm
    BY <1>3, <1>8, UpstreamAssumption DEF Catalog!Locates, CatalogInv, CatalogTypes, Snaps, Asked, Stores, InRealm
  <2>3. store \in Stores /\ Labelled(store) /\ store.realm \in Catalog!Realms
    BY <1>3, <2>2, NewSnapshot DEF Labelled
  <2> HIDE DEF store
  <2>4. q \in Asked /\ InRealm(q)
    BY <1>3, <2>3 DEF Asked, InRealm
  <2> QED  BY <1>1, <1>2, <1>8, <2>1, <2>4 DEF Catalog!Locates
<1>9. CASE Catalog!Saves(c)
  <2>1. query' = [query EXCEPT ![c] = Catalog!Resting]
    BY <1>9 DEF Catalog!Saves, Catalog!Answers
  <2>2. /\ query[c].store \in Stores /\ Labelled(query[c].store)
        /\ query[c].store.realm \in Catalog!Realms
    BY <1>3, <1>9 DEF Catalog!Saves, Asked, InRealm
  <2> QED
    BY <1>1, <1>9, <2>1, <2>2 DEF Catalog!Saves, CatalogInv, CatalogTypes, CatalogLabels
<1> QED  BY <1>4, <1>5, <1>6, <1>7, <1>8, <1>9 DEF Catalog!Queries

LEMMA NewToken ==
  ASSUME NEW doc \in Stores, NEW r \in Catalog!Realms
  PROVE  /\ [doc EXCEPT !.token = @ + 1, !.realm = r] \in Stores
         /\ [doc EXCEPT !.token = @ + 1, !.realm = r].cache = doc.cache
         /\ [doc EXCEPT !.token = @ + 1, !.realm = r].realm = r
<1> DEFINE d == [doc EXCEPT !.token = @ + 1]
<1>1. d \in Stores /\ d.cache = doc.cache
  BY DEF Stores
<1>2. [doc EXCEPT !.token = @ + 1, !.realm = r] = [d EXCEPT !.realm = r]
  OBVIOUS
<1>3. r \in OrNone
  BY DEF OrNone
<1> HIDE DEF d
<1>4. /\ [d EXCEPT !.realm = r] \in Stores
      /\ [d EXCEPT !.realm = r].cache = d.cache /\ [d EXCEPT !.realm = r].realm = r
  BY <1>1, <1>3 DEF Stores
<1> QED  BY <1>1, <1>2, <1>4

LEMMA CatalogStep == CatalogInv /\ [Catalog!Next]_catalogVars => CatalogInv'
<1> SUFFICES ASSUME CatalogInv, [Catalog!Next]_catalogVars PROVE CatalogInv'
  OBVIOUS
<1>1. ASSUME NEW c \in Creds, Catalog!Queries(c) PROVE CatalogInv'
  BY <1>1, CatalogQuery
<1> USE DEF CatalogInv, CatalogTypes, CatalogLabels
<1>2. /\ Catalog!Resting \in Asked /\ InRealm(Catalog!Resting)
      /\ Catalog!NotWriting \in [writes : {FALSE}, doc : Stores] /\ Labelled(Catalog!NotWriting.doc)
  BY DEF Asked, Stores, Lists, Snaps, OrNone, Catalog!Resting, Catalog!NoSnapshot, Catalog!Nothing,
     Catalog!NotWriting, Labelled, InRealm
<1>3. ASSUME NEW c \in Creds, Catalog!Preserves(c) PROVE CatalogInv'
  <2>1. PICK doc \in Catalog!Rebuilt(docs[c]) :
          rewrite' = [rewrite EXCEPT ![c] = [writes |-> TRUE, doc |-> doc]]
    BY <1>3 DEF Catalog!Preserves
  <2>2. doc \in Stores /\ Labelled(doc) /\ doc.realm \in Catalog!Realms
    <3>1. CASE doc = docs[c]
      BY <3>1
    <3>2. ASSUME NEW r \in Catalog!Realms, doc = [docs[c] EXCEPT !.token = @ + 1, !.realm = r]
          PROVE  doc \in Stores /\ Labelled(doc) /\ doc.realm \in Catalog!Realms
      <4> DEFINE next == [docs[c] EXCEPT !.token = @ + 1, !.realm = r]
      <4>1. docs[c] \in Stores /\ Labelled(docs[c])
        OBVIOUS
      <4>2. next \in Stores /\ next.cache = docs[c].cache /\ next.realm = r
        BY <4>1, NewToken
      <4>3. doc = next
        BY <3>2
      <4> HIDE DEF next
      <4> QED  BY <4>1, <4>2, <4>3 DEF Labelled
    <3> QED  BY <3>1, <3>2 DEF Catalog!Rebuilt
  <2> QED  BY <1>3, <2>1, <2>2 DEF Catalog!Preserves
<1>4. ASSUME NEW c \in Creds, Catalog!Rebuilds(c) PROVE CatalogInv'
  BY <1>2, <1>4 DEF Catalog!Rebuilds
<1>5. ASSUME NEW r \in Catalog!Realms, Catalog!Expires(r) PROVE CatalogInv'
  <2>1. clock' \in 0 .. Horizon
    BY <1>5, UpstreamAssumption DEF Catalog!Expires
  <2>2. /\ cache' \in [Catalog!Realms -> [list : Lists, fresh : BOOLEAN]]
        /\ \A x \in Catalog!Realms : cache'[x].list = cache[x].list
    BY <1>5 DEF Catalog!Expires
  <2> QED  BY <1>5, <2>1, <2>2 DEF Catalog!Expires
<1>6. ASSUME NEW r \in Catalog!Realms, Catalog!Publishes(r) PROVE CatalogInv'
  BY <1>6 DEF Catalog!Publishes
<1>7. CASE Catalog!Outage
  BY <1>7 DEF Catalog!Outage
<1>8. CASE Catalog!Restarted
  <2>1. Catalog!Nothing \in Lists
    BY DEF Catalog!Nothing, Lists, OrNone
  <2> QED  BY <1>2, <1>8, <2>1 DEF Catalog!Restarted
<1>9. CASE UNCHANGED catalogVars
  BY <1>9 DEF catalogVars
<1> QED
  BY <1>1, <1>3, <1>4, <1>5, <1>6, <1>7, <1>8, <1>9 DEF Catalog!Next

LEMMA CatalogKeepsRealm == CatalogInv => Catalog!RealmKept /\ Catalog!TypeOK
<1> SUFFICES ASSUME CatalogInv PROVE Catalog!RealmKept /\ Catalog!TypeOK
  OBVIOUS
<1> USE DEF CatalogInv, CatalogTypes, CatalogLabels, Labelled
<1>1. ASSUME NEW r \in Catalog!Realms, NEW holders \in SUBSET {d \in Creds : Catalog!Serves(docs[d], r)},
             NEW list \in Catalog!Freshest(holders)
      PROVE  list.realm = r
  BY DEF Catalog!Freshest, Catalog!Serves
<1>2. ASSUME NEW c \in Creds, Catalog!FailedProbes(c), NEW list \in Catalog!Offered(c)
      PROVE  list.realm = query[c].store.realm
  <2>1. query[c].store.realm \in Catalog!Realms
    BY <1>2 DEF Catalog!FailedProbes, Catalog!Probed, Catalog!At, InRealm
  <2> QED
    <3> DEFINE r == query[c].store.realm
               holders == {d \in Creds : Catalog!Serves(docs[d], r)}
    <3>1. CASE Catalog!CachedAnyAge(r)
      BY <1>2, <2>1, <3>1 DEF Catalog!Offered, Catalog!CachedAnyAge
    <3>2. CASE ~ Catalog!CachedAnyAge(r) /\ Catalog!Serves(query[c].store, r)
      BY <1>2, <2>1, <3>2 DEF Catalog!Offered, Catalog!Snapshots, Catalog!Serves, InRealm
    <3>3. CASE ~ Catalog!CachedAnyAge(r) /\ ~ Catalog!Serves(query[c].store, r)
      <4>1. list \in Catalog!Freshest(holders)
        BY <1>2, <3>3 DEF Catalog!Offered, Catalog!Snapshots
      <4> QED  BY <1>1, <2>1, <4>1
    <3> QED  BY <3>1, <3>2, <3>3
<1>3. ASSUME NEW r \in Catalog!Realms, NEW list \in Catalog!Shown(r) PROVE list.realm = r
  BY <1>1, <1>3 DEF Catalog!Shown
<1>4. Catalog!TypeOK
  BY DEF Catalog!TypeOK, Asked
<1> QED  BY <1>2, <1>3, <1>4 DEF Catalog!RealmKept

-----------------------------------------------------------------------------
\* A behaviour of MCUpstream: one lane moves, and only that one.

LanesInv == QoderInv /\ TraeInv /\ WbInv /\ PlainInv /\ CatalogInv

LEMMA LanesMove ==
  [LanesNext]_allVars =>
    /\ [Next]_vars /\ [Trae!Next]_traeVars /\ [Workbuddy!Next]_wbVars
    /\ [Plain!Next]_plainVars /\ [Catalog!Next]_catalogVars
    /\ lane' = lane
BY DEF LanesNext, allVars, InQoder, InTrae, InWorkbuddy, InPlain, InCatalog

LEMMA LanesInvInit == LanesInit => LanesInv
BY QoderInit, TraeInit, WbInit, PlainInit, CatalogInit DEF LanesInit, LanesInv

LEMMA LanesInvStep == LanesInv /\ [LanesNext]_allVars => LanesInv'
BY LanesMove, QoderStep, TraeStep, WbStep, PlainStep, CatalogStep DEF LanesInv

LEMMA LanesInvHolds == LanesSpec => []LanesInv
BY LanesInvInit, LanesInvStep, PTL DEF LanesSpec

LEMMA LanesTyped == LanesInv => LanesTypeOK
BY CatalogKeepsRealm DEF LanesInv, LanesTypeOK, QoderInv, IInv, TraeInv, WbInv, PlainInv

\* Qoder: exactly one of pump and hand-off tells a failure (stream.go:149-151).
\* Workbuddy and the plain streams: a failed call was told of once, and what is
\* credited had its answer whole. Trae: an error frame decides a call exactly
\* when it comes before any answer, and is never a success (main.go:2318-2338).
THEOREM FaultsAlwaysDecide == LanesSpec => [](FailureToldOnce /\ FaultsDecide)
<1>1. LanesInv => FailureToldOnce /\ FaultsDecide
  BY QoderDecides, TraeDecides, WbDecides, PlainDecides DEF LanesInv, FaultsDecide
<1> QED  BY LanesInvHolds, <1>1, PTL

\* Every chunk trae's converter made is delivered, held or dropped by a client
\* that left, in order, whatever the channel holds; a qoder stream holds or
\* delivers what it read (stream.go:366).
THEOREM ChunksNeverLost == LanesSpec => []NothingLost
<1>1. LanesInv => NothingLost
  BY LanesTyped DEF LanesInv, NothingLost, QoderInv, TraeInv
<1> QED  BY LanesInvHolds, <1>1, PTL

\* No credential is answered with, and no panel group shows, a list of another
\* realm, whatever fails, restarts or moves (models_persist.go:16-21).
THEOREM ListsStayInRealm == LanesSpec => []RealmKept
<1>1. LanesInv => RealmKept
  BY CatalogKeepsRealm DEF LanesInv, RealmKept
<1> QED  BY LanesInvHolds, <1>1, PTL

-----------------------------------------------------------------------------
\* Call is the contract over the lane's own view of its call.

LEMMA QoderSeen ==
  lane = "qoder" /\ lane' = lane /\ [Contract!Next]_(Contract!vars) => [Call!Next]_(Call!vars)
BY DEF Contract!Next, Contract!vars, Contract!Refuse, Contract!Open, Contract!Proceed,
   Call!Next, Call!vars, Call!Refuse, Call!Open, Call!Proceed, Verdict, Opened

LEMMA TraeSeen ==
  lane = "trae" /\ lane' = lane /\ [Trae!Contract!Next]_(Trae!Contract!vars) => [Call!Next]_(Call!vars)
BY DEF Trae!Contract!Next, Trae!Contract!vars, Trae!Contract!Refuse, Trae!Contract!Open,
   Trae!Contract!Proceed, Call!Next, Call!vars, Call!Refuse, Call!Open, Call!Proceed

LEMMA WbSeen ==
  lane = "workbuddy" /\ lane' = lane /\ [WbCall!Next]_(WbCall!vars) => [Call!Next]_(Call!vars)
BY DEF WbCall!Next, WbCall!vars, WbCall!Refuse, WbCall!Open, WbCall!Proceed,
   Call!Next, Call!vars, Call!Refuse, Call!Open, Call!Proceed

LEMMA PlainSeen ==
  /\ lane \notin {"qoder", "trae", "workbuddy"} /\ lane' = lane
  /\ [PlainCall!Next]_(PlainCall!vars)
  => [Call!Next]_(Call!vars)
BY DEF PlainCall!Next, PlainCall!vars, PlainCall!Refuse, PlainCall!Open, PlainCall!Proceed,
   Call!Next, Call!vars, Call!Refuse, Call!Open, Call!Proceed

LEMMA CallStep == LanesInv /\ [LanesNext]_allVars => [Call!Next]_(Call!vars)
<1> SUFFICES ASSUME LanesInv, [LanesNext]_allVars PROVE [Call!Next]_(Call!vars)
  OBVIOUS
<1>1. LanesInv' /\ lane' = lane
  BY LanesInvStep, LanesMove
<1>2. [Contract!Next]_(Contract!vars)
  BY <1>1, LanesMove, ContractStep DEF LanesInv, QoderInv
<1>3. [Trae!Contract!Next]_(Trae!Contract!vars)
  BY <1>1, LanesMove, TraeContractStep DEF LanesInv
<1>4. [WbCall!Next]_(WbCall!vars)
  BY <1>1, LanesMove, WbContractStep DEF LanesInv
<1>5. [PlainCall!Next]_(PlainCall!vars)
  BY <1>1, LanesMove, PlainContractStep DEF LanesInv
<1> QED  BY <1>1, <1>2, <1>3, <1>4, <1>5, QoderSeen, TraeSeen, WbSeen, PlainSeen

\* Whichever plugin serves it, a call is opened or refused once, a refused one
\* has shown nothing, a failure is told once and never credited (StreamedCall).
THEOREM EveryCallKeepsContract == LanesSpec => CallsKeepContract
<1>1. LanesInit => Call!Init
  BY DEF LanesInit, Init, Trae!Init, Workbuddy!Init, Plain!Init, Call!Init, Opened, Trae!Verdict
<1> QED
  BY LanesInvInit, LanesInvStep, CallStep, <1>1, PTL
  DEF LanesSpec, CallsKeepContract, Call!Spec

\* The same for trae's stream under its own specification.
THEOREM TraeKeepsContract == Trae!Spec => [](Trae!FaultBlocksSuccess) /\ Trae!Contract!Spec
<1>1. Trae!Init => Trae!Contract!Init
  BY DEF Trae!Init, Trae!Contract!Init, Trae!Verdict
<1>2. TraeInv /\ TraeInv' /\ [Trae!Next]_(Trae!vars) => [Trae!Contract!Next]_(Trae!Contract!vars)
  BY TraeContractStep DEF Trae!vars, traeVars
<1>3. TraeInv /\ [Trae!Next]_(Trae!vars) => TraeInv'
  BY TraeStep DEF Trae!vars, traeVars
<1> QED  BY TraeInit, TraeDecides, <1>1, <1>2, <1>3, PTL DEF Trae!Spec, Trae!Contract!Spec
=============================================================================
