----------------------------- MODULE ZcodeOffPeak -----------------------------
(***************************************************************************)
(* The off-peak ticket lane of the zcode plugin: offPeakAcquireTicket      *)
(* (plugins/zcode/offpeak.go) and the two executor handlers that ride it   *)
(* (plugins/zcode/main.go, handleExecExecute and handleExecStream).        *)
(*                                                                         *)
(* A round takes a queue ticket, polls while it is queued, sends with the  *)
(* ready ticket, and settles it.  The non-stream round also waits out      *)
(* queue acks and re-takes expired tickets under the same task.  Tickets   *)
(* live on the server, whose admission and timeouts run on their own.      *)
(* A handler's deferred settle runs in the step that ends the round.       *)
(***************************************************************************)
EXTENDS Integers, FiniteSets

CONSTANTS Executes,     \* rounds of handleExecExecute
          Streams,      \* rounds of handleExecStream
          Tickets,      \* the ticket ids the server can still hand out
          NoTicket,     \* the empty ticket id
          NoRound,      \* the task of a ticket nobody has taken
          Budget,       \* offpeak_max_wait; 0 is the default
          MaxAttempts,  \* offPeakSendMaxAttempts
          MaxPoll,      \* longest poll interval the server may quote
          MaxTime       \* bound of the clock

VARIABLES clock,     \* wall time
          srv,       \* srv[t]: the server's admission state of ticket t
          owner,     \* owner[t]: the round whose task_id ticket t was cut for
          pc,        \* pc[r]: where round r is
          tk,        \* tk[r]: the ticket inside offPeakAcquireTicket
          cur,       \* cur[r]: currentTicketID
          resume,    \* resume[r]: this acquire is a 3102 re-take
          deadline,  \* deadline[r]: offDeadline
          wake,      \* wake[r]: the end of the sleep r is in
          attempt,   \* attempt[r]: sends so far
          acquired,  \* acquired[r]: every ticket an acquire returned to r
          settled    \* the tickets a settle call was made for

vars == <<clock, srv, owner, pc, tk, cur, resume, deadline, wake, attempt,
          acquired, settled>>

Rounds == Executes \cup Streams

Live == {"queued", "ready", "active"}

ServerStates == {"unborn", "expired", "settled"} \cup Live

Places == {"start", "take", "queued", "polling", "body", "send", "backoff",
           "failed", "done"}

\* The lane's budget is measured only when one is configured.
OutOfBudgetIgnored(r) == FALSE
OutOfBudget(r) == Budget > 0 /\ clock >= deadline[r]

\* A sleep of d: never past the deadline of a budgeted round.
SleepEnd(r, d) ==
  IF Budget > 0 /\ deadline[r] < clock + d THEN deadline[r] ELSE clock + d

-----------------------------------------------------------------------------
Init ==
  /\ clock = 0
  /\ srv = [t \in Tickets |-> "unborn"]
  /\ owner = [t \in Tickets |-> NoRound]
  /\ pc = [r \in Rounds |-> "start"]
  /\ tk = [r \in Rounds |-> NoTicket]
  /\ cur = [r \in Rounds |-> NoTicket]
  /\ resume = [r \in Rounds |-> FALSE]
  /\ deadline = [r \in Rounds |-> 0]
  /\ wake = [r \in Rounds |-> 0]
  /\ attempt = [r \in Rounds |-> 0]
  /\ acquired = [r \in Rounds |-> {}]
  /\ settled = {}

Goto(r, place) == pc' = [pc EXCEPT ![r] = place]

\* The round of an eligible account starts: fresh task_id, deadline, first
\* take.  The guard keeps every deadline within the clock's bound.
Begin(r) ==
  /\ pc[r] = "start"
  /\ clock + Budget <= MaxTime
  /\ deadline' = [deadline EXCEPT ![r] = clock + Budget]
  /\ Goto(r, "take")
  /\ UNCHANGED <<clock, srv, owner, tk, cur, resume, wake, attempt, acquired, settled>>

\* offPeakSettleBestEffort: an empty id makes no call, and the server may
\* never see a call (network errors and 5xx are swallowed).
Settle(t) ==
  IF t = NoTicket
  THEN UNCHANGED <<srv, settled>>
  ELSE /\ settled' = settled \cup {t}
       /\ srv' \in {srv, [srv EXCEPT ![t] = "settled"]}

\* handleExecExecute returns: its deferred settle reads currentTicketID.
\* handleExecStream settles on the exits of the pump and of the collector.
EndRound(r) ==
  /\ Settle(cur[r])
  /\ Goto(r, "done")
EndRoundUnsettled(r) ==
  /\ UNCHANGED <<srv, settled>>
  /\ Goto(r, "done")

\* An acquire failed: the first one ends the round before any ticket is
\* held; a re-take falls through to the error rendering.  The queued ticket,
\* if there is one, is left to the server's timeout.
AcquireFailed(r) ==
  IF resume[r] THEN Goto(r, "failed") ELSE Goto(r, "done")

\* The ticket turned ready.  The first acquire hands it to the round; a
\* re-take settles the old ticket, then swaps it.
AcquiredNoSettle(r, t) ==
  /\ acquired' = [acquired EXCEPT ![r] = @ \cup {t}]
  /\ cur' = [cur EXCEPT ![r] = t]
  /\ UNCHANGED settled
  /\ Goto(r, IF resume[r] THEN "send" ELSE "body")
AcquiredSettlesNew(r, t) ==
  /\ acquired' = [acquired EXCEPT ![r] = @ \cup {t}]
  /\ cur' = [cur EXCEPT ![r] = t]
  /\ settled' = IF resume[r] THEN settled \cup {cur[r], t} ELSE settled
  /\ Goto(r, IF resume[r] THEN "send" ELSE "body")
Acquired(r, t) ==
  /\ acquired' = [acquired EXCEPT ![r] = @ \cup {t}]
  /\ cur' = [cur EXCEPT ![r] = t]
  /\ settled' = IF resume[r] /\ cur[r] # NoTicket
                THEN settled \cup {cur[r]} ELSE settled
  /\ Goto(r, IF resume[r] THEN "send" ELSE "body")

\* What a take may be answered with: a fresh ticket, or the live one the
\* task already holds; none left is the 3103 quota.
Offers(r) == {t \in Tickets : srv[t] = "unborn" \/ (owner[t] = r /\ srv[t] \in Live)}

\* offPeakTakeTicket and the first look at the ticket's state: the server
\* refuses, or queues, or grants at once.
TakeRefused(r) ==
  /\ pc[r] = "take"
  /\ AcquireFailed(r)
  /\ UNCHANGED <<clock, srv, owner, tk, cur, resume, deadline, wake, attempt, acquired, settled>>

TakeQueued(r, t) ==
  /\ pc[r] = "take" /\ t \in Offers(r)
  /\ srv[t] \in {"unborn", "queued"}
  /\ srv' = [srv EXCEPT ![t] = "queued"]
  /\ owner' = [owner EXCEPT ![t] = r]
  /\ tk' = [tk EXCEPT ![r] = t]
  /\ Goto(r, "queued")
  /\ UNCHANGED <<clock, cur, resume, deadline, wake, attempt, acquired, settled>>

TakeReady(r, t) ==
  /\ pc[r] = "take" /\ t \in Offers(r)
  /\ srv[t] # "queued"
  /\ srv' = [srv EXCEPT ![t] = IF @ = "unborn" THEN "ready" ELSE @]
  /\ owner' = [owner EXCEPT ![t] = r]
  /\ tk' = [tk EXCEPT ![r] = t]
  /\ Acquired(r, t)
  /\ UNCHANGED <<clock, resume, deadline, wake, attempt>>

\* The head of the poll loop on a queued ticket: out of budget, or sleep.
PollLater(r, d) ==
  /\ pc[r] = "queued"
  /\ ~ OutOfBudget(r)
  /\ wake' = [wake EXCEPT ![r] = SleepEnd(r, d)]
  /\ Goto(r, "polling")
  /\ UNCHANGED <<clock, srv, owner, tk, cur, resume, deadline, attempt, acquired, settled>>

PollGiveUp(r) ==
  /\ pc[r] = "queued"
  /\ OutOfBudget(r)
  /\ AcquireFailed(r)
  /\ UNCHANGED <<clock, srv, owner, tk, cur, resume, deadline, wake, attempt, acquired, settled>>

\* offPeakBatchStatus after the sleep: a failed probe, an answer without the
\* ticket and a still-queued one loop; ready or active is granted; a dead
\* ticket is re-taken under the same task_id.
PollAgain(r) ==
  /\ pc[r] = "polling" /\ clock >= wake[r]
  /\ Goto(r, "queued")
  /\ UNCHANGED <<clock, srv, owner, tk, cur, resume, deadline, wake, attempt, acquired, settled>>

PollReady(r) ==
  /\ pc[r] = "polling" /\ clock >= wake[r]
  /\ srv[tk[r]] \in {"ready", "active"}
  /\ Acquired(r, tk[r])
  /\ UNCHANGED <<clock, srv, owner, tk, resume, deadline, wake, attempt>>

PollRetake(r) ==
  /\ pc[r] = "polling" /\ clock >= wake[r]
  /\ srv[tk[r]] \in {"expired", "settled"}
  /\ Goto(r, "take")
  /\ UNCHANGED <<clock, srv, owner, tk, cur, resume, deadline, wake, attempt, acquired, settled>>

\* The anthropic body is built, or is refused: the non-stream handler's
\* deferred settle runs, the stream handler just returns.
BuildBody(r) ==
  /\ pc[r] = "body"
  /\ Goto(r, "send")
  /\ UNCHANGED <<clock, srv, owner, tk, cur, resume, deadline, wake, attempt, acquired, settled>>

BuildBodyFails(r) ==
  /\ pc[r] = "body"
  /\ IF r \in Executes THEN EndRound(r) ELSE EndRoundUnsettled(r)
  /\ UNCHANGED <<clock, owner, tk, cur, resume, deadline, wake, attempt, acquired>>

\* A send that ends the round: the completion, a transport or read error,
\* and for a stream every outcome, since it cannot be retried.
SendEnds(r) ==
  /\ pc[r] = "send"
  /\ EndRound(r)
  /\ attempt' = [attempt EXCEPT ![r] = @ + 1]
  /\ UNCHANGED <<clock, owner, tk, cur, resume, deadline, wake, acquired>>

CanRetry(r) == r \in Executes /\ attempt[r] < MaxAttempts

\* 3105 or a bare 429: wait and send again on the same ticket.
SendQueueAck(r, d) ==
  /\ pc[r] = "send" /\ CanRetry(r)
  /\ attempt' = [attempt EXCEPT ![r] = @ + 1]
  /\ IF OutOfBudget(r)
     THEN Goto(r, "failed") /\ UNCHANGED wake
     ELSE Goto(r, "backoff") /\ wake' = [wake EXCEPT ![r] = SleepEnd(r, d)]
  /\ UNCHANGED <<clock, srv, owner, tk, cur, resume, deadline, acquired, settled>>

BackoffEnds(r) ==
  /\ pc[r] = "backoff" /\ clock >= wake[r]
  /\ Goto(r, "send")
  /\ UNCHANGED <<clock, srv, owner, tk, cur, resume, deadline, wake, attempt, acquired, settled>>

\* 3102 or 3001: the ticket is dead; re-take under the same task_id.
SendTicketExpired(r) ==
  /\ pc[r] = "send" /\ CanRetry(r)
  /\ srv[cur[r]] \in {"expired", "settled"}
  /\ attempt' = [attempt EXCEPT ![r] = @ + 1]
  /\ IF OutOfBudget(r)
     THEN Goto(r, "failed") /\ UNCHANGED resume
     ELSE Goto(r, "take") /\ resume' = [resume EXCEPT ![r] = TRUE]
  /\ UNCHANGED <<clock, srv, owner, tk, cur, deadline, wake, acquired, settled>>

\* Any other rejection, or no attempt left.
SendFails(r) ==
  /\ pc[r] = "send" /\ r \in Executes
  /\ attempt' = [attempt EXCEPT ![r] = @ + 1]
  /\ Goto(r, "failed")
  /\ UNCHANGED <<clock, srv, owner, tk, cur, resume, deadline, wake, acquired, settled>>

\* The error is rendered, or a captcha retry on the ticketless plan route
\* answers instead; either way the handler returns.
RenderFailure(r) ==
  /\ pc[r] = "failed"
  /\ EndRound(r)
  /\ UNCHANGED <<clock, owner, tk, cur, resume, deadline, wake, attempt, acquired>>

\* The server: admission, the first message of a ready ticket, timeouts.
Admit(t) ==
  /\ srv[t] = "queued"
  /\ srv' = [srv EXCEPT ![t] = "ready"]
  /\ UNCHANGED <<clock, owner, pc, tk, cur, resume, deadline, wake, attempt, acquired, settled>>

Activate(t) ==
  /\ srv[t] = "ready"
  /\ srv' = [srv EXCEPT ![t] = "active"]
  /\ UNCHANGED <<clock, owner, pc, tk, cur, resume, deadline, wake, attempt, acquired, settled>>

Expire(t) ==
  /\ srv[t] \in Live
  /\ srv' = [srv EXCEPT ![t] = "expired"]
  /\ UNCHANGED <<clock, owner, pc, tk, cur, resume, deadline, wake, attempt, acquired, settled>>

Tick ==
  /\ clock < MaxTime
  /\ clock' = clock + 1
  /\ UNCHANGED <<srv, owner, pc, tk, cur, resume, deadline, wake, attempt, acquired, settled>>

\* Everything round r does by itself once it has begun.
RoundStep(r) ==
  \/ TakeRefused(r)
  \/ \E t \in Tickets : TakeQueued(r, t) \/ TakeReady(r, t)
  \/ \E d \in 1..MaxPoll : PollLater(r, d) \/ SendQueueAck(r, d)
  \/ PollGiveUp(r) \/ PollAgain(r) \/ PollReady(r) \/ PollRetake(r)
  \/ BuildBody(r) \/ BuildBodyFails(r)
  \/ SendEnds(r) \/ BackoffEnds(r) \/ SendTicketExpired(r) \/ SendFails(r)
  \/ RenderFailure(r)

Next ==
  \/ \E r \in Rounds : Begin(r) \/ RoundStep(r)
  \/ \E t \in Tickets : Admit(t) \/ Activate(t) \/ Expire(t)
  \/ Tick

Spec == Init /\ [][Next]_vars

\* A goroutine that can run does, and time passes.
Fairness ==
  /\ WF_vars(Tick)
  /\ \A r \in Rounds : WF_vars(RoundStep(r))

FairSpec == Spec /\ Fairness

-----------------------------------------------------------------------------
\* Types; a round that sends holds a ticket it was granted.
TypeOK ==
  /\ clock \in Nat
  /\ srv \in [Tickets -> ServerStates]
  /\ owner \in [Tickets -> Rounds \cup {NoRound}]
  /\ pc \in [Rounds -> Places]
  /\ tk \in [Rounds -> Tickets \cup {NoTicket}]
  /\ cur \in [Rounds -> Tickets \cup {NoTicket}]
  /\ resume \in [Rounds -> BOOLEAN]
  /\ deadline \in [Rounds -> Nat] /\ wake \in [Rounds -> Nat]
  /\ attempt \in [Rounds -> Nat]
  /\ acquired \in [Rounds -> SUBSET Tickets]
  /\ settled \subseteq Tickets
  /\ \A r \in Rounds :
       /\ pc[r] \in {"queued", "polling"} => tk[r] \in Tickets
       /\ pc[r] \in {"body", "send", "backoff", "failed"} => cur[r] \in acquired[r]
       /\ resume[r] => cur[r] \in acquired[r]

\* An outstanding ticket holds one of the user's take numbers, so a non-stream
\* round returns with a settle made for EVERY ticket it was ever granted,
\* through any number of 3102 swaps and failed re-takes (main.go:620-622,
\* 714-716: "a 3102 retake swaps the ticket mid-round").
ExecuteSettlesAll ==
  \A r \in Executes : pc[r] = "done" => acquired[r] \subseteq settled

\* No send carries a ticket this plugin has settled: a swap settles the old
\* ticket only after the route has a new one.
SettledNeverSent ==
  \A r \in Rounds : pc[r] \in {"body", "send", "backoff"} => cur[r] \notin settled

\* "both bounded by the wait budget" (main.go:663): with a budget, no sleep
\* of the poll loop or of the queue-ack loop ends after the deadline.
SleepsWithinBudget ==
  Budget > 0 => \A r \in Rounds :
                  pc[r] \in {"polling", "backoff"} => wake[r] <= deadline[r]

\* A server that only ever queues, only answers 3105, or expires every
\* ticket cannot hold a budgeted round: each one returns to the host.
EveryRoundEnds == \A r \in Rounds : pc[r] # "start" ~> pc[r] = "done"

\* "budget <= 0 means only an immediately-ready ticket passes"
\* (offpeak.go:548): without a budget no round sleeps on a queued ticket.
\* The code does not keep this; see the README, section 7.
ZeroBudgetNeverPolls ==
  Budget = 0 => \A r \in Rounds : pc[r] # "polling"

\* "acquire -> ready, then the caller sends + settles" (offpeak.go:536): no
\* round, streamed or not, returns leaving a granted ticket unsettled.
\* The code does not keep this; see the README, section 7.
EveryRoundSettlesAll ==
  \A r \in Rounds : pc[r] = "done" => acquired[r] \subseteq settled
=============================================================================
