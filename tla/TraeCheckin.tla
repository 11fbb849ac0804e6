----------------------------- MODULE TraeCheckin -----------------------------
(* The daily check-in of the trae plugin: scheduled runs over the pool,      *)
(* their same-day retries after a 9074 refusal, manual check-ins from the    *)
(* panel, and the registry that keeps an accepted claim from being sent      *)
(* again.  A day is two units of the clock; the claim's day is UTC+8, the    *)
(* retry budget's the host's own, Skew units apart.                          *)
EXTENDS Naturals, FiniteSets

CONSTANTS Accounts, Hands, NoAccount, Skew,
          MaxRetries,  \* maxCheckinRetries
          MaxClock     \* bound on the clock

VARIABLES clock,
          claimDay, claimSent,  \* claimOnceDay, claimOnceSent
          run,       \* the scheduled run that holds runMu
          waiting,   \* runs that wait for runMu: the main loop's, a timer's
          retry,     \* retryAttempt, retryDay, retryTimer
          hand,      \* manual check-ins: the account whose claim is under way
          accepted,  \* history: code:0 answers per claimant and account today
          early      \* history: who passed the gate before today's first of them

vars == <<clock, claimDay, claimSent, run, waiting, retry, hand, accepted, early>>

(* The runs, which runMu puts in a row, and the manual check-ins, any number *)
(* of which may be under way at once.                                        *)
Claimants == Hands \cup {"scheduled"}
LocalDay(c) == c \div 2
ClaimDay(c) == (c + Skew) \div 2
NoRun == [on |-> FALSE, todo |-> {}, claims |-> NoAccount, limited |-> FALSE]

TypeOK ==
    /\ clock \in 0..MaxClock
    /\ claimDay \in Nat /\ claimSent \subseteq Accounts
    /\ run \in [on : BOOLEAN, todo : SUBSET Accounts,
                claims : Accounts \cup {NoAccount}, limited : BOOLEAN]
    /\ waiting \subseteq {"daily", "timer"}
    /\ retry \in [attempt : 0..MaxRetries, day : Nat, timer : BOOLEAN]
    /\ hand \in [Hands -> Accounts \cup {NoAccount}]
    /\ accepted \in [Claimants \X Accounts -> 0..2]
    /\ early \subseteq Claimants

Init ==
    /\ clock = 0 /\ claimDay = 0 /\ claimSent = {}
    /\ run = NoRun /\ waiting = {}
    /\ retry = [attempt |-> 0, day |-> 0, timer |-> FALSE]
    /\ hand = [h \in Hands |-> NoAccount]
    /\ accepted = [p \in Claimants \X Accounts |-> 0]
    /\ early = {}
-----------------------------------------------------------------------------
ClaimSentToday(a) == claimDay = ClaimDay(clock) /\ a \in claimSent

NoteClaimSentNot(a) == UNCHANGED <<claimDay, claimSent>>  \* mutant: not noted

NoteClaimSent(a) ==
    /\ claimDay' = ClaimDay(clock)
    /\ claimSent' = {a} \cup (IF claimDay = ClaimDay(clock) THEN claimSent ELSE {})

(* The day must be enabled and out by the status read, and no claim accepted *)
(* today; the status may lag a claim that did land.                          *)
ClaimGate(a) == ~ClaimSentToday(a)

ScheduleRetry(limited) ==
    retry' =
      IF ~limited THEN [retry EXCEPT !.attempt = 0, !.timer = FALSE]
      ELSE LET spent == IF retry.day = LocalDay(clock) THEN retry.attempt ELSE 0
               left == spent < MaxRetries
           IN [day |-> LocalDay(clock),
               attempt |-> IF left THEN spent + 1 ELSE spent,
               timer |-> left \/ retry.timer]

NoneToday(a) == \A p \in Claimants : accepted[<<p, a>>] = 0

(* A claim is on its way; the answer comes, and is noted, at any later time. *)
Sets(p, a) == early' = IF NoneToday(a) THEN early \cup {p} ELSE early \ {p}
Accept(p, a) ==
    /\ NoteClaimSent(a)
    /\ accepted' = [accepted EXCEPT ![<<p, a>>] = IF @ < 2 THEN @ + 1 ELSE @]
-----------------------------------------------------------------------------
DailyFires ==
    /\ "daily" \notin waiting /\ waiting' = waiting \cup {"daily"}
    /\ UNCHANGED <<clock, claimDay, claimSent, run, retry, hand, accepted, early>>

(* A retry that fired waits for the lock; nothing stops it any more.         *)
TimerFires ==
    /\ retry.timer /\ retry' = [retry EXCEPT !.timer = FALSE]
    /\ waiting' = waiting \cup {"timer"}
    /\ UNCHANGED <<clock, claimDay, claimSent, run, hand, accepted, early>>

RunStarts ==
    /\ ~run.on
    /\ \E w \in waiting : waiting' = waiting \ {w}
    /\ \E enabled \in SUBSET Accounts : run' = [NoRun EXCEPT !.on = TRUE, !.todo = enabled]
    /\ UNCHANGED <<clock, claimDay, claimSent, retry, hand, accepted, early>>

StatusAnswers == {"limited", "in", "out"}
ClaimAnswers == {"limited", "error", "ok"}

(* The next account's status: refused with 9074, unread or in, or out.       *)
RunLooks(a) ==
    /\ run.claims = NoAccount /\ a \in run.todo
    /\ \E answer \in StatusAnswers :
         LET claims == answer = "out" /\ ClaimGate(a) IN
         /\ run' = [run EXCEPT !.todo = @ \ {a}, !.limited = @ \/ answer = "limited",
                      !.claims = IF claims THEN a ELSE NoAccount]
         /\ IF claims THEN Sets("scheduled", a) ELSE UNCHANGED early
    /\ UNCHANGED <<clock, claimDay, claimSent, waiting, retry, hand, accepted>>

RunClaims ==
    /\ run.claims # NoAccount
    /\ \E answer \in ClaimAnswers :
         /\ run' = [run EXCEPT !.claims = NoAccount, !.limited = @ \/ answer = "limited"]
         /\ IF answer = "ok" THEN Accept("scheduled", run.claims)
            ELSE UNCHANGED <<claimDay, claimSent, accepted>>
    /\ UNCHANGED <<clock, waiting, retry, hand, early>>

RunEnds ==
    /\ run.on /\ run.todo = {} /\ run.claims = NoAccount
    /\ run' = NoRun
    /\ ScheduleRetry(run.limited)
    /\ UNCHANGED <<clock, claimDay, claimSent, waiting, hand, accepted, early>>

(* A manual check-in takes no lock: status and gate, then the claim.         *)
HandLooks(h, a) ==
    /\ hand[h] = NoAccount
    /\ \/ ClaimGate(a) /\ hand' = [hand EXCEPT ![h] = a] /\ Sets(h, a) /\ UNCHANGED retry
       \/ ScheduleRetry(TRUE) /\ UNCHANGED <<hand, early>>
    /\ UNCHANGED <<clock, claimDay, claimSent, run, waiting, accepted>>

HandClaims(h) ==
    /\ hand[h] # NoAccount
    /\ hand' = [hand EXCEPT ![h] = NoAccount]
    /\ \/ Accept(h, hand[h]) /\ UNCHANGED retry
       \/ ScheduleRetry(TRUE) /\ UNCHANGED <<claimDay, claimSent, accepted>>
       \/ UNCHANGED <<retry, claimDay, claimSent, accepted>>
    /\ UNCHANGED <<clock, run, waiting, early>>

Tick ==
    /\ clock < MaxClock /\ clock' = clock + 1
    /\ IF ClaimDay(clock + 1) = ClaimDay(clock) THEN UNCHANGED <<accepted, early>>
       ELSE accepted' = [p \in Claimants \X Accounts |-> 0] /\ early' = Claimants
    /\ UNCHANGED <<claimDay, claimSent, run, waiting, retry, hand>>

Next ==
    \/ DailyFires \/ TimerFires \/ RunStarts \/ RunClaims \/ RunEnds \/ Tick
    \/ \E a \in Accounts : RunLooks(a)
    \/ \E h \in Hands : HandClaims(h) \/ \E a \in Accounts : HandLooks(h, a)

Spec == Init /\ [][Next]_vars
-----------------------------------------------------------------------------
ClaimOf(p) == IF p = "scheduled" THEN run.claims ELSE hand[p]

(* However runs, their retries and any number of manual check-ins interleave,*)
(* a claim under way was let through before the first acceptance of its      *)
(* account on this UTC+8 day, so two that are accepted on one day have both  *)
(* been under way at once; and nobody has two of his own accepted, for the   *)
(* runs as for check-ins one after the other: a retry only claims what was   *)
(* refused (claim_once.go:25-45, management.go:743-763).                     *)
RepeatsOverlap ==
    /\ \A p \in Claimants : ClaimOf(p) # NoAccount => p \in early
    /\ \A p \in Claimants, a \in Accounts : accepted[<<p, a>>] <= 1

(* "one accepted send per account per metering day" (claim_once.go:29-30).   *)
(* The code does not keep this; see the README, section 7.                   *)
OneClaimPerDay ==
    \A p, q \in Claimants, a \in Accounts :
      p # q => accepted[<<p, a>>] + accepted[<<q, a>>] <= 1
=============================================================================
