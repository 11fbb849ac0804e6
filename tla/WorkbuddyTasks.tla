---------------------------- MODULE WorkbuddyTasks ----------------------------
(***************************************************************************)
(* The daily loop over one CN account's growth center (plugins/workbuddy:  *)
(* taskcenter.go, task_auto.go, task_chat.go, growth.go, school.go) and    *)
(* its three callers: the scheduled tick, the panel, the nightly top-up.   *)
(* A call answers, fails, or finds the session dead; only some steps look  *)
(* for the last. Codes stand for their kind: "lit" a task whose progress   *)
(* an event scores, "night" the one real chats score.                      *)
(***************************************************************************)
EXTENDS Naturals, FiniteSets

CONSTANTS NightTarget, \* bound: the chats "night" asks for
          MaxOpen,     \* boxes a call may open
          MaxFaults    \* bound of failed calls, late scores and dead sessions

VARIABLES up,     \* the growth center's record of the account
          run,    \* the callers' runs
          lock,   \* the account's check-in lock
          night,  \* the window in which "night" scores
          over,   \* real chats spent on a "night" that had reached its target
          faults

vars == <<up, run, lock, night, over, faults>>

Runs == {"sched", "panel", "night"}
Codes == {"lit", "night"}
Off == [at |-> "off", todo |-> {}, left |-> 0, clean |-> TRUE, alone |-> TRUE]

Init ==
  /\ up \in [alive : {TRUE}, active : {FALSE}, buddy : BOOLEAN, cards : {0, 1}, missed : BOOLEAN,
             gift : BOOLEAN, task : [Codes -> {"open", "accepted", "completed"}],
             chats : {0}, trip : {"idle", "arrived"}, tier : {"locked", "ready"},
             chances : {0}, energy : {0, 2}, term : BOOLEAN, homework : {"completed"},
             draws : {0}]
  /\ up.task["night"] # "completed" /\ (up.buddy \/ up.task = [c \in Codes |-> "open"])
  \* bound: what no step relates comes and goes together
  /\ (up.cards = 1) = up.missed /\ up.gift = up.missed /\ up.missed = (up.energy = 0)
  /\ (up.trip = "arrived") = (up.tier = "ready") /\ up.term = (up.tier = "ready")
  /\ run = [r \in Runs |-> Off]
  /\ lock = FALSE /\ night = FALSE /\ over = 0 /\ faults = 0

At(r, place) == run[r].at = place
Busy(r) == run[r].at \notin {"off", "done"}

-----------------------------------------------------------------------------
(* What a call that is answered does upstream.                              *)

Less(a, b) == IF a < b THEN a ELSE b
ReportActivity(u) == [u EXCEPT !.active = TRUE]
AdoptBuddy(u) == IF u.active THEN [u EXCEPT !.buddy = TRUE] ELSE u
UseMakeupCard(u) == IF u.missed /\ u.cards > 0 THEN [u EXCEPT !.missed = FALSE, !.cards = @ - 1] ELSE u
ClaimGift(u) == [u EXCEPT !.gift = FALSE]

\* Only what is open needs enrolling, and nothing enrols before first_buddy.
AcceptTasks(u) ==
  [u EXCEPT !.task = [c \in Codes |->
     IF @[c] = "open" /\ u.buddy THEN "accepted" ELSE @[c]]]
\* Events and chats count for an enrolled task only.
Score(u, c) == IF u.task[c] = "accepted" THEN [u EXCEPT !.task[c] = "completed"] ELSE u
ScoreChat(u) ==
  IF u.task["night"] # "accepted" THEN u
  ELSE [u EXCEPT !.chats = Less(NightTarget, @ + 1),
                 !.task["night"] = IF u.chats + 1 >= NightTarget THEN "completed" ELSE @]
Claimable(u) == {c \in Codes : u.task[c] = "completed"}
ClaimReward(u, c) ==
  IF c \in Claimable(u) THEN [u EXCEPT !.task[c] = "claimed", !.chances = @ + 1] ELSE u
Travel(u) ==
  CASE u.trip = "arrived" -> [u EXCEPT !.trip = "idle"]
    [] u.trip = "idle" -> [u EXCEPT !.trip = "traveling"]
    [] OTHER -> u
Streak(u) == IF u.tier = "ready" THEN [u EXCEPT !.tier = "claimed", !.energy = @ + 1, !.chances = @ + 1] ELSE u
Draw(u) == [u EXCEPT !.chances = @ - 1]
OpenBoxes(u) == [u EXCEPT !.energy = @ - Less(@, MaxOpen)]

SchoolShare(u) == [u EXCEPT !.draws = @ + 1]
SchoolClaims(u) == IF u.homework = "completed" THEN [u EXCEPT !.homework = "claimed", !.draws = @ + 1] ELSE u
SchoolDraws(u) == [u EXCEPT !.draws = 0]

-----------------------------------------------------------------------------
(* The runs.                                                                *)

\* The steps of tasksDailyBonus in their order: adoption before the accept it
\* makes possible, claims before the lottery whose chances they grant.
ThenAsBefore == [report |-> "makeup", makeup |-> "gifts", gifts |-> "accept", accept |-> "buddy",
  buddy |-> "light", light |-> "travel", travel |-> "redeem", redeem |-> "claims", claims |-> "lottery",
  lottery |-> "box", box |-> "share", share |-> "school", school |-> "drain", drain |-> "done"]
Then == [report |-> "buddy", buddy |-> "makeup", makeup |-> "gifts", gifts |-> "accept", accept |-> "light",
  light |-> "travel", travel |-> "redeem", redeem |-> "claims", claims |-> "lottery", lottery |-> "box",
  box |-> "share", share |-> "school", school |-> "drain", drain |-> "done"]

\* The steps that give up the run when the session is dead.
Aborts == {"report", "makeup", "accept", "redeem", "claims", "lottery", "box"}

Becomes(r, t) == run' = [run EXCEPT ![r] = t]
Goes(r, place) == Becomes(r, [run[r] EXCEPT !.at = place, !.todo = {}, !.left = 0])
Spoils(r, place) == Becomes(r, [run[r] EXCEPT !.at = place, !.todo = {}, !.left = 0, !.clean = FALSE])

\* A call of step r.at: it answers with effect v, it fails, or the session is
\* dead and the step looks at that or not.
Calls(r, v) ==
  \/ up.alive /\ up' = v /\ Goes(r, Then[run[r].at]) /\ UNCHANGED faults
  \/ up.alive /\ faults < MaxFaults /\ faults' = faults + 1 /\ UNCHANGED up /\ Spoils(r, Then[run[r].at])
  \/ /\ ~ up.alive /\ UNCHANGED <<up, faults>>
     /\ Spoils(r, IF run[r].at \in Aborts THEN "done" ELSE Then[run[r].at])

Begins(r) ==
  /\ run' = [s \in Runs |->
       IF s = r THEN [Off EXCEPT !.at = IF r = "night" THEN "deficit" ELSE "report",
                                 !.alone = \A q \in Runs : ~ Busy(q)]
       ELSE [run[s] EXCEPT !.alone = @ /\ ~ Busy(s)]]
  /\ UNCHANGED <<up, night, over, faults>>

\* The scheduled tick takes no lock; the panel and the nightly top-up do.
Schedule == At("sched", "off") /\ ~ Busy("night") /\ Begins("sched") /\ UNCHANGED lock
TasksRun == At("panel", "off") /\ ~ lock /\ lock' = TRUE /\ Begins("panel")
NightTickFree == At("night", "off") /\ ~ Busy("sched") /\ Begins("night") /\ UNCHANGED lock
NightTick == At("night", "off") /\ ~ Busy("sched") /\ ~ lock /\ lock' = TRUE /\ Begins("night")

Unlocks(r) == lock' = (lock /\ (r = "sched" \/ run'[r].at # "done"))

\* Steps that are one call, or several of which the first failure ends the step.
Alone(r) == Unlocks(r) /\ UNCHANGED <<night, over>>
Report(r) == At(r, "report") /\ Calls(r, ReportActivity(up)) /\ Alone(r)
EnsureBuddy(r) == At(r, "buddy") /\ Calls(r, AdoptBuddy(up)) /\ Alone(r)
Makeup(r) == At(r, "makeup") /\ Calls(r, UseMakeupCard(up)) /\ Alone(r)
Gifts(r) == At(r, "gifts") /\ Calls(r, ClaimGift(up)) /\ Alone(r)
Accept(r) == At(r, "accept") /\ Calls(r, AcceptTasks(up)) /\ Alone(r)
TravelOnce(r) == At(r, "travel") /\ Calls(r, IF up.buddy THEN Travel(up) ELSE up) /\ Alone(r)
Redeem(r) == At(r, "redeem") /\ Calls(r, Streak(up)) /\ Alone(r)
Box(r) == At(r, "box") /\ Calls(r, OpenBoxes(up)) /\ Alone(r)
Simple(r) == \/ Report(r) \/ EnsureBuddy(r) \/ Makeup(r) \/ Gifts(r) \/ Accept(r)
             \/ TravelOnce(r) \/ Redeem(r) \/ Box(r)

\* tasksAutoLightOnce: what is not done is lit and, once scored, claimed; what
\* scores late waits for the next run. "night" is chatted for in its window.
Light(r) ==
  /\ At(r, "light")
  /\ LET lit == Score(up, "lit") IN
     IF up.alive /\ night /\ up.task["night"] \in {"open", "accepted"}
     THEN /\ up' = ClaimReward(lit, "lit")
          /\ Goes(r, "deficit")
          /\ UNCHANGED faults
     ELSE Calls(r, ClaimReward(lit, "lit"))
  /\ Alone(r)

\* runAutoBlackCat: the deficit is read once, then chatted for one by one.
Deficit(r) ==
  /\ At(r, "deficit")
  /\ LET over_ == IF r = "night" THEN "done" ELSE Then["light"] IN
     IF up.alive /\ night /\ up.task["night"] \in {"open", "accepted"}
     THEN Becomes(r, [run[r] EXCEPT !.at = "chat", !.left = NightTarget - up.chats])
     ELSE Goes(r, over_)
  /\ Unlocks(r) /\ UNCHANGED <<up, night, over, faults>>

Chat(r) ==
  /\ At(r, "chat")
  /\ LET over_ == IF r = "night" THEN "done" ELSE Then["light"] IN
     IF ~ up.alive THEN Spoils(r, over_) /\ UNCHANGED <<up, over>>
     ELSE /\ up' = ScoreChat(up)
          /\ over' = IF up.task["night"] \in {"completed", "claimed"} THEN over + 1 ELSE over
          /\ IF run[r].left > 1 THEN Becomes(r, [run[r] EXCEPT !.left = @ - 1]) ELSE Goes(r, over_)
  /\ Unlocks(r) /\ UNCHANGED <<night, faults>>

\* Every reward that could be claimed when the list was read, one by one.
Claims(r) ==
  /\ At(r, "claims")
  /\ IF run[r].todo = {}
     THEN IF up.alive /\ Claimable(up) # {}
          THEN Becomes(r, [run[r] EXCEPT !.todo = Claimable(up)]) /\ UNCHANGED <<up, faults>>
          ELSE Calls(r, up)
     ELSE \E c \in run[r].todo :
          IF run[r].todo = {c} THEN Calls(r, ClaimReward(up, c))
          ELSE /\ up.alive /\ up' = ClaimReward(up, c) /\ UNCHANGED faults
               /\ Becomes(r, [run[r] EXCEPT !.todo = @ \ {c}])
  /\ Alone(r)

\* The chances are counted once; a draw that fails ends the lottery.
Lottery(r) ==
  /\ At(r, "lottery")
  /\ IF run[r].left = 0
     THEN IF up.alive /\ up.chances > 0
          THEN Becomes(r, [run[r] EXCEPT !.left = up.chances]) /\ UNCHANGED <<up, faults>>
          ELSE Calls(r, up)
     ELSE IF up.chances = 0 \/ run[r].left = 1
          THEN Calls(r, IF up.chances = 0 THEN up ELSE Draw(up))
          ELSE /\ up.alive /\ up' = Draw(up) /\ UNCHANGED faults
               /\ Becomes(r, [run[r] EXCEPT !.left = @ - 1])
  /\ Alone(r)

\* tasksSchoolOnce: nothing outside the activity's term.
School(r) ==
  /\ \/ At(r, "share") /\ ~ up.term /\ Goes(r, "done") /\ UNCHANGED <<up, faults>>
     \/ At(r, "share") /\ up.term /\ Calls(r, SchoolShare(up))
     \/ At(r, "school") /\ Calls(r, SchoolClaims(up))
     \/ At(r, "drain") /\ Calls(r, SchoolDraws(up))
  /\ Alone(r)

\* 23:00 comes; the session is revoked.
Nightfall == ~ night /\ night' = TRUE /\ UNCHANGED <<up, run, lock, over, faults>>
Revoked == /\ up.alive /\ faults < MaxFaults /\ faults' = faults + 1
           /\ up' = [up EXCEPT !.alive = FALSE] /\ UNCHANGED <<run, lock, night, over>>

Steps(r) == Simple(r) \/ Light(r) \/ Deficit(r) \/ Chat(r) \/ Claims(r) \/ Lottery(r) \/ School(r)
Next == Schedule \/ TasksRun \/ NightTick \/ Nightfall \/ Revoked \/ \E r \in Runs : Steps(r)
Spec == Init /\ [][Next]_vars

-----------------------------------------------------------------------------
\* The variables have their types.
TypeOK ==
  /\ up.task \in [Codes -> {"open", "accepted", "completed", "claimed"}]
  /\ up.chances \in 0 .. 3 /\ up.energy \in 0 .. 3 /\ up.draws \in 0 .. 3 /\ up.chats \in 0 .. NightTarget
  /\ \A r \in Runs : run[r].todo \subseteq Codes /\ run[r].left \in Nat
  /\ lock \in BOOLEAN /\ night \in BOOLEAN /\ over \in Nat /\ faults \in 0 .. MaxFaults

\* "report + adopt in the same run lifts the gate so the accept below can enroll
\* on the FIRST run", "claim first so they are spendable this run"
\* (taskcenter.go:131-166): a run that no failure and no other run disturbed
\* leaves nothing to enrol, to claim or to draw.
RunSettles ==
  \A r \in {"sched", "panel"} :
    At(r, "done") /\ run[r].clean /\ run[r].alone /\ (\A s \in Runs : s # r => At(s, "off"))
    => /\ \A c \in Codes : up.task[c] # "open"
       /\ Claimable(up) = {} /\ up.chances = 0 /\ up.draws = 0

\* The check-in lock keeps the panel's loop and the nightly top-up apart
\* (task_chat.go:466-468): no chat is paid for once the target is reached,
\* unless the scheduled tick, which takes no lock, ran meanwhile.
NoChatWasted == over > 0 => ~ run["sched"].alone
=============================================================================
