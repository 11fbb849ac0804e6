------------------------------ MODULE ZcodePlane ------------------------------
(***************************************************************************)
(* The two planes a zcode chat may ride and the signing of its requests    *)
(* (plugins/zcode: main.go, executor.go, plane.go, signing.go, stream.go,  *)
(* quota.go).  One model of one coding-plan credential: the call goes to   *)
(* the coding plane, whose gate may ask for signatures, or to the JWT      *)
(* plane, which may challenge it; a memo remembers what the JWT plane      *)
(* serves.  A retry is one more send of the same call.                     *)
(***************************************************************************)
EXTENDS Naturals

CONSTANTS Calls,     \* concurrent calls
          MaxEvents  \* bound of faults and of what happens outside

VARIABLES home,    \* upstream: the plane that holds the model's package
          asks,    \* upstream: the JWT plane challenges calls without a parameter
          strict,  \* upstream: the coding plane wants signatures
          keys,    \* upstream: the handshake answers
          jwt,     \* the credential carries a plan JWT
          memo,    \* startPlaneModels' entry: the model is in it, within its TTL
          gate,    \* signerState: what the last probe said, while it counts
          bypass,  \* signerState.bypass
          params,  \* captcha parameters in the pool
          call,    \* the calls
          events

upstream == <<home, asks, strict, keys, jwt>>
signer == <<gate, bypass>>
vars == <<upstream, memo, signer, params, call, events>>

\* route, which send of the route this is and how many rungs of the signing
\* ladder it took; signed: every rung was; tried: "fallback" or "captcha".
Idle == [at |-> "idle", stream |-> FALSE, route |-> "coding", rung |-> 0, signed |-> TRUE,
         tried |-> "none", answer |-> "none", recorded |-> FALSE]

Init ==
  /\ home \in {"coding", "jwt"} /\ asks \in BOOLEAN /\ strict \in BOOLEAN
  /\ keys = TRUE /\ jwt \in BOOLEAN
  /\ memo = FALSE /\ gate = "unknown" /\ bypass = FALSE
  /\ params \in {0, 1}
  /\ call = [c \in Calls |-> Idle]
  /\ events = 0

At(c, place) == call[c].at = place
Becomes(c, t) == call' = [call EXCEPT ![c] = t]
Fault == events < MaxEvents /\ events' = events + 1
NoFault == UNCHANGED events

\* modelRidesStartPlane: only with a JWT, only while the memo lives.
Rides == jwt /\ memo

\* routeFor.
Begin(c, streams) ==
  /\ At(c, "idle") \/ At(c, "done")
  /\ Becomes(c, [Idle EXCEPT !.at = "send", !.stream = streams,
                             !.route = IF Rides THEN "jwt" ELSE "coding"])
  /\ UNCHANGED <<upstream, memo, signer, params, events>>

-----------------------------------------------------------------------------
(* One send, with the ladder of signatures.                                 *)

\* gateEnabled: the probe's verdict counts for its TTL, an unavailable one
\* (it may always be) for half a minute.
Probed(g) == IF gate # "unknown" THEN g = gate ELSE g \in {IF strict THEN "on" ELSE "off", "down"}

\* signRequest: fails open.
Signs(g) == g = "on" /\ keys /\ ~ bypass

\* What the plane answers to a request that passed its signature check: the
\* retry after a challenge carries a parameter.
Answer(c) ==
  IF call[c].route = "coding" THEN IF home = "coding" THEN "ok" ELSE "nopackage"
  ELSE IF asks /\ call[c].tried # "captcha" THEN "challenge"
  ELSE IF home = "jwt" THEN "ok" ELSE "refused"

\* sendChatWithSigning.  A rejected signature is tried again with a new
\* handshake; the second rejection of a call turns signing off for good, and the
\* third send goes out as it is.
Send(c) ==
  /\ At(c, "send")
  /\ \E g \in {"on", "off", "down"} :
       LET r == call[c].rung
           s == call[c].route = "coding" /\ Signs(g)
           rejected == call[c].route = "coding" /\ strict /\ ~ s
           onwards == [call[c] EXCEPT !.rung = r + 1, !.signed = @ /\ s]
           ends(a) == [onwards EXCEPT !.at = "answered", !.answer = a]
       IN /\ IF call[c].route = "jwt" \/ bypass THEN g = "off" /\ UNCHANGED gate
             ELSE Probed(g) /\ gate' = g
          /\ \/ /\ Fault /\ Becomes(c, ends("lost")) /\ UNCHANGED bypass
             \/ /\ r < 2
                /\ \/ rejected /\ NoFault
                   \/ call[c].route = "coding" /\ strict /\ s /\ Fault
                /\ Becomes(c, onwards)
                /\ bypass' = (bypass \/ r = 1)
             \/ /\ NoFault /\ ~ (rejected /\ r < 2)
                /\ Becomes(c, ends(IF rejected THEN "unsigned" ELSE Answer(c)))
                /\ UNCHANGED bypass
  /\ UNCHANGED <<upstream, memo, params>>

-----------------------------------------------------------------------------
(* The answer.                                                              *)

Ends(c, answer, recorded) ==
  Becomes(c, [call[c] EXCEPT !.at = "done", !.answer = answer, !.recorded = @ \/ recorded])
Again(c, how) ==
  Becomes(c, [call[c] EXCEPT !.at = "send", !.route = "jwt", !.rung = 0, !.tried = how])

\* startPlaneFallbackBody: a coding plane without a package, once, with a JWT.
FallsBack(c) == call[c].route = "coding" /\ call[c].answer = "nopackage" /\ jwt
FallbackRecorded(c) ==
  /\ At(c, "answered") /\ FallsBack(c)
  /\ Becomes(c, [call[c] EXCEPT !.at = "send", !.route = "jwt", !.rung = 0,
                                !.tried = "fallback", !.recorded = TRUE])
  /\ UNCHANGED <<upstream, memo, signer, params, events>>
Fallback(c) ==
  /\ At(c, "answered") /\ FallsBack(c) /\ Again(c, "fallback")
  /\ UNCHANGED <<upstream, memo, signer, params, events>>

\* captchaRetryRoute: a first send on the JWT plane that was challenged, with a
\* parameter of the pool.
Challenged(c) == call[c].tried = "none" /\ call[c].answer = "challenge"
CaptchaRetry(c) ==
  /\ At(c, "answered") /\ Challenged(c) /\ params > 0
  /\ params' = params - 1
  /\ Again(c, "captcha")
  /\ UNCHANGED <<upstream, memo, signer, events>>

\* The accepted answer is read; a swapped call is noted first, except a whole
\* answer after a captcha.  What was accepted may still be no completion.
Noted(c) == call[c].tried = "fallback" \/ (call[c].stream /\ call[c].tried = "captcha")
Accepted(c) ==
  /\ At(c, "answered") /\ call[c].answer = "ok"
  /\ memo' = (memo \/ Noted(c))
  /\ \/ NoFault /\ Ends(c, "ok", FALSE)
     \/ Fault /\ Ends(c, "broken", TRUE)
  /\ UNCHANGED <<upstream, signer, params>>

\* The last failure is recorded against the model, a send that never arrived is
\* not; a fallback that was lost leaves the refusal before it.
Refused(c) ==
  /\ At(c, "answered") /\ call[c].answer # "ok"
  /\ ~ FallsBack(c) /\ ~ (Challenged(c) /\ params > 0)
  /\ Ends(c, IF call[c].answer = "lost" /\ call[c].tried # "none" THEN "refused" ELSE call[c].answer,
          call[c].answer # "lost" \/ call[c].tried # "none")
  /\ UNCHANGED <<upstream, memo, signer, params, events>>

-----------------------------------------------------------------------------
(* What else writes the memo and the signer's state.                        *)

\* harvestStartPlaneCapabilities: the live buckets' models replace the entry;
\* buckets without models leave it.
Harvest ==
  /\ Fault /\ jwt
  /\ memo' = (home = "jwt")
  /\ UNCHANGED <<upstream, signer, params, call>>

\* startPlaneTTL, signGateTTL and the cooldown of an unavailable gate.
Forgets ==
  /\ memo /\ memo' = FALSE
  /\ UNCHANGED <<upstream, signer, params, call, events>>
GateExpires ==
  /\ gate # "unknown" /\ gate' = "unknown"
  /\ UNCHANGED <<upstream, memo, bypass, params, call, events>>

\* The package moves (a grant, a spent bucket), the gateways change their minds,
\* a new login brings a JWT, the panel mints.
Outside ==
  /\ Fault
  /\ \/ home' \in {"coding", "jwt"} \ {home} /\ UNCHANGED <<asks, strict, keys, jwt, params>>
     \/ asks' = ~ asks /\ UNCHANGED <<home, strict, keys, jwt, params>>
     \/ strict' = ~ strict /\ UNCHANGED <<home, asks, keys, jwt, params>>
     \/ keys' = ~ keys /\ UNCHANGED <<home, asks, strict, jwt, params>>
     \/ ~ jwt /\ jwt' = TRUE /\ UNCHANGED <<home, asks, strict, keys, params>>
     \/ params = 0 /\ params' = 1 /\ UNCHANGED <<home, asks, strict, keys, jwt>>
  /\ UNCHANGED <<memo, signer, call>>

Works(c) == Send(c) \/ Fallback(c) \/ CaptchaRetry(c) \/ Accepted(c) \/ Refused(c)
Next ==
  \/ \E c \in Calls : Works(c) \/ \E s \in BOOLEAN : Begin(c, s)
  \/ Harvest \/ Forgets \/ GateExpires \/ Outside

Spec == Init /\ [][Next]_vars

-----------------------------------------------------------------------------
\* The variables have their types; a call never climbs beyond its third rung.
TypeOK ==
  /\ home \in {"coding", "jwt"} /\ {asks, strict, keys, jwt, memo, bypass} \subseteq BOOLEAN
  /\ gate \in {"unknown", "on", "off", "down"} /\ params \in 0 .. 1
  /\ \A c \in Calls : call[c].rung \in 0 .. 3
  /\ events \in 0 .. MaxEvents

\* "A recovered request never cools the credential for the intermediate 1113"
\* (main.go:702-704): a call that ends in an answer leaves no failure on record,
\* whatever the sends before were told; one that the upstream refused does.
RecoveredNotCooled ==
  \A c \in Calls : At(c, "done") => (call[c].recorded <=> call[c].answer \notin {"ok", "lost"})

\* A package is found wherever it is: once it stays on a plane that answers (the
\* signer has not given up, no challenge), calls are answered again and again,
\* whatever the memo said before.
PackageIsFound ==
  <>[](jwt /\ ~ bypass /\ ~ asks /\ keys /\ gate # "down" /\ (strict => gate # "off"))
    => []<>(\E c \in Calls : At(c, "done") /\ call[c].answer = "ok")

\* "Two consecutive 401 VERIFY_* rejections" of signed sends turn signing off
\* (signing.go:26-28, 440).
\* The code does not keep this; see the README, section 7.
BypassEarned == [][\A c \in Calls : bypass' /\ ~ bypass /\ call'[c] # call[c] => call'[c].signed]_vars
=============================================================================
