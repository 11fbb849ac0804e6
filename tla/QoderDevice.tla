------------------------------ MODULE QoderDevice ------------------------------
(***************************************************************************)
(* What a qoder account's billing calls present upstream (plugins/qoder:   *)
(* machine_identity.go, umid_provision.go, billing_cookie.go): the machine *)
(* identity of the official bridge, which the plugin downloads for itself  *)
(* once per region and runs, with the derived one when there is none; and  *)
(* the session cookies of the account, asked for once.                     *)
(***************************************************************************)
EXTENDS Naturals, FiniteSets, Sequences

CONSTANTS Calls,     \* concurrent billing calls
          Regions,
          Nobody,    \* nobody holds umidProvisionRunMu
          MaxFaults  \* bound of failures and of the host's restarts

VARIABLES installed, \* the operator's or the official client's bridge is there
          disk,      \* per region: the size of the downloaded bridge on disk, or 0
          path,      \* umidProvisionPath, in this process
          tried,     \* umidProvisionAt: never, or a failure or success within 6 h or before
          lock,      \* the holder of umidProvisionRunMu
          native,    \* machineIdentityCache: a native identity of the last 30 min
          jar,       \* the account's cookie jar: not asked for, asked, with cookies
          call,      \* where the calls are
          faults

vars == <<installed, disk, path, tried, lock, native, jar, call, faults>>
bridge == <<installed, disk, path, tried, lock>>

\* A component of the bundle: 0 is another platform's, others are sizes: below 400 KB,
\* 400 KB to the byte, between that and 2 MB, above.
Sizes == 0 .. 4
umidBlobSizeMin == 2
InRange(size) == size >= umidBlobSizeMin /\ size <= 3
Bundles == UNION {[1 .. n -> Sizes] : n \in 0 .. 2} \* bound

Idle == [at |-> "idle", region |-> "none", force |-> FALSE, source |-> "none", bundle |-> <<>>]

Init ==
  /\ installed \in [Regions -> BOOLEAN]
  /\ disk = [r \in Regions |-> 0] /\ path = [r \in Regions |-> FALSE]
  /\ tried = [r \in Regions |-> "never"]
  /\ lock = Nobody
  /\ native = [r \in Regions |-> FALSE]
  /\ jar = "unasked"
  /\ call = [c \in Calls |-> Idle]
  /\ faults = 0

At(c, place) == call[c].at = place
Becomes(c, t) == call' = [call EXCEPT ![c] = t]
Goes(c, place) == Becomes(c, [call[c] EXCEPT !.at = place])
Presents(c, source) == Becomes(c, [call[c] EXCEPT !.at = "cookies", !.source = source])
R(c) == call[c].region
Fault == faults < MaxFaults /\ faults' = faults + 1
NoFault == UNCHANGED faults

\* A call of the billing face; a check-in forces a new identity.
Begin(c, r, force) ==
  /\ At(c, "idle")
  /\ Becomes(c, [Idle EXCEPT !.at = "ask", !.region = r, !.force = force])
  /\ UNCHANGED <<bridge, native, jar, faults>>

\* machineIdentityFor: the cached native identity unless forced.
Ask(c) ==
  /\ At(c, "ask")
  /\ IF native[R(c)] /\ ~ call[c].force
     THEN Presents(c, "native")
     ELSE Goes(c, IF installed[R(c)] THEN "run" ELSE "look")
  /\ UNCHANGED <<bridge, native, jar, faults>>

\* provisionedRuntimeInfo: the path of this process, else the disk, where only a file
\* larger than umidBlobSizeMin is taken for a bridge, else the lock.
Accepted(size) == size > umidBlobSizeMin
Look(c) ==
  /\ At(c, "look")
  /\ IF path[R(c)] \/ Accepted(disk[R(c)])
     THEN path' = [path EXCEPT ![R(c)] = TRUE] /\ Goes(c, "rerun")
     ELSE Goes(c, "wait") /\ UNCHANGED path
  /\ UNCHANGED <<installed, disk, tried, lock, native, jar, faults>>
Locks(c) ==
  /\ At(c, "wait") /\ lock = Nobody
  /\ lock' = c /\ Goes(c, "locked")
  /\ UNCHANGED <<installed, disk, path, tried, native, jar, faults>>

DownloadsAnyway(c) ==
  /\ At(c, "locked")
  /\ Goes(c, "download")
  /\ UNCHANGED <<bridge, native, jar, faults>>
\* Under the lock the disk again, not the path: another call may have downloaded it,
\* or tried less than six hours ago.
Recheck(c) ==
  /\ At(c, "locked")
  /\ IF Accepted(disk[R(c)])
     THEN path' = [path EXCEPT ![R(c)] = TRUE] /\ lock' = Nobody /\ Goes(c, "rerun")
     ELSE /\ UNCHANGED path
          /\ IF tried[R(c)] = "recent"
             THEN lock' = Nobody /\ Presents(c, "derived")
             ELSE UNCHANGED lock /\ Goes(c, "download")
  /\ UNCHANGED <<installed, disk, tried, native, jar, faults>>

\* selectUmidBlob: the platform's, in range before out of range, then smallest.
Better(b, best) ==
  /\ b # 0
  /\ best = 0 \/ (InRange(b) /\ ~ InRange(best)) \/ ((InRange(b) <=> InRange(best)) /\ b < best)
Select(bundle) ==
  LET best[i \in 0 .. Len(bundle)] ==
        IF i = 0 THEN 0
        ELSE IF Better(bundle[i], best[i - 1]) THEN bundle[i] ELSE best[i - 1]
  IN best[Len(bundle)]

\* provisionUmidBridge: registry, tarball, integrity, bundle; then the component
\* is chosen and installed, of whatever size it is.
Download(c) ==
  /\ At(c, "download")
  /\ \E b \in Bundles : /\ IF Select(b) = 0 THEN Fault ELSE NoFault
                        /\ Becomes(c, [call[c] EXCEPT !.at = "install", !.bundle = b])
  /\ UNCHANGED <<bridge, native, jar>>
Ends(c, ok) ==
  /\ tried' = [tried EXCEPT ![R(c)] = "recent"]
  /\ lock' = Nobody
  /\ path' = IF ok THEN [path EXCEPT ![R(c)] = TRUE] ELSE path
  /\ Becomes(c, [call[c] EXCEPT !.bundle = <<>>, !.at = IF ok THEN "rerun" ELSE "cookies",
                                !.source = IF ok THEN "none" ELSE "derived"])
Install(c) ==
  /\ At(c, "install")
  /\ LET chosen == Select(call[c].bundle) IN
     IF chosen = 0 THEN Ends(c, FALSE) /\ UNCHANGED disk
     ELSE Ends(c, TRUE) /\ disk' = [disk EXCEPT ![R(c)] = chosen]
  /\ UNCHANGED <<installed, native, jar, faults>>
DownloadFails(c) ==
  /\ At(c, "download") /\ Fault
  /\ Ends(c, FALSE)
  /\ UNCHANGED <<installed, disk, native, jar>>

\* nativeMachineIdentityFrom: the bridge answers, or the next source is tried.
Run(c) ==
  /\ At(c, "run") \/ At(c, "rerun")
  /\ \/ /\ NoFault
        /\ native' = [native EXCEPT ![R(c)] = TRUE]
        /\ Presents(c, "native")
     \/ /\ Fault
        /\ IF At(c, "run") THEN Goes(c, "look") ELSE Presents(c, "derived")
        /\ UNCHANGED native
  /\ UNCHANGED <<bridge, jar>>

\* bootstrapBillingSession: asked for by the first call only, whatever comes of
\* it; then the call itself, whose answer may set cookies too.
Bootstrap(c) ==
  /\ At(c, "cookies")
  /\ IF jar = "unasked" THEN jar' = "asked" /\ Goes(c, "handshake")
     ELSE Goes(c, "send") /\ UNCHANGED jar
  /\ UNCHANGED <<bridge, native, faults>>
Handshake(c) ==
  /\ At(c, "handshake")
  /\ \/ NoFault /\ jar' = "cookies"
     \/ Fault /\ UNCHANGED jar
  /\ Goes(c, "send")
  /\ UNCHANGED <<bridge, native>>
Send(c) ==
  /\ At(c, "send")
  /\ jar' \in {jar, "cookies"}
  /\ Becomes(c, Idle)
  /\ UNCHANGED <<bridge, native, faults>>

\* Six hours, or the identity's thirty minutes, pass.
CooldownPasses(r) ==
  /\ tried[r] = "recent"
  /\ tried' = [tried EXCEPT ![r] = "past"]
  /\ UNCHANGED <<installed, disk, path, lock, native, jar, call, faults>>
IdentityAges(r) ==
  /\ native[r]
  /\ native' = [native EXCEPT ![r] = FALSE]
  /\ UNCHANGED <<bridge, jar, call, faults>>
\* The host restarts: only the disk stays.
Restart ==
  /\ Fault
  /\ path' = [r \in Regions |-> FALSE] /\ tried' = [r \in Regions |-> "never"]
  /\ lock' = Nobody /\ native' = [r \in Regions |-> FALSE] /\ jar' = "unasked"
  /\ call' = [c \in Calls |-> Idle]
  /\ UNCHANGED <<installed, disk>>

Works(c) == Ask(c) \/ Look(c) \/ Locks(c) \/ Recheck(c) \/ Download(c) \/ Install(c) \/ DownloadFails(c)
            \/ Run(c) \/ Bootstrap(c) \/ Handshake(c) \/ Send(c)
Next == \/ \E c \in Calls : Works(c) \/ \E r \in Regions, f \in BOOLEAN : Begin(c, r, f)
        \/ \E r \in Regions : CooldownPasses(r) \/ IdentityAges(r)
        \/ Restart

Spec == Init /\ [][Next]_vars

-----------------------------------------------------------------------------
\* The variables have their types.
TypeOK ==
  /\ installed \in [Regions -> BOOLEAN] /\ disk \in [Regions -> Sizes]
  /\ path \in [Regions -> BOOLEAN] /\ tried \in [Regions -> {"never", "recent", "past"}]
  /\ lock \in Calls \cup {Nobody} /\ native \in [Regions -> BOOLEAN]
  /\ jar \in {"unasked", "asked", "cookies"} /\ faults \in 0 .. MaxFaults
  /\ \A c \in Calls : call[c].source \in {"none", "native", "derived"}

\* However many calls wait while one downloads, and whatever is installed, none
\* downloads again a bridge on disk that the plugin accepts, and none tries again
\* within the cooldown of an attempt: where the installed component is not above
\* 400 KB, that is all that holds back the next download (umid_provision.go:198-220).
NoStampede ==
  \A c \in Calls : At(c, "download") => ~ Accepted(disk[R(c)]) /\ tried[R(c)] # "recent"

\* "Magic first, then the 400KB..2MB heuristic, smallest wins": the component
\* about to be installed is in range if any of the platform is, and no other of
\* its class is smaller.
RightComponent ==
  \A c \in Calls : At(c, "install") =>
    LET b == call[c].bundle
        fit == {b[i] : i \in DOMAIN b} \ {0}
        class == IF \E x \in fit : InRange(x) THEN {x \in fit : InRange(x)} ELSE fit
    IN IF fit = {} THEN Select(b) = 0 ELSE Select(b) \in class /\ \A x \in class : Select(b) <= x

=============================================================================
