---------------------------- MODULE StreamedCall ----------------------------
(***************************************************************************)
(* What the host may rely on for one streamed call, whichever plugin       *)
(* serves it: the call is opened or refused once; a refused call has shown *)
(* nothing, so the host may send it to another credential; a failure is    *)
(* told in the stream at most once and ends it; a call counted as a        *)
(* success never tells a failure, is never refused and shows nothing more. *)
(***************************************************************************)
EXTENDS Naturals

VARIABLES verdict,  \* none, open or refused: what the host was told of the call
          shown,    \* frames the host took
          told,     \* a failure was told in the stream
          credited  \* the call counts as a success

vars == <<verdict, shown, told, credited>>

Init == verdict = "none" /\ shown = 0 /\ ~ told /\ ~ credited

Refuse ==
  /\ verdict = "none" /\ shown = 0 /\ ~ told /\ ~ credited
  /\ verdict' = "refused"
  /\ UNCHANGED <<shown, told, credited>>

Open ==
  /\ verdict = "none"
  /\ verdict' = "open"
  /\ UNCHANGED <<shown, told, credited>>

\* Frames are shown, and the call may end with them.
Proceed ==
  /\ verdict # "refused" /\ ~ told /\ ~ credited
  /\ verdict' \in {verdict, "open"}
  /\ shown' \in Nat /\ shown' >= shown
  /\ told' \in BOOLEAN /\ credited' \in BOOLEAN
  /\ ~ (told' /\ credited')

Next == Refuse \/ Open \/ Proceed

Spec == Init /\ [][Next]_vars
=============================================================================
