------------------------- MODULE MCWorkbuddySession -------------------------
(* WorkbuddySession with a chat call, a credits fetch and a third goroutine *)
(* that refreshes beside the renewal plane.                                 *)
EXTENDS WorkbuddySession, TLC

CONSTANTS caller, fetcher, refresher

MCRolesOf ==
  (caller :> {"call"}) @@ (fetcher :> {"fetch"}) @@ (refresher :> {"keepalive", "host"})
=============================================================================
