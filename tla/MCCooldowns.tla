------------------------------ MODULE MCCooldowns ------------------------------
(* What throttles an account and a model: the gates of the workbuddy executor *)
(* (WorkbuddyGate) and zcode's cooldown table.  A behaviour exercises one     *)
(* plugin.  Workbuddy has one account, two models and two concurrent calls; a *)
(* declared window lasts up to two units, so that it may outlast or fall      *)
(* short of an earlier one, and the holds' table is full with both pairs      *)
(* held.  Zcode has two auths, so that eviction is reached with a third pair. *)
EXTENDS WorkbuddyGate, TLC

CONSTANTS ZcodeAuths, ZcodeRateLimitTTL, ZcodeMaxTime

ASSUME CooldownsAssumption == ZcodeRateLimitTTL \in Nat \ {0} /\ ZcodeMaxTime \in Nat

VARIABLES plugin, zclock, table, zcall

Zcode == INSTANCE ZcodeCooldown
  WITH Auths <- ZcodeAuths, RateLimitTTL <- ZcodeRateLimitTTL, MaxTime <- ZcodeMaxTime,
       clock <- zclock, call <- zcall

MCLadder == <<1, 2>>

Symmetry == Permutations(Callers) \cup Permutations(Models) \cup Permutations(ZcodeAuths)

zcodeVars == <<zclock, table, zcall>>

(* The plugin a behaviour does not exercise rests in one initial state.       *)
PluginsInit ==
  /\ plugin \in {"workbuddy", "zcode"}
  /\ Init /\ Zcode!Init
  /\ plugin = "zcode" => \A n \in Caps : cap <= n

PluginsNext ==
  \/ plugin = "workbuddy" /\ Next /\ UNCHANGED <<plugin, zcodeVars>>
  \/ plugin = "zcode" /\ Zcode!Next /\ UNCHANGED <<plugin, vars>>

PluginsSpec == PluginsInit /\ [][PluginsNext]_<<plugin, vars, zcodeVars>>

(* See ZcodeCooldown: the table never exceeds its bound, and a pair that is   *)
(* still cooling is lost to the panel or to a full table of live entries.     *)
BoundedTable == Zcode!BoundedTable
LiveEntriesKept == Zcode!LiveEntriesKept
================================================================================
