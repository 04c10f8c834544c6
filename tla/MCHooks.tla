------------------------------ MODULE MCHooks ------------------------------
(***************************************************************************)
(* Small instances of what runs beside the editor: the hook daemon with    *)
(* the shims that call it, and the consolidator of recorded tool calls.    *)
(* A behaviour is a behaviour of one of them, the one in focus; the other  *)
(* stays in its initial state.                                             *)
(***************************************************************************)
EXTENDS HookDaemon, Instinct

CONSTANTS s1, s2

VARIABLE focus

\* Four events of two projects.
MCProjectOf == [e1 |-> "default", e2 |-> "other", e3 |-> "default", e4 |-> "other"]

HooksInit == focus \in {"daemon", "instinct"} /\ HookInit /\ InstinctInit

HooksNext ==
    \/ focus = "daemon" /\ HookNext /\ UNCHANGED <<focus, instinctVars>>
    \/ focus = "instinct" /\ InstinctNext /\ UNCHANGED <<focus, hookVars>>

HooksSpec == HooksInit /\ [][HooksNext]_<<focus, hookVars, instinctVars>>

-----------------------------------------------------------------------------

\* WindsDown of the daemon, under HookFairness.
DaemonWindsDown == (focus = "daemon" /\ HookFairness) => WindsDown
=============================================================================
