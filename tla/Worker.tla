------------------------------- MODULE Worker -------------------------------
(***************************************************************************)
(* The life cycle of one inference worker                                  *)
(* (src/arctic_inference/server/worker.py): which engine state a sleep or  *)
(* a wake-up leaves behind, and which are refused.  The pool serialises    *)
(* these calls, so each is an operator from the state at entry to the      *)
(* state at exit; Refused stands for the RuntimeError.                     *)
(***************************************************************************)

EngineStates == {"uninitialized", "ready", "sleeping", "weights_ready"}

\* What wake_up() is asked to restore: tags=None or both, or one of them.
WakeTags == {"all", "weights", "kv_cache"}

Refused == "refused"

SleepTarget(s) ==
  IF s \in {"ready", "weights_ready"} THEN "sleeping" ELSE Refused

WakeTarget(s, tags) ==
  CASE s = "ready"                                 -> "ready"
    [] s = "weights_ready" /\ tags = "weights"     -> "weights_ready"
    [] s = "weights_ready" /\ tags # "weights"     -> "ready"
    [] s = "sleeping" /\ tags = "all"              -> "ready"
    [] s = "sleeping" /\ tags = "weights"          -> "weights_ready"
    [] s = "sleeping" /\ tags = "kv_cache"         -> Refused
    [] s = "uninitialized"                         -> Refused

\* reset_prefix_cache() leaves the state alone.
ResetTarget(s) == IF s = "uninitialized" THEN Refused ELSE s

=============================================================================
