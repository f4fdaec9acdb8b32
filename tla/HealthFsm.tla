------------------------------ MODULE HealthFsm ------------------------------
(***************************************************************************)
(* The health state machine of safety-supervisord: pure logic, shared by   *)
(* the live event loop and by the offline modes.  A (state, event) pair    *)
(* that the table does not list is ignored.                                *)
(***************************************************************************)

HealthState == {"BOOTING", "HEALTHY", "DEGRADED", "RECOVERING", "FAILED",
                "SAFE_MODE"}

HealthEvent == {"HEARTBEAT_OK", "HEARTBEAT_TIMEOUT", "RECOVERY_SENT",
                "HEARTBEAT_RESTORED", "RECOVERY_FAILED", "CRITICAL_FAULT"}

\* The state after `event` is applied in `state`.
Apply(state, event) ==
  CASE state = "BOOTING"    /\ event = "HEARTBEAT_OK"       -> "HEALTHY"
    [] state = "HEALTHY"    /\ event = "HEARTBEAT_TIMEOUT"  -> "DEGRADED"
    [] state = "HEALTHY"    /\ event = "CRITICAL_FAULT"     -> "SAFE_MODE"
    [] state = "DEGRADED"   /\ event = "RECOVERY_SENT"      -> "RECOVERING"
    [] state = "DEGRADED"   /\ event = "RECOVERY_FAILED"    -> "FAILED"
    [] state = "DEGRADED"   /\ event = "CRITICAL_FAULT"     -> "SAFE_MODE"
    [] state = "RECOVERING" /\ event = "HEARTBEAT_RESTORED" -> "HEALTHY"
    [] state = "RECOVERING" /\ event = "RECOVERY_FAILED"    -> "FAILED"
    [] OTHER -> state

\* The transition is one the table defines: it changes the state.
Valid(state, event) == Apply(state, event) # state
==============================================================================
