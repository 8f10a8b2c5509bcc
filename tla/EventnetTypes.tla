---------------------------- MODULE EventnetTypes ----------------------------
(***************************************************************************)
(* The enumerations of include/eventnet/types.h, one set of strings each.  *)
(* A C enumerator EN_X_Y is the string "y".                                *)
(***************************************************************************)

ErrorCodes ==
  {"none", "tunnel_establish_timeout", "path_validation_failed",
   "forwarding_update_failed", "state_conflict", "rollback_failed",
   "observation_timeout", "invalid_argument", "not_found", "no_candidate"}

PathStates ==
  {"unavailable", "preparing", "ready", "active", "standby", "degraded",
   "failed", "draining", "unknown"}

HealthStates == {"unknown", "healthy", "degraded", "unhealthy", "failed"}

TransitionStates ==
  {"idle", "candidate_selected", "preparing", "validating", "ready",
   "pausing", "draining", "switching", "verifying", "completed",
   "rolling_back", "failed"}

SelectionModes == {"explicit", "priority", "evaluated"}

Strategies == {"immediate", "graceful", "flow_preserve"}

ComparisonKeys ==
  {"packet_loss", "latency", "hop_count", "admin_priority", "path_id"}

(* The event types en_audit_append is ever called with. *)
AuditEvents ==
  {"INTENT_CREATED", "PATH_SELECTED", "TRANSITION_STARTED", "PREPARE",
   "READY", "COMMIT", "CONFIRM", "TRANSITION_COMPLETED",
   "ROLLBACK_SKIPPED", "ROLLBACK_COMPLETED"}
==============================================================================
