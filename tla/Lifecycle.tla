------------------------------ MODULE Lifecycle ------------------------------
(* The two lifecycle tables of argus_mcp/runtime/models.py: the states of the *)
(* service and the phases of a backend's status record.                       *)
EXTENDS Naturals

ServiceStates ==
    {"PENDING", "STARTING", "RUNNING", "STOPPING", "STOPPED", "ERROR"}

(* _VALID_TRANSITIONS *)
ValidTransitions ==
    [s \in ServiceStates |->
        CASE s = "PENDING"  -> {"STARTING"}
          [] s = "STARTING" -> {"RUNNING", "ERROR"}
          [] s = "RUNNING"  -> {"STOPPING"}
          [] s = "STOPPING" -> {"STOPPED", "ERROR"}
          [] s = "STOPPED"  -> {}
          [] s = "ERROR"    -> {"STARTING", "STOPPING"}]

BackendPhases ==
    {"PENDING", "INITIALIZING", "RETRYING", "READY", "DEGRADED", "FAILED",
     "SHUTTING_DOWN"}

(* _BACKEND_TRANSITIONS *)
BackendTransitions ==
    [p \in BackendPhases |->
        CASE p = "PENDING"       -> {"INITIALIZING"}
          [] p = "INITIALIZING"  -> {"READY", "FAILED"}
          [] p = "RETRYING"      -> {"INITIALIZING", "FAILED"}
          [] p = "READY"         -> {"DEGRADED", "FAILED", "SHUTTING_DOWN"}
          [] p = "DEGRADED"      -> {"READY", "FAILED", "SHUTTING_DOWN"}
          [] p = "FAILED"        -> {"INITIALIZING", "RETRYING", "SHUTTING_DOWN"}
          [] p = "SHUTTING_DOWN" -> {}]

(* BackendStatusRecord.transition as its callers use it: each of them catches *)
(* the ValueError of an invalid transition and leaves the phase as it was.    *)
Transition(p, q) == IF q \in BackendTransitions[p] THEN q ELSE p

(* BackendStatusRecord.is_operational *)
Operational(p) == p \in {"READY", "DEGRADED"}
=============================================================================
