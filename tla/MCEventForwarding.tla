-------------------------- MODULE MCEventForwarding --------------------------
(* Three adapters and three events, two of them the supervisor's own.       *)
EXTENDS EventForwarding

CONSTANTS completed, initialized, lost
=============================================================================
