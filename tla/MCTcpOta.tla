------------------------------- MODULE MCTcpOta -------------------------------
(* The supervisor alone, or together with the AP timeout task.              *)
EXTENDS TcpOta

CONSTANTS supervisor, ap_timeout
=============================================================================
