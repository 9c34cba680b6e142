------------------------------ MODULE MCSafeMode ------------------------------
(* Two OTA slots; a stable time of three periods.                           *)
EXTENDS SafeMode

CONSTANTS ota_0, ota_1
=============================================================================
