-------------------------------- MODULE MCMqtt --------------------------------
(* The supervisor and the task that gives up; two tasks of each kind, so    *)
(* that one may still end when its successor starts.                        *)
EXTENDS Mqtt

CONSTANTS supervisor, mqtt_shutdown_task, t1, t2
=============================================================================
