------------------------- MODULE MCEventForwarding -------------------------
(* Two posts of one event and no fault.                                    *)
EXTENDS EventForwarding
=============================================================================
