--------------------------- MODULE MCMoEcatMaster ---------------------------
(* An application that services the master from its callbacks and reacts   *)
(* there by stopping it or by asking for a fault.                           *)
EXTENDS MoEcatMaster

MCReactions == {"Service", "Stop", "RequestFault", "RequestEmergencyStop"}
=============================================================================
