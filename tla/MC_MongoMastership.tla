------------------------- MODULE MC_MongoMastership -------------------------
(* Two agents, enough for a handoff in either direction, and two          *)
(* elections after the root member's: a handoff and a handoff back; one   *)
(* lost connection or failed insert on a working session.                 *)
EXTENDS MongoMastership

MC_NumAgents == 2
MC_MaxElections == 2
MC_MaxFaults == 1

=============================================================================
