---------------------------- MODULE MCLiveSessions ----------------------------
(* LiveSessions on small instances: the values are in the configurations.     *)
EXTENDS LiveSessions

===============================================================================
