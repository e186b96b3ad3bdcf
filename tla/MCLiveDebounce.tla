---------------------------- MODULE MCLiveDebounce ----------------------------
(* LiveDebounce on small instances: the values are in the configurations.     *)
EXTENDS LiveDebounce

===============================================================================
