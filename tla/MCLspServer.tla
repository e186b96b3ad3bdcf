------------------------------ MODULE MCLspServer ------------------------------
(* LspServer on small instances: the values are in the configurations.        *)
EXTENDS LspServer

===============================================================================
