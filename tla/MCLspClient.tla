------------------------------ MODULE MCLspClient ------------------------------
(* LspClient on small instances: the values are in the configurations.        *)
EXTENDS LspClient

===============================================================================
