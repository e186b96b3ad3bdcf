---------------------------- MODULE MCLspIndexer ----------------------------
(* The instance of LspIndexer that TLC checks: a file for each of three servers,
   one that is launched and spoken to by stdio, one that is launched and listens on
   a port, and one that runs already; and a file that no parser takes.  When the
   user declines the servers there is a file in a language without one. *)
EXTENDS LspIndexer
CONSTANTS f1, f2, f3, f4, h1, h2
MCLangOf == [f \in File |-> IF f = f1 THEN "python" ELSE IF f = f2 THEN "rust"
                           ELSE IF f = f3 THEN "go" ELSE "none"]
===============================================================================
