---------------------------- MODULE MCPluginHost ----------------------------
(* The instance of PluginHost that TLC checks: a bundled parser, one of a
   third party, both guarded, and one that is excluded here. *)
EXTENDS PluginHost
CONSTANTS t1, t2, js, py, ps
===============================================================================
