--------------------------- MODULE MCNativeReview ---------------------------
(* The instance of ReviewCommand, and of the NativeReview inside it, that TLC
   checks: see native.cfg. *)
EXTENDS ReviewCommand
===============================================================================
